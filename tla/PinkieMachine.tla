---------------------------- MODULE PinkieMachine ----------------------------
(***************************************************************************)
(* What Pinkie code means: every symbol is a variable of its own, calls    *)
(* get their arguments in order, and a function returns to its caller.     *)
(* A pointer is the number of a place; where the arrays are is up to the    *)
(* implementation.  CodeGen is shown to implement this with registers and  *)
(* one flat memory.                                                        *)
(***************************************************************************)
EXTENDS Pinkie

CONSTANTS
    MaxArgs,  \* arguments a call can have (interop.cpp:49-57)
    Place     \* where each function finds an array

VARIABLES
    fun,      \* the function being run
    running,  \* it has been entered and has not returned
    env,      \* the contents of its symbols' words
    args,     \* the arguments of the param units since the last call
    event     \* what the last step showed to the outside

\* The arguments a function can get; its pointers are to global arrays.
Actuals == [f \in DOMAIN Fun |->
    LET pointers == {Place[f][g.name] : g \in {x \in Global : x.len > 0}}
    IN  {a \in [1 .. Fun[f].arity -> Word \cup pointers] :
           \A i \in DOMAIN a : a[i] \in IF Param(i - 1) \in Fun[f].ptr THEN pointers ELSE Word}]

Value(o) ==
    CASE o.ns = "literal"    -> o.id
      [] o \in Arrays[fun]   -> Place[fun][o]
      [] OTHER               -> env[<<o, 0>>]

\* The element at a byte offset from where a base operand points to, if any.
At(base, incr) ==
    {c \in Elements[fun] : Place[fun][c[1]] + c[2] = Value(base) + Value(incr)}

\* The source program stays within its arrays, and the front end computes all
\* of the arguments of a call before it passes the first (gen_eeyore.cpp:197-213).
Defined(u) ==
    /\ args # <<>> => u.type \in {"param", "calli", "callv"}
    /\ u.type = "aw" => At(u.dst, u.incr) # {}
    /\ u.type = "ar" => At(u.src, u.incr) # {}
    /\ (u.type = "binary" /\ u.bop = "plus") => At(u.src1, u.src2) # {}

Assign(cell, v) ==
    /\ env' = [env EXCEPT ![cell] = v]
    /\ event' = <<"none">>
    /\ UNCHANGED <<fun, running, args>>

Init ==
    /\ fun \in DOMAIN Fun
    /\ running = FALSE
    /\ env = [c \in Cells[fun] |-> 0]
    /\ args = <<>>
    /\ event = <<"none">>

\* A call from outside: parameters hold the arguments, globals what they held
\* and the other locals whatever memory held, here one word throughout.
Enter(f, actual, fill) ==
    /\ ~running
    /\ fun' = f
    /\ running' = TRUE
    /\ args' = <<>>
    /\ event' = <<"enter", actual>>
    /\ env' = [c \in Cells[f] |->
                 CASE c[1].ns = "param"  -> actual[c[1].id + 1]
                   [] c \in GlobalCells -> env[c]
                   [] OTHER             -> fill]

Binary(bop, v, w) == IF bop = "plus" THEN v + w ELSE Bin[<<v, w>>]

Compute(u) ==
    CASE u.type = "unary"  -> Assign(<<u.dst, 0>>, Un[Value(u.src)])
      [] u.type = "binary" -> Assign(<<u.dst, 0>>, Binary(u.bop, Value(u.src1), Value(u.src2)))
      [] u.type = "copy"   -> Assign(<<u.dst, 0>>, Value(u.src))
      [] u.type = "aw"     -> Assign(CHOOSE c \in At(u.dst, u.incr) : TRUE, Value(u.src))
      [] u.type = "ar"     -> Assign(<<u.dst, 0>>, env[CHOOSE c \in At(u.src, u.incr) : TRUE])

Branch(u) ==
    /\ event' = <<u.type, u.type = "jc" => Value(u.src1) = 0>>
    /\ UNCHANGED <<fun, running, env, args>>

Pass(u) ==
    /\ Len(args) < MaxArgs
    /\ args' = Append(args, Value(u.src))
    /\ event' = <<"none">>
    /\ UNCHANGED <<fun, running, env>>

\* The callee sees the arguments; it may change what it can reach (left) and
\* gives a result (r).
Call(u, r, left) ==
    /\ event' = <<"call", args>>
    /\ args' = <<>>
    /\ env' = [c \in DOMAIN env |->
                 IF u.type = "calli" /\ c = <<u.dst, 0>> THEN r
                 ELSE IF c \in Reach[fun] THEN left[c] ELSE env[c]]
    /\ UNCHANGED <<fun, running>>

Return(u) ==
    /\ running' = FALSE
    /\ event' = IF u.type = "reti" THEN <<"reti", Value(u.src)>> ELSE <<"retv">>
    /\ UNCHANGED <<fun, env, args>>

Of(types) == {u \in Units[fun] : u.type \in types /\ running /\ Defined(u)}

Next ==
    \/ \E f \in DOMAIN Fun : \E actual \in Actuals[f], fill \in Word : Enter(f, actual, fill)
    \/ \E u \in Of({"unary", "binary", "copy", "aw", "ar"}) : Compute(u)
    \/ \E u \in Of({"jc", "jmp", "label"}) : Branch(u)
    \/ \E u \in Of({"param"}) : Pass(u)
    \/ \E u \in Of({"calli", "callv"}), r \in Word, left \in [Reach[fun] -> Word] : Call(u, r, left)
    \/ \E u \in Of({"reti", "retv"}) : Return(u)

vars == <<fun, running, env, args, event>>

Spec == Init /\ [][Next]_vars

=============================================================================
