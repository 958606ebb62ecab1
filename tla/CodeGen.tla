-------------------------------- MODULE CodeGen --------------------------------
(***************************************************************************)
(* The code generator (interop.cpp, PinkieCompiler): Pinkie to Dashie.      *)
(*                                                                         *)
(* Every symbol gets a place in the frame or among the globals; every unit *)
(* becomes a load of its operands into registers that rotate through a     *)
(* pool, the operation, and a store.  An action runs one Pinkie unit, and  *)
(* its Dashie code on a register file and one flat memory next to it.      *)
(*                                                                         *)
(* Registers are poisoned between units: generated code may rely only on   *)
(* the arguments passed so far and on the callee-saved registers outside   *)
(* its pool.  The pool is somewhere else at every jump target, so a jump   *)
(* leaves it anywhere.                                                     *)
(***************************************************************************)
EXTENDS Pinkie

CONSTANTS
    NArg,       \* argument registers (8)
    NSpill,     \* arguments passed in temporaries beyond those (4)
    NTemp,      \* temporary registers of the pool (6)
    NSave,      \* callee-saved registers (12)
    FirstSpill, \* the first temporary that passes an argument (3)
    Frame,      \* address of the frame
    GlobalBase  \* addresses of the globals, by operand

\* The pool has three registers to hand out, and the arguments of a function have
\* registers: abi_argument() refuses more.
ASSUME RegisterAssumption ==
    /\ NArg \in Nat \ {0} /\ NSpill \in Nat /\ NTemp \in Nat /\ NSave \in Nat \ {0}
    /\ NTemp > 1 /\ FirstSpill \in Nat /\ FirstSpill + NSpill <= NTemp + 1
    /\ \A f \in DOMAIN Fun : Fun[f].arity <= NArg + NSpill

VARIABLES
    fun, running, env, args, event,  \* the Pinkie code being run, see PinkieMachine
    regs,                            \* the register file
    mem,                             \* memory, by address
    tempo_cnt,                       \* next_reg(): position in the pool
    param_c,                         \* param units since the last call
    out                              \* what the last step of the generated code showed

vars == <<fun, running, env, args, event, regs, mem, tempo_cnt, param_c, out>>

Arg(i)  == <<"a", i>>
Temp(i) == <<"t", i>>
Save(i) == <<"s", i>>
Zero    == <<"x", 0>>

Reg == {Zero} \cup {Arg(i) : i \in 0 .. NArg - 1} \cup {Temp(i) : i \in 0 .. NTemp}
         \cup {Save(i) : i \in 0 .. NSave - 1}

Poison  == -1                  \* what a register holds that nothing may rely on
Kept(i) == -2 - i              \* what the caller has in its i-th saved register

-----------------------------------------------------------------------------
(* Layout of the frame. *)

\* (n_loc - 6) * 0.8 towards zero, at least 1 and at most all of them.
callee_saved_heuristic == [f \in DOMAIN Fun |->
    LET n == Cardinality(Fun[f].decl)
        x == IF n < 6 THEN 0 ELSE ((n - 6) * 8) \div 10
    IN  IF x < 1 THEN 1 ELSE IF x > NSave THEN NSave ELSE x]

\* std::map<Operand, ...> is ordered by the character of the namespace: 'T' for
\* variables, then 'p', then 't'; then by id.
Rank(ns) == CASE ns = "var" -> 1 [] ns = "param" -> 2 [] ns = "temp" -> 3

\* Mutant of Before: the namespace is left out of the order.
BeforeById(o, p) == o.id < p.id

Before(o, p) == Rank(o.ns) < Rank(p.ns) \/ (o.ns = p.ns /\ o.id < p.id)

\* The callee-saved registers come first, then the words of the locals in map
\* order: an offset counts the words of what comes before.
OffsetAfter(f, symbols) == 4 * (callee_saved_heuristic[f] + Cardinality(CellsOf(symbols)))

compute_offset == [f \in DOMAIN Fun |->
    [o \in {s.name : s \in Local[f]} |-> OffsetAfter(f, {s \in Local[f] : Before(s.name, o)})]]

frame == [f \in DOMAIN Fun |-> OffsetAfter(f, Local[f])]

\* Where a symbol is: g_lookup for the globals, the frame for the rest.
Address == [f \in DOMAIN Fun |->
    [o \in {s.name : s \in Symbols[f]} |->
       IF o \in DOMAIN GlobalBase THEN GlobalBase[o] ELSE Frame + compute_offset[f][o]]]

FrameWords == [f \in DOMAIN Fun |-> {Frame + k : k \in Offsets(frame[f])}]
GlobalWords == {GlobalBase[c[1]] + c[2] : c \in GlobalCells}

\* The linker and the stack give globals and frame memory of their own.
ASSUME MemoryAssumption ==
    /\ Frame \in Nat
    /\ GlobalBase \in [{g.name : g \in Global} -> Nat]
    /\ \A c, d \in GlobalCells : GlobalBase[c[1]] + c[2] = GlobalBase[d[1]] + d[2] => c = d
    /\ \A f \in DOMAIN Fun : FrameWords[f] \cap GlobalWords = {}

Source == INSTANCE PinkieMachine WITH MaxArgs <- NArg + NSpill, Place <- Address

-----------------------------------------------------------------------------
(* Registers. *)

tempos == [f \in DOMAIN Fun |->
    [i \in 1 .. NTemp |-> Temp(i)]
      \o [i \in 1 .. callee_saved_heuristic[f] |-> Save(i - 1)]]

\* Where the pool is after k times next_reg(): it starts over at its end, at most
\* once for a unit, since no unit draws more than the three that any pool has.
turned(k) == LET n == Len(tempos[fun])
             IN  IF tempo_cnt + k >= n THEN tempo_cnt + k - n ELSE tempo_cnt + k

\* The register that the k-th next_reg() from now gives.
next_reg(k) == tempos[fun][turned(k) + 1]

abi_argument(i) == IF i < NArg THEN Arg(i) ELSE Temp(i - NArg + FirstSpill)

-----------------------------------------------------------------------------
(* Generated code: Dashie units, and what each does. *)

load(f, r, o) ==
    CASE o.ns = "literal" /\ o.id = 0 -> [type |-> "cr", dst |-> r, src |-> Zero]
      [] o.ns = "literal" /\ o.id # 0 -> [type |-> "ci", dst |-> r, imm |-> o.id]
      [] OTHER -> [type |-> CASE o \in Arrays[f] /\ o \in DOMAIN GlobalBase -> "ptrglo"
                              [] o \in Arrays[f] /\ o \notin DOMAIN GlobalBase -> "ptrstk"
                              [] o \notin Arrays[f] /\ o \in DOMAIN GlobalBase -> "rglo"
                              [] OTHER -> "rstk",
                   dst |-> r, addr |-> Address[f][o]]

\* A global is written through its address in a register of its own.
store(f, r, o, t1) ==
    IF o \in DOMAIN GlobalBase
    THEN <<[type |-> "ptrglo", dst |-> t1, addr |-> GlobalBase[o]],
           [type |-> "aw", dst |-> t1, src |-> r, incr |-> 0]>>
    ELSE <<[type |-> "wstk", src |-> r, addr |-> Address[f][o]]>>

rbr(bop, d, r, s) == [type |-> "rbr", bop |-> bop, dst |-> d, src1 |-> r, src2 |-> s]

\* The units of one Pinkie unit, given the registers that next_reg() hands out.
Code(f, u, tmp0, tmp1, t1) ==
    CASE u.type = "unary" ->
           <<load(f, tmp0, u.src), [type |-> "ur", dst |-> tmp0, src |-> tmp0]>>
             \o store(f, tmp0, u.dst, t1)
      [] u.type = "binary" /\ u.src2.ns = "literal" ->
           <<load(f, tmp0, u.src1),
             [type |-> "rbi", bop |-> u.bop, dst |-> tmp0, src1 |-> tmp0, imm |-> u.src2.id]>>
             \o store(f, tmp0, u.dst, t1)
      [] u.type = "binary" /\ u.src2.ns # "literal" ->
           <<load(f, tmp0, u.src1), load(f, tmp1, u.src2), rbr(u.bop, tmp0, tmp0, tmp1)>>
             \o store(f, tmp0, u.dst, t1)
      [] u.type = "copy" ->
           <<load(f, tmp0, u.src)>> \o store(f, tmp0, u.dst, t1)
      [] u.type = "aw" /\ u.incr.ns = "literal" ->
           <<load(f, tmp0, u.dst), load(f, tmp1, u.src),
             [type |-> "aw", dst |-> tmp0, src |-> tmp1, incr |-> u.incr.id]>>
      [] u.type = "aw" /\ u.incr.ns # "literal" ->
           <<load(f, tmp0, u.dst), load(f, tmp1, u.incr), rbr("plus", tmp0, tmp0, tmp1),
             load(f, tmp1, u.src), [type |-> "aw", dst |-> tmp0, src |-> tmp1, incr |-> 0]>>
      [] u.type = "ar" /\ u.incr.ns = "literal" ->
           <<load(f, tmp1, u.src),
             [type |-> "ar", dst |-> tmp0, src |-> tmp1, incr |-> u.incr.id]>>
             \o store(f, tmp0, u.dst, t1)
      [] u.type = "ar" /\ u.incr.ns # "literal" ->
           <<load(f, tmp1, u.src), load(f, tmp0, u.incr), rbr("plus", tmp1, tmp1, tmp0),
             [type |-> "ar", dst |-> tmp0, src |-> tmp1, incr |-> 0]>>
             \o store(f, tmp0, u.dst, t1)
      [] u.type = "jc"    -> <<load(f, tmp0, u.src1)>>
      [] u.type = "param" -> <<load(f, abi_argument(param_c), u.src)>>
      [] u.type = "calli" -> store(f, Arg(0), u.dst, t1)
      [] u.type = "reti"  -> <<load(f, Arg(0), u.src)>>
      [] OTHER            -> <<>>

\* store() is what calls next_reg() a third time.
Draws(u) == IF u.type \in {"unary", "binary", "copy", "ar", "calli"} THEN 3 ELSE 2

prologue(f) ==
    [i \in 1 .. Fun[f].arity |->
       [type |-> "wstk", src |-> abi_argument(i - 1), addr |-> Address[f][Param(i - 1)]]]
      \o [i \in 1 .. callee_saved_heuristic[f] |->
            [type |-> "wstk", src |-> Save(i - 1), addr |-> Frame + 4 * (i - 1)]]

\* Mutant of epilogue: it stops one register short.
epilogueShort(f) ==
    [i \in 1 .. callee_saved_heuristic[f] - 1 |->
       [type |-> "rstk", dst |-> Save(i - 1), addr |-> Frame + 4 * (i - 1)]]

epilogue(f) ==
    [i \in 1 .. callee_saved_heuristic[f] |->
       [type |-> "rstk", dst |-> Save(i - 1), addr |-> Frame + 4 * (i - 1)]]

\* Poison in, poison out; a stray address reads poison.
Word1(op, v)    == IF v \in Word THEN op[v] ELSE Poison
Word2(bop, v, w) ==
    CASE bop = "plus" /\ v # Poison /\ w # Poison      -> v + w
      [] bop = "bop" /\ v \in Word /\ w \in Word        -> Bin[<<v, w>>]
      [] OTHER                                         -> Poison
Read(m, a)      == IF a \in DOMAIN m.mem THEN m.mem[a] ELSE Poison

SetReg(m, x, v) == [m EXCEPT !.regs = [m.regs EXCEPT ![x] = v]]
SetMem(m, a, v) == [m EXCEPT !.mem = [m.mem EXCEPT ![a] = v]]

Exec(m, c) ==
    LET r == m.regs
    IN  CASE c.type = "cr"                   -> SetReg(m, c.dst, r[c.src])
          [] c.type = "ci"                   -> SetReg(m, c.dst, c.imm)
          [] c.type \in {"rglo", "rstk"}     -> SetReg(m, c.dst, Read(m, c.addr))
          [] c.type \in {"ptrglo", "ptrstk"} -> SetReg(m, c.dst, c.addr)
          [] c.type = "ur"                   -> SetReg(m, c.dst, Word1(Un, r[c.src]))
          [] c.type = "rbi"                  -> SetReg(m, c.dst, Word2(c.bop, r[c.src1], c.imm))
          [] c.type = "rbr"                  -> SetReg(m, c.dst, Word2(c.bop, r[c.src1], r[c.src2]))
          [] c.type = "ar"                   -> SetReg(m, c.dst, Read(m, r[c.src] + c.incr))
          [] c.type = "wstk"                 -> SetMem(m, c.addr, r[c.src])
          [] c.type = "aw"                   -> SetMem(m, r[c.dst] + c.incr, r[c.src])

Execute(m, code) ==
    LET after[i \in 0 .. Len(code)] == IF i = 0 THEN m ELSE Exec(after[i - 1], code[i])
    IN  after[Len(code)]

\* What the code after a unit may rely on: the arguments passed, and the saved
\* registers that the function never touches.
Settled(f, r, n) ==
    LET kept == {Zero} \cup {abi_argument(i) : i \in 0 .. n - 1}
                  \cup {Save(i) : i \in callee_saved_heuristic[f] .. NSave - 1}
    IN  [x \in Reg |-> IF x \in kept THEN r[x] ELSE Poison]

-----------------------------------------------------------------------------
(* What the memory says of the Pinkie variables. *)

Env == [c \in Cells[fun] |-> mem[Address[fun][c[1]] + c[2]]]
Args == [i \in 1 .. param_c |-> regs[abi_argument(i - 1)]]

-----------------------------------------------------------------------------
(* Actions: a Pinkie unit and the code generated for it. *)

Init ==
    /\ Source!Init
    /\ regs = [x \in Reg |-> IF x = Zero THEN 0 ELSE Poison]
    /\ mem = [a \in FrameWords[fun] \cup GlobalWords |-> 0]
    /\ tempo_cnt = 0
    /\ param_c = 0
    /\ out = event

\* The caller puts the arguments in place; the prologue runs.
Enter(f, actual, fill) ==
    /\ Source!Enter(f, actual, fill)
    /\ LET passed(x) == {i \in 1 .. Fun[f].arity : x = abi_argument(i - 1)}
           called == [x \in Reg |->
                        CASE x = Zero        -> 0
                          [] x[1] = "s"      -> Kept(x[2])
                          [] passed(x) # {} -> actual[CHOOSE i \in passed(x) : TRUE]
                          [] OTHER           -> Poison]
           found == [a \in FrameWords[f] \cup GlobalWords |->
                       IF a \in GlobalWords THEN mem[a] ELSE fill]
           m == Execute([regs |-> called, mem |-> found], prologue(f))
       IN  /\ regs' = Settled(f, m.regs, 0)
           /\ mem' = m.mem
    /\ tempo_cnt' = 0
    /\ param_c' = 0
    /\ out' = <<"enter", actual>>

\* The machine after the code of a unit, and the pool after it.
Ran(regs0, mem0, u) ==
    Execute([regs |-> regs0, mem |-> mem0], Code(fun, u, next_reg(1), next_reg(2), next_reg(3)))

\* Mutant of Drawn: the pool is not rotated back to its beginning.
DrawnOn(u) == tempo_cnt' = tempo_cnt + Draws(u)

Drawn(u) == tempo_cnt' = turned(Draws(u))

\* Mutant of Counted: only a call with a result starts the count anew.
CountedOn(u) == param_c' = CASE u.type = "param" -> param_c + 1
                             [] u.type = "calli" -> 0
                             [] OTHER            -> param_c

Counted(u) == param_c' = CASE u.type = "param"             -> param_c + 1
                           [] u.type \in {"calli", "callv"} -> 0
                           [] OTHER                        -> param_c

\* Mutant of Taken: jc looks at the other register drawn for the unit.
TakenOther(u, m) == u.type = "jc" => m.regs[next_reg(2)] = m.regs[Zero]

\* jc compares what it loaded with x0.
Taken(u, m) == u.type = "jc" => m.regs[next_reg(1)] = m.regs[Zero]

Compute(u) ==
    /\ Source!Compute(u)
    /\ LET m == Ran(regs, mem, u) IN
         /\ regs' = Settled(fun, m.regs, 0)
         /\ mem' = m.mem
    /\ Drawn(u)
    /\ Counted(u)
    /\ out' = <<"none">>

\* label and jmp load nothing.
Branch(u) ==
    /\ Source!Branch(u)
    /\ LET m == Ran(regs, mem, u) IN
         /\ regs' = Settled(fun, m.regs, 0)
         /\ mem' = m.mem
         /\ out' = <<u.type, Taken(u, m)>>
    /\ tempo_cnt' \in 0 .. Len(tempos[fun]) - 1
    /\ Counted(u)

\* An argument more than abi_argument knows is a compile-time error.
Pass(u) ==
    /\ Source!Pass(u)
    /\ LET m == Ran(regs, mem, u) IN
         /\ regs' = Settled(fun, m.regs, param_c + 1)
         /\ mem' = m.mem
    /\ Counted(u)
    /\ Drawn(u)
    /\ out' = <<"none">>

\* The callee leaves its result in a0 and nothing else in the registers that
\* it need not keep.
Call(u, r, left) ==
    /\ Source!Call(u, r, left)
    /\ LET returned == [Settled(fun, regs, 0) EXCEPT ![Arg(0)] = r]
           changed  == [a \in DOMAIN mem |->
                          LET c == {x \in Reach[fun] : Address[fun][x[1]] + x[2] = a}
                          IN  IF c = {} THEN mem[a] ELSE left[CHOOSE x \in c : TRUE]]
           m == Ran(returned, changed, u)
       IN  /\ regs' = Settled(fun, m.regs, 0)
           /\ mem' = m.mem
    /\ out' = <<"call", Args>>
    /\ Counted(u)
    /\ Drawn(u)

\* The value goes to a0 and the epilogue runs.
Return(u) ==
    /\ Source!Return(u)
    /\ LET m == Execute(Ran(regs, mem, u), epilogue(fun)) IN
         /\ regs' = m.regs
         /\ mem' = m.mem
         /\ out' = IF u.type = "reti" THEN <<"reti", m.regs[Arg(0)]>> ELSE <<"retv">>
    /\ tempo_cnt' = 0
    /\ Counted(u)

Next ==
    \/ \E f \in DOMAIN Fun : \E actual \in Source!Actuals[f], fill \in Word : Enter(f, actual, fill)
    \/ \E u \in Source!Of({"unary", "binary", "copy", "aw", "ar"}) : Compute(u)
    \/ \E u \in Source!Of({"jc", "jmp", "label"}) : Branch(u)
    \/ \E u \in Source!Of({"param"}) : Pass(u)
    \/ \E u \in Source!Of({"calli", "callv"}), r \in Word, left \in [Reach[fun] -> Word] :
         Call(u, r, left)
    \/ \E u \in Source!Of({"reti", "retv"}) : Return(u)

Spec == Init /\ [][Next]_vars

-----------------------------------------------------------------------------
(* Properties. *)

\* Registers and memory hold words, addresses, or what the caller left.
TypeOK ==
    /\ regs \in [Reg -> Int]
    /\ mem \in [FrameWords[fun] \cup GlobalWords -> Int]
    /\ tempo_cnt \in 0 .. Len(tempos[fun]) - 1
    /\ param_c \in 0 .. NArg + NSpill

\* Memory holds every variable of the source with its value, across array
\* writes, stores through pointers and calls: no two symbols and no saved
\* register overlap, and no value that the program can read comes from a
\* register left over from an earlier unit.
MemoryHoldsEnv == Env = env

\* Arguments wait for the call where the callee looks for them, those in
\* temporaries of the pool too, while the later ones are computed.
ArgsInPlace == Args = args

\* Calls get the arguments, branches go the way, and the caller gets the result
\* that the source says.
SameEvents == out = event

\* A function gives its caller back every callee-saved register, the ones that
\* it used in its pool included, whatever its code wrote to its frame.
CalleeSaved ==
    (~running /\ out[1] \in {"reti", "retv"}) =>
       \A i \in 0 .. NSave - 1 : regs[Save(i)] = Kept(i)

\* Generated code implements Pinkie, with the variables read off memory and
\* the arguments off the registers.
Meaning == INSTANCE PinkieMachine
             WITH env <- Env, args <- Args, event <- out,
                  MaxArgs <- NArg + NSpill, Place <- Address
ImplementsPinkie == Meaning!Spec

=============================================================================
