------------------------------ MODULE MiddleEnd ------------------------------
(***************************************************************************)
(* From the syntax tree to the Pinkie code that the code generator gets:   *)
(* typecheck, generate_eeyore, FromEeyore and the four passes of optimize, *)
(* one action each, for a source program chosen among Mains.               *)
(***************************************************************************)
EXTENDS PinkieRun

CONSTANT Mains  \* the functions main to compile

VARIABLES
    parsed, \* the source
    meant,  \* what it may show (history variable)
    main,   \* the tree of typecheck()
    phase,  \* the pass that ran last, or "stopped"
    code,   \* the Pinkie program
    stop    \* what stopped the compiler

vars == <<parsed, meant, main, phase, code, stop>>

NoCode == [globals |-> {}, funcs |-> <<>>, label_count |-> 0]

Init ==
    /\ parsed \in Mains
    /\ meant = Meaning(parsed)
    /\ main = parsed
    /\ phase = "parsed"
    /\ code = NoCode
    /\ stop = ""

Typecheck ==
    LET c == typecheck_main(parsed)
    IN  /\ phase = "parsed"
        /\ phase' = IF c.stop = "" THEN "typechecked" ELSE "stopped"
        /\ main' = c.tree
        /\ stop' = c.stop
        /\ UNCHANGED <<parsed, meant, code>>

Pass(from, to, output) ==
    /\ phase = from
    /\ phase' = to
    /\ code' = output
    /\ UNCHANGED <<parsed, meant, main, stop>>

Generate == Pass("typechecked", "generated", generate_eeyore(main))

ConstFold ==
    /\ phase = "generated" /\ ~const_fold_dies(code)
    /\ Pass("generated", "const_fold", const_fold(code))

\* The process of the compiler dies of the division.
ConstFoldDies ==
    /\ phase = "generated" /\ const_fold_dies(code)
    /\ phase' = "stopped"
    /\ stop' = "signal"
    /\ UNCHANGED <<parsed, meant, main, code>>

UnusedTempRemove == Pass("const_fold", "unused_temp_remove", unused_temp_remove(code))
ClearTemp == Pass("unused_temp_remove", "clear_temp", clear_temp(code))
FlipBinop == Pass("clear_temp", "flip_binop", flip_binop(code))

Next ==
    \/ Typecheck \/ Generate \/ ConstFold \/ ConstFoldDies
    \/ UnusedTempRemove \/ ClearTemp \/ FlipBinop

Spec == Init /\ [][Next]_vars

-----------------------------------------------------------------------------
(* Properties. *)

Optimised == phase \in {"const_fold", "unused_temp_remove", "clear_temp", "flip_binop"}
Coded == phase = "generated" \/ Optimised

\* The code shows what the source means, or the source divides by zero.
Follows == Shown(code) \in meant \/ \E events \in meant : Faulty(events)

\* Generated code shows what the source means: constants computed by the
\* compiler, short circuits, loops, break and continue, calls among operands
\* and arguments, the arrays' strides.
GeneratedRight == phase = "generated" => Follows

\* Whatever constant folding, removal of unused temporaries, renumbering and
\* flipping do, the program shows what its source means after each of them,
\* with integers at the ends of their range as well.
OptimisedRight == Optimised => Follows

\* The parts of a statement or an expression, itself included.
RECURSIVE Within(_)
Parts(n) ==
    CASE n.kind = "unary"       -> {n.ch}
      [] n.kind = "binary"      -> {n.ch0, n.ch1}
      [] n.kind = "offset"      -> {n.arr, n.offset}
      [] n.kind = "call"        -> ToSet(n.args)
      [] n.kind = "block"       -> ToSet(n.code)
      [] n.kind = "declaration" -> {n.init[i].exp : i \in DOMAIN n.init}
      [] n.kind = "assignment"  -> {n.lhs, n.rhs}
      [] n.kind = "expression"  -> {n.rhs}
      [] n.kind = "return"      -> ToSet(n.rhs)
      [] n.kind = "if"          -> {n.cond, n.then} \cup ToSet(n.else)
      [] n.kind = "while"       -> {n.cond, n.body}
      [] OTHER                  -> {}
Within(n) == {n} \cup UNION {Within(part) : part \in Parts(n)}

\* The value of an expression on literals, without && and ||: of at most one.
RECURSIVE OfLiterals(_)
Operands2(e) == {<<x, y>> : x \in OfLiterals(e.ch0), y \in OfLiterals(e.ch1)}
OfLiterals(e) ==
    CASE e.kind = "literal" -> {e.val}
      [] e.kind = "unary"   -> {toUnaryOP(e.op, x) : x \in OfLiterals(e.ch)}
      [] e.kind = "binary" /\ e.op \notin {"&&", "||"} ->
            {toOP(e.op, p[1], p[2]) : p \in Operands2(e)}
      [] OTHER -> {}

DividesLiterals == \E e \in Within(main.code) :
    e.kind = "binary" /\ \E p \in Operands2(e) : Traps(e.op, p[1], p[2])

\* What the compiler has to compute of a statement, as statements in the order
\* of the text: dimensions and constants, out of whatever is around them.
RECURSIVE ComputedOf(_), ComputedOfAll(_)
ComputedOfAll(sts) == FlattenSeq([i \in DOMAIN sts |-> ComputedOf(sts[i])])
ComputedOf(st) ==
    CASE st.kind = "declaration" ->
            LET sizes == SelectSeq(st.dims, LAMBDA e : e # NoneLiteral)
            IN  [i \in DOMAIN sizes |-> ExpressionStmt(sizes[i])]
                  \o (IF st.const THEN <<st>> ELSE <<>>)
      [] st.kind = "function" -> ComputedOfAll(Append(st.params, st.code))
      [] st.kind = "block"    -> ComputedOfAll(st.code)
      [] st.kind = "if"       -> ComputedOfAll(<<st.then>> \o st.else)
      [] st.kind = "while"    -> ComputedOf(st.body)
      [] OTHER                -> <<>>

ComputedBefore == ComputedOfAll(Globals \o Functions)
Computations(f) == ComputedBefore \o ComputedOf(f)
ComputationFaults(f) == \E s \in ExecAll(Computations(f), Started, 1) : Faulty(s.events)

\* What no constant can be computed from: calls, names of other things, arrays
\* instead of their elements.
ConstNames(sts) == {sts[i].sym.name : i \in {j \in DOMAIN sts : sts[j].kind = "declaration"}}
Numbers(e) == CASE e.kind = "unary"  -> {e.ch}
                [] e.kind = "binary" -> {e.ch0, e.ch1}
                [] e.kind = "offset" -> {e.offset}
                [] e.kind = "declaration" -> {e.init[i].exp : i \in DOMAIN e.init}
                [] e.kind = "expression"  -> {e.rhs}
                [] OTHER -> {}
Inconstant(sts) == \E i \in DOMAIN sts :
    \/ sts[i].kind = "declaration" /\ sts[i].init = <<>>
    \/ \E e \in Within(sts[i]) :
          \/ e.kind = "call"
          \/ e.kind = "symbol" /\ e.name \notin ConstNames(sts)
          \/ \E x \in Numbers(e) : TypeOf(x) # <<>>

\* A compiler that does not finish has a reason, and with a reason it does not
\* finish.  typecheck() is killed exactly when the constants and dimensions of
\* the program, executed one after the other as the text has them, be they in a
\* block that is never entered, divide by zero; and it reports exactly what
\* cannot be computed.  Constant folding is killed exactly when the tree divides
\* literals by zero, be it behind a condition that is never true.
StopsForAReason ==
    /\ phase = "stopped" /\ code = NoCode =>
          IF stop = "signal" THEN ComputationFaults(parsed) ELSE Inconstant(Computations(parsed))
    /\ phase = "typechecked" =>
          ~ComputationFaults(parsed) /\ ~Inconstant(Computations(parsed))
    /\ phase = "stopped" /\ code # NoCode => DividesLiterals
    /\ Optimised => ~DividesLiterals

UnitsOf(f) == {f.code[i] : i \in DOMAIN f.code}
Funcs == {code.funcs[i] : i \in DOMAIN code.funcs}
Labels(f) == {u.id : u \in {x \in UnitsOf(f) : x.type = "label"}}
Mentioned(f) == UNION {{u[x] : x \in wops(u.type) \cup rops(u.type)} : u \in UnitsOf(f)}
Names(symbols) == {s.name : s \in symbols}

\* What generate_code asserts and does not check for: no operator on a literal
\* alone, no unit without a meaning, jumps on a comparison with zero
\* (interop.cpp:206, interop.cpp:284).
Ready == phase = "flip_binop" => \A f \in Funcs : \A u \in UnitsOf(f) :
    /\ u.type # "n_unit_type"
    /\ u.type = "unary" => ~IsLiteral(u.src1)
    /\ u.type = "binary" => ~(IsLiteral(u.src1) /\ IsLiteral(u.src2))
    /\ u.type = "binary" /\ u.op \in {"+", "*"} => ~IsLiteral(u.src1)
    /\ u.type = "jc" => ~IsLiteral(u.src1) /\ u.src2 = Literal(0)

\* Every label is defined once in the program and jumped to from its own
\* function only; generate_code numbers its own labels from label_count on.
LabelsRight == Coded => \A f \in Funcs :
    /\ \A u \in UnitsOf(f) : u.type \in {"jmp", "jc"} => u.id \in Labels(f)
    /\ \A g \in Funcs \ {f} : Labels(f) \cap Labels(g) = {}
    /\ \A i, j \in DOMAIN f.code :
          f.code[i].type = "label" /\ f.code[i] = f.code[j] =>
              i = j /\ f.code[i].id < code.label_count

\* The frame of a function has a place for every name its code mentions
\* (annotate_variable), through the renumbering of clear_temp as well.
EverythingDeclared == Coded => \A f \in Funcs :
    \A o \in Mentioned(f) :
       \/ IsLiteral(o)
       \/ o.ns = "param" /\ o.id < f.arity
       \/ o \in Names(f.decl) \cup Names(code.globals)

=============================================================================
