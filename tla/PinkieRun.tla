------------------------------ MODULE PinkieRun ------------------------------
(***************************************************************************)
(* A whole Pinkie program run from main: activations, memory, calls, and    *)
(* the events it shows.  PinkieMachine is about single units of any          *)
(* function; this module is about the paths of one program.                 *)
(***************************************************************************)
EXTENDS PinkieOpt

CONSTANT LogSteps  \* the machine is given 2 ^ LogSteps units

FuncOf(prog, name) == CHOOSE i \in DOMAIN prog.funcs : prog.funcs[i].name = name
Known(prog, name) == \E i \in DOMAIN prog.funcs : prog.funcs[i].name = name

\* Where an operand of the running function is.
Place(prog, c, o) == Address(IF \E s \in prog.globals : s.name = o THEN 0 ELSE Len(c.stack), o)

IsArray(prog, c, o) == \E s \in prog.globals \cup prog.funcs[c.func].decl :
                          s.name = o /\ s.len > 0

Value(prog, c, o) == CASE o.ns = "literal" -> o.id
                       [] o.ns # "literal" /\ IsArray(prog, c, o) -> Place(prog, c, o)
                       [] OTHER -> Read(c.mem, Place(prog, c, o))

Goto(prog, c, label) ==
    [c EXCEPT !.pc = CHOOSE i \in DOMAIN prog.funcs[c.func].code :
        prog.funcs[c.func].code[i].type = "label" /\ prog.funcs[c.func].code[i].id = label]

\* A frame: the function running in the frame below, where, and where its
\* result goes.
CallStep(prog, c, u) ==
    IF Known(prog, u.name)
    THEN [c EXCEPT !.stack = Append(@, [func |-> c.func, pc |-> c.pc, dst |-> u.dst]),
                   !.func = FuncOf(prog, u.name), !.pc = 1, !.params = <<>>,
                   !.mem = Enter(c.mem, Len(c.stack) + 1, c.params)]
    ELSE LET d == [c EXCEPT !.events = Emit(@, Event(u.name, c.params)), !.params = <<>>]
         IN  IF u.type = "callv" THEN d
             ELSE [d EXCEPT !.mem = Write(@, Place(prog, c, u.dst), Input(Len(c.events)))]

ReturnStep(prog, c, v) ==
    LET top == c.stack[Len(c.stack)]
        d == [c EXCEPT !.stack = SubSeq(@, 1, Len(@) - 1), !.func = top.func, !.pc = top.pc]
    IN  IF Len(c.stack) = 1
        THEN [c EXCEPT !.ended = TRUE, !.events = Emit(@, Event("exit", <<v>>))]
        ELSE IF top.dst = Nothing THEN d
        ELSE [d EXCEPT !.mem = Write(@, Place(prog, d, top.dst), v)]

Step(prog, c) ==
    LET u == prog.funcs[c.func].code[c.pc]
        n == [c EXCEPT !.pc = @ + 1]
        V(o) == Value(prog, c, o)
        Set(o, v) == [n EXCEPT !.mem = Write(@, Place(prog, c, o), v)]
    IN  CASE u.type = "unary"  -> Set(u.dst, toUnaryOP(u.op, V(u.src1)))
          [] u.type = "binary" -> Set(u.dst, toOP(u.op, V(u.src1), V(u.src2)))
          [] u.type = "copy"   -> Set(u.dst, V(u.src1))
          [] u.type = "aw"     -> [n EXCEPT !.mem = Write(@, V(u.dst) + V(u.src2), V(u.src1))]
          [] u.type = "ar"     -> Set(u.dst, Read(c.mem, V(u.src1) + V(u.src2)))
          [] u.type \in {"label", "n_unit_type"} -> n
          [] u.type = "jmp"    -> Goto(prog, c, u.id)
          [] u.type = "jc"     -> IF toOP(u.op, V(u.src1), V(u.src2)) # 0
                                  THEN Goto(prog, c, u.id) ELSE n
          [] u.type = "param"  -> [n EXCEPT !.params = Append(@, V(u.src1))]
          [] u.type \in {"calli", "callv"} -> CallStep(prog, n, u)
          [] u.type = "reti"   -> ReturnStep(prog, n, V(u.src1))
          [] u.type = "retv"   -> ReturnStep(prog, n, Junk)

\* 2 ^ k steps.
RECURSIVE Run(_, _, _)
Run(prog, c, k) ==
    IF c.ended \/ Len(c.events) = MaxEvents THEN [c EXCEPT !.ended = TRUE]
    ELSE IF k = 0 THEN Step(prog, c)
    ELSE LET half == Run(prog, c, k - 1) IN Run(prog, half, k - 1)

\* What the program shows; a program that is not through after all its steps
\* shows that.
Shown(prog) ==
    LET c == Run(prog, [func |-> FuncOf(prog, "main"), pc |-> 1, params |-> <<>>,
                        stack |-> <<[func |-> 0, pc |-> 0, dst |-> Nothing]>>,
                        mem |-> Zeroed(prog.globals), events |-> <<>>, ended |-> FALSE],
                 LogSteps)
    IN  IF c.ended THEN c.events ELSE Append(c.events, Event("endless", <<>>))

=============================================================================
