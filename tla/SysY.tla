--------------------------------- MODULE SysY ---------------------------------
(***************************************************************************)
(* The syntax tree, with its names told apart and its initialisers aligned,  *)
(* and what it means.  A program is what it does: its calls of     *)
(* library functions with their arguments, and its exit value.  Operands    *)
(* are evaluated in either order, arguments from left to right, && and ||   *)
(* short-circuit; a tree therefore has a set of meanings.  A division that   *)
(* has no result shows as an event of its own.                              *)
(***************************************************************************)
EXTENDS Store

CONSTANTS
    Globals,    \* sequence of global declarations
    Functions,  \* sequence of the functions other than main
    MaxEvents   \* how far a program is followed

\* Symbols: semantic type as offsets (semantics.cpp:21-28), <<>> for a scalar.
\* In the source they have the types that their declarations mean.
Symbol(operand, length, offsets) ==
    [kind |-> "symbol", name |-> operand, length |-> length, offsets |-> offsets]
LiteralExpression(n) == [kind |-> "literal", val |-> n]
UnaryExpression(op, e) == [kind |-> "unary", op |-> op, ch |-> e]
BinaryExpression(op, e, f) == [kind |-> "binary", op |-> op, ch0 |-> e, ch1 |-> f]
OffsetExpression(e, f) == [kind |-> "offset", arr |-> e, offset |-> f]
CallExpression(name, args) == [kind |-> "call", func |-> name, args |-> args, line |-> 0]
\* starttime() and stoptime() get the line of the call.
TimerCall(name, line) == [kind |-> "call", func |-> name, args |-> <<>>, line |-> line]

Empty == [kind |-> "empty"]
Break == [kind |-> "break"]
Continue == [kind |-> "continue"]
Block(items) == [kind |-> "block", code |-> items]
\* dims: the expressions between brackets.  aligned_init: sequence of [offset, exp].
Declaration(sym, dims, init) ==
    [kind |-> "declaration", sym |-> sym, dims |-> dims, init |-> init, const |-> FALSE]
ConstDeclaration(sym, dims, init) == [Declaration(sym, dims, init) EXCEPT !.const = TRUE]
ParamDeclaration(sym, dims) == Declaration(sym, dims, <<>>)
\* What is between brackets with nothing in them.
NoneLiteral == [kind |-> "none"]
Assignment(lhs, rhs) == [kind |-> "assignment", lhs |-> lhs, rhs |-> rhs]
ExpressionStmt(e) == [kind |-> "expression", rhs |-> e]
Return(es) == [kind |-> "return", rhs |-> es]  \* <<>> or <<e>>
If(c, s) == [kind |-> "if", cond |-> c, then |-> s, else |-> <<>>]
IfElse(c, s, t) == [kind |-> "if", cond |-> c, then |-> s, else |-> <<t>>]
While(c, s) == [kind |-> "while", cond |-> c, body |-> s]
Function(name, ret, params, items) ==
    [kind |-> "function", name |-> name, ret |-> ret, params |-> params, code |-> Block(items)]

RECURSIVE TypeOf(_)
TypeOf(e) == CASE e.kind = "symbol" -> e.offsets
               [] e.kind \in {"offset", "place"} -> Tail(TypeOf(e.arr))
               [] OTHER -> <<>>

-----------------------------------------------------------------------------
(* A state of the meaning: memory, events, the value of the expression just *)
(* evaluated, and how the statement just executed ended.                     *)

Primitives == {"starttime", "stoptime"}
Event(name, args) == <<name, args>>
Emit(events, e) == IF Len(events) < MaxEvents THEN Append(events, e) ELSE events
Followed(s) == Len(s.events) < MaxEvents

GlobalNames == {Globals[i].sym.name : i \in DOMAIN Globals}
GlobalSymbols == {[name |-> Globals[i].sym.name, len |-> 4 * Globals[i].sym.length] :
                    i \in DOMAIN Globals}
Home(o, depth) == Address(IF o \in GlobalNames THEN 0 ELSE depth, o)

Give(s, v) == [s EXCEPT !.val = v]
Ends(s, how) == [s EXCEPT !.how = how]
Put(s, a, v) == [s EXCEPT !.mem = Write(s.mem, a, v)]

Fault == Event("fault", <<>>)

\* b: a state with the values of both operands.
Operate2(op, b) ==
    [b.s EXCEPT !.val = toOP(op, b.x, b.y),
                !.events = IF Traps(op, b.x, b.y) THEN Emit(@, Fault) ELSE @]

RECURSIVE Eval(_, _, _), Arguments(_, _, _), Exec(_, _, _), ExecAll(_, _, _)

\* e and f in either order: states with both values.
Both(e, f, s, depth) ==
    UNION {{[s |-> u, x |-> t.val, y |-> u.val] : u \in Eval(f, t, depth)} :
              t \in Eval(e, s, depth)}
      \cup
    UNION {{[s |-> u, x |-> u.val, y |-> t.val] : u \in Eval(e, t, depth)} :
              t \in Eval(f, s, depth)}

\* An array is its address; a parameter that is an array holds one.
SymbolValue(e, s, depth) ==
    IF e.length > 0 THEN Home(e.name, depth) ELSE Read(s.mem, Home(e.name, depth))

Invoke(e, args, s, depth) ==
    IF \E i \in DOMAIN Functions : Functions[i].name = e.func
    THEN LET f == CHOOSE g \in {Functions[i] : i \in DOMAIN Functions} : g.name = e.func
         IN  {Ends(t, "next") :
                t \in Exec(f.code, [s EXCEPT !.mem = Enter(s.mem, depth + 1, args)], depth + 1)}
    ELSE {[s EXCEPT !.val = Input(Len(s.events)),
                    !.events = Emit(@, IF e.func \in Primitives
                                       THEN Event(e.func, <<e.line>>)
                                       ELSE Event(e.func, args))]}

Eval(e, s, depth) ==
    CASE e.kind = "literal" -> {Give(s, e.val)}
      [] e.kind = "symbol"  -> {Give(s, SymbolValue(e, s, depth))}
      [] e.kind = "unary"   -> {Give(t, toUnaryOP(e.op, t.val)) : t \in Eval(e.ch, s, depth)}
      [] e.kind = "binary" /\ e.op \in {"&&", "||"} ->
            UNION {IF (t.val = 0) = (e.op = "&&") THEN {Give(t, Bool(t.val # 0))}
                   ELSE {Give(u, Bool(u.val # 0)) : u \in Eval(e.ch1, t, depth)} :
                   t \in Eval(e.ch0, s, depth)}
      [] e.kind = "binary" /\ e.op \notin {"&&", "||"} ->
            {Operate2(e.op, b) : b \in Both(e.ch0, e.ch1, s, depth)}
      [] e.kind \in {"offset", "place"} ->
            LET At(b) == b.x + 4 * Head(TypeOf(e.arr)) * b.y
            IN  {Give(b.s, IF e.kind = "offset" /\ TypeOf(e) = <<>>
                           THEN Read(b.s.mem, At(b)) ELSE At(b)) :
                   b \in Both(e.arr, e.offset, s, depth)}
      [] e.kind = "call" ->
            UNION {Invoke(e, a.vals, a.s, depth) : a \in Arguments(e.args, s, depth)}

Arguments(es, s, depth) ==
    IF es = <<>> THEN {[s |-> s, vals |-> <<>>]}
    ELSE LET n == Len(es)
         IN  UNION {{[s |-> t, vals |-> Append(a.vals, t.val)] :
                        t \in Eval(es[n], a.s, depth)} :
                    a \in Arguments(SubSeq(es, 1, n - 1), s, depth)}

\* The place that an assignment goes to, evaluated before or after its value.
Assigned(st, s, depth) ==
    IF st.lhs.kind = "symbol"
    THEN {Put(t, Home(st.lhs.name, depth), t.val) : t \in Eval(st.rhs, s, depth)}
    ELSE {Put(b.s, b.x, b.y) :
            b \in Both([st.lhs EXCEPT !.kind = "place"], st.rhs, s, depth)}

\* A declaration assigns the elements of its initialiser one by one.
Element(sym, init) ==
    [kind |-> "element", name |-> sym.name, offset |-> init.offset, rhs |-> init.exp]

Exec(st, s, depth) ==
    CASE st.kind = "empty"   -> {s}
      [] st.kind \in {"break", "continue"} -> {Ends(s, st.kind)}
      [] st.kind = "block"   -> ExecAll(st.code, s, depth)
      [] st.kind = "declaration" ->
            ExecAll([i \in DOMAIN st.init |-> Element(st.sym, st.init[i])], s, depth)
      [] st.kind = "element" ->
            {Put(t, Home(st.name, depth) + 4 * st.offset, t.val) : t \in Eval(st.rhs, s, depth)}
      [] st.kind = "assignment" -> Assigned(st, s, depth)
      [] st.kind = "expression" -> Eval(st.rhs, s, depth)
      [] st.kind = "return"  ->
            {Ends(t, "return") :
               t \in IF st.rhs = <<>> THEN {s} ELSE Eval(st.rhs[1], s, depth)}
      [] st.kind = "if"      ->
            UNION {IF t.val # 0 THEN Exec(st.then, t, depth) ELSE ExecAll(st.else, t, depth) :
                   t \in Eval(st.cond, s, depth)}
      [] st.kind = "while"   ->
            UNION {IF t.val = 0 \/ ~Followed(t) THEN {t}
                   ELSE UNION {CASE u.how = "return" -> {u}
                                 [] u.how = "break"  -> {Ends(u, "next")}
                                 [] OTHER -> Exec(st, Ends(u, "next"), depth) :
                               u \in Exec(st.body, t, depth)} :
                   t \in Eval(st.cond, s, depth)}

ExecAll(items, s, depth) ==
    IF items = <<>> \/ s.how # "next" THEN {s}
    ELSE UNION {ExecAll(Tail(items), t, depth) : t \in Exec(Head(items), s, depth)}

Faulty(events) == \E i \in DOMAIN events : events[i] = Fault

Started == [mem |-> Zeroed(GlobalSymbols), events |-> <<>>, val |-> 0, how |-> "next"]

\* Every sequence of events that a program with this main may show.
Meaning(main) ==
    {Emit(s.events, Event("exit", <<s.val>>)) :
       s \in ExecAll(Globals \o <<main.code>>, Started, 1)}

=============================================================================
