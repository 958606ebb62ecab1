------------------------------ MODULE GenEeyore ------------------------------
(***************************************************************************)
(* gen_eeyore.cpp: the syntax tree to Eeyore.  Statements are written as    *)
(* the Pinkie units that FromEeyore (interop.hpp) turns them into, with one *)
(* set of fields for all: src and val are src1, incr is src2.  env counts    *)
(* the temporaries and labels handed out, and is passed on in the order in  *)
(* which the code asks for them.                                            *)
(***************************************************************************)
EXTENDS Typec

Nothing == [ns |-> "none", id |-> 0]
Unit(type) == [type |-> type, op |-> "", name |-> "", id |-> 0,
               dst |-> Nothing, src1 |-> Nothing, src2 |-> Nothing]

ExprU(d, op, s) == [Unit("unary") EXCEPT !.dst = d, !.op = op, !.src1 = s]
ExprB(d, op, s, t) == [Unit("binary") EXCEPT !.dst = d, !.op = op, !.src1 = s, !.src2 = t]
ExprC(d, s) == [Unit("copy") EXCEPT !.dst = d, !.src1 = s]
ExprAW(base, incr, s) == [Unit("aw") EXCEPT !.dst = base, !.src1 = s, !.src2 = incr]
ExprAR(d, base, incr) == [Unit("ar") EXCEPT !.dst = d, !.src1 = base, !.src2 = incr]
Label(l) == [Unit("label") EXCEPT !.id = l]
JumpU(l) == [Unit("jmp") EXCEPT !.id = l]
JumpC(l, c) == [Unit("jc") EXCEPT !.id = l, !.op = "==", !.src1 = c, !.src2 = Literal(0)]
ParamOf(s) == [Unit("param") EXCEPT !.src1 = s]
CallI(d, f) == [Unit("calli") EXCEPT !.dst = d, !.name = f]
CallV(f) == [Unit("callv") EXCEPT !.name = f]
RetI(s) == [Unit("reti") EXCEPT !.src1 = s]
RetV == Unit("retv")

-----------------------------------------------------------------------------
new_temp(env) == Temp(env.temp)
after_temp(env) == [env EXCEPT !.temp = @ + 1]
new_label(env, k) == env.label + k

\* Mutant of after_labels: the second of two labels is handed out again.
after_labelsOne(env) == [env EXCEPT !.label = @ + 1]

after_labels(env) == [env EXCEPT !.label = @ + 2]

Typed(code, var, type, env) == [code |-> code, var |-> var, type |-> type, env |-> env]
\* What an expression is computed into, a new temporary, after code made in env.
Computed(code, env) == Typed(code, new_temp(env), <<>>, after_temp(env))

\* Each operator below gets what the operands or parts were made into, in order:
\* c[1], c[2] ... and the env after them.
RECURSIVE generate_expr(_, _), generate_exprs(_, _), generate_args(_, _)

generate_unary(e, c, env) ==
    IF e.op = "+" THEN c[1]
    ELSE Computed(Append(c[1].code, ExprU(new_temp(env), e.op, c[1].var)), env)

\* Mutant of generate_and: when the first operand is false the result is left alone.
generate_andEnd(c, temp, mid, end) ==
    c[1].code \o <<JumpC(end, c[1].var)>> \o c[2].code
      \o <<ExprC(temp, c[2].var), JumpU(end), Label(mid), ExprC(temp, Literal(0)), Label(end)>>

generate_and(c, temp, mid, end) ==
    c[1].code \o <<JumpC(mid, c[1].var)>> \o c[2].code
      \o <<ExprC(temp, c[2].var), JumpU(end), Label(mid), ExprC(temp, Literal(0)), Label(end)>>

generate_or(c, temp, mid, end) ==
    c[1].code \o <<JumpC(mid, c[1].var), ExprC(temp, Literal(1)), JumpU(end), Label(mid)>>
      \o c[2].code \o <<ExprC(temp, c[2].var), Label(end)>>

generate_binary(e, c, env) ==
    LET temp == new_temp(env)
        mid  == new_label(env, 0)
        end  == new_label(env, 1)
    IN  CASE e.op = "&&" -> Computed(generate_and(c, temp, mid, end), after_labels(env))
          [] e.op = "||" -> Computed(generate_or(c, temp, mid, end), after_labels(env))
          [] OTHER -> Computed(c[1].code \o c[2].code
                                 \o <<ExprB(temp, e.op, c[1].var, c[2].var)>>, env)

\* The displacement of an element, into a new temporary.
Displacement(c, env) ==
    c[1].code \o c[2].code
      \o <<ExprB(new_temp(env), "*", c[2].var, Literal(4 * Head(c[1].type)))>>

generate_offset(c, env) ==
    LET temp == new_temp(after_temp(env))
        type == Tail(c[1].type)
    IN  Typed(Append(Displacement(c, env),
                     IF type # <<>> THEN ExprB(temp, "+", c[1].var, new_temp(env))
                     ELSE ExprAR(temp, c[1].var, new_temp(env))),
              temp, type, after_temp(after_temp(env)))

\* An argument that is not in a temporary is copied into one.
Copied(p) == IF p.var.ns = "temp" THEN p
             ELSE Computed(Append(p.code, ExprC(new_temp(p.env), p.var)), p.env)

\* Functions that are not in the program are the library's (main.cpp:18-31).
Returns(f) ==
    IF \E i \in DOMAIN Functions : Functions[i].name = f
    THEN (CHOOSE g \in {Functions[i] : i \in DOMAIN Functions} : g.name = f).ret
    ELSE IF f = "getint" THEN "int" ELSE "void"

\* The result of a call without one.
none == Temp(-1)

generate_call(e, c, env) ==
    LET code == FlattenSeq([i \in DOMAIN c |-> c[i].code])
                  \o [i \in DOMAIN c |-> ParamOf(c[i].var)]
    IN  CASE e.func \in Primitives ->
               Typed(code \o <<ParamOf(Literal(e.line)), CallV(e.func)>>, none, <<>>, env)
          [] e.func \notin Primitives /\ Returns(e.func) = "int" ->
               Computed(Append(code, CallI(new_temp(env), e.func)), env)
          [] e.func \notin Primitives /\ Returns(e.func) = "void" ->
               Typed(Append(code, CallV(e.func)), none, <<>>, env)

\* The results for a sequence of expressions; the last one's env goes on.
After(results, env) == IF results = <<>> THEN env ELSE Last(results).env
Extended(results, e, env) == Append(results, generate_expr(e, After(results, env)))
ExtendedByArg(results, e, env) == Append(results, Copied(generate_expr(e, After(results, env))))

generate_exprs(es, env) ==
    IF es = <<>> THEN <<>> ELSE Extended(generate_exprs(Front(es), env), Last(es), env)
generate_args(es, env) ==
    IF es = <<>> THEN <<>> ELSE ExtendedByArg(generate_args(Front(es), env), Last(es), env)

Operands(e) == CASE e.kind = "unary" -> <<e.ch>> [] e.kind = "binary" -> <<e.ch0, e.ch1>>
                 [] e.kind = "offset" -> <<e.arr, e.offset>>

Operate(e, c, env) == CASE e.kind = "unary"  -> generate_unary(e, c, env)
                        [] e.kind = "binary" -> generate_binary(e, c, env)
                        [] e.kind = "offset" -> generate_offset(c, env)
                        [] e.kind = "call"   -> generate_call(e, c, env)

OperateAfter(e, c, env) == Operate(e, c, After(c, env))

generate_expr(e, env) ==
    CASE e.kind = "symbol"  -> Typed(<<>>, e.name, e.offsets, env)
      [] e.kind = "literal" -> Computed(<<ExprC(new_temp(env), Literal(e.val))>>, env)
      [] e.kind = "call"    -> OperateAfter(e, generate_args(e.args, env), env)
      [] OTHER              -> OperateAfter(e, generate_exprs(Operands(e), env), env)

-----------------------------------------------------------------------------
(* Statements: code, the symbols they declare, env.  loop is <<>> outside    *)
(* loops, and otherwise the labels to continue at and to break to.           *)

Made(code, symtab, env) == [code |-> code, symtab |-> symtab, env |-> env]

declaration_cast(sym) == [name |-> sym.name, len |-> 4 * sym.length]

\* r: the results for the expressions of an aligned initialiser.
generate_dec(dec, r, env) ==
    LET Into(i) == IF dec.sym.length > 0
                   THEN ExprAW(dec.sym.name, Literal(dec.init[i].offset * 4), r[i].var)
                   ELSE ExprC(dec.sym.name, r[i].var)
    IN  Made(FlattenSeq([i \in DOMAIN r |-> Append(r[i].code, Into(i))]),
             {declaration_cast(dec.sym)}, After(r, env))

\* c: the results for rhs and, of an element, for the array and its index.
generate_assignment(st, c, env) ==
    IF st.lhs.kind = "symbol" THEN Made(Append(c[1].code, ExprC(st.lhs.name, c[1].var)), {}, env)
    ELSE Made(c[1].code \o Displacement(Tail(c), env)
                \o <<ExprAW(c[2].var, new_temp(env), c[1].var)>>,
              {}, after_temp(env))

AssignmentAfter(st, c) == generate_assignment(st, c, Last(c).env)

generate_expression(r) == Made(r.code, {}, r.env)
generate_return(r) == Made(Append(r.code, RetI(r.var)), {}, r.env)

\* Results for a sequence of statements, joined.
Joined(ms, env) == Made(FlattenSeq([i \in DOMAIN ms |-> ms[i].code]),
                        UNION {ms[i].symtab : i \in DOMAIN ms}, After(ms, env))

RECURSIVE generate_stmt(_, _, _), generate_stmts(_, _, _)

ExtendedByStmt(ms, st, env, loop) == Append(ms, generate_stmt(st, After(ms, env), loop))

generate_stmts(sts, env, loop) ==
    IF sts = <<>> THEN <<>>
    ELSE ExtendedByStmt(generate_stmts(Front(sts), env, loop), Last(sts), env, loop)

\* m: the results for the clauses.
IfCode(c, m, symtab, env) ==
    IF Len(m) = 2
    THEN Made(c.code \o <<JumpC(new_label(env, 0), c.var)>> \o m[1].code
                \o <<JumpU(new_label(env, 1)), Label(new_label(env, 0))>> \o m[2].code
                \o <<Label(new_label(env, 1))>>,
              symtab, after_labels(env))
    ELSE Made(c.code \o <<JumpC(new_label(env, 0), c.var)>> \o m[1].code
                \o <<Label(new_label(env, 0))>>,
              symtab, [env EXCEPT !.label = @ + 1])

IfAfter(c, m) == IfCode(c, m, Joined(m, c.env).symtab, Last(m).env)

generate_if(st, c, loop) == IfAfter(c, generate_stmts(<<st.then>> \o st.else, c.env, loop))

WhileCode(c, start_label, end_label, b) ==
    Made(<<Label(start_label)>> \o c.code \o <<JumpC(end_label, c.var)>> \o b.code
           \o <<JumpU(start_label), Label(end_label)>>,
         b.symtab, b.env)

generate_while(st, c) ==
    LET start_label == new_label(c.env, 0)
        end_label   == new_label(c.env, 1)
    IN  WhileCode(c, start_label, end_label,
                  generate_stmt(st.body, after_labels(c.env), <<start_label, end_label>>))

generate_stmt(st, env, loop) ==
    CASE st.kind = "empty"       -> Made(<<>>, {}, env)
      [] st.kind = "continue"    -> Made(<<JumpU(loop[1])>>, {}, env)
      [] st.kind = "break"       -> Made(<<JumpU(loop[2])>>, {}, env)
      [] st.kind = "block"       -> Joined(generate_stmts(st.code, env, loop), env)
      [] st.kind = "declaration" ->
            generate_dec(st, generate_exprs([i \in DOMAIN st.init |-> st.init[i].exp], env), env)
      [] st.kind = "assignment"  ->
            AssignmentAfter(st, generate_exprs(
                <<st.rhs>> \o (IF st.lhs.kind = "symbol" THEN <<>> ELSE Operands(st.lhs)), env))
      [] st.kind = "expression"  -> generate_expression(generate_expr(st.rhs, env))
      [] st.kind = "return"      -> IF st.rhs = <<>> THEN Made(<<RetV>>, {}, env)
                                    ELSE generate_return(generate_expr(st.rhs[1], env))
      [] st.kind = "if"          -> generate_if(st, generate_expr(st.cond, env), loop)
      [] st.kind = "while"       -> generate_while(st, generate_expr(st.cond, env))

-----------------------------------------------------------------------------
initializer == "__initializer__SysY"

\* Declares the temporaries that units other than aw assign to.
pretty_function(name, arity, dec, code) ==
    [name |-> name, arity |-> arity, code |-> code,
     decl |-> dec \cup {[name |-> code[i].dst, len |-> 0] :
                          i \in {j \in DOMAIN code : code[j].type # "aw" /\ code[j].dst.ns = "temp"}}]

\* m: the code of f's body.
generate_function(f, m) ==
    LET prologue == IF f.name = "main" THEN <<CallV(initializer)>> ELSE <<>>
        epilogue == IF f.ret = "void" THEN <<RetI(Literal(0))>> ELSE <<>>
    IN  pretty_function(f.name, Len(f.params), m.symtab, prologue \o m.code \o epilogue)

\* g: the results for the declarations of globals, b: those for the functions' bodies.
Program(fs, g, b) ==
    [globals |-> g.symtab, label_count |-> Last(b).env.label,
     funcs |-> <<pretty_function(initializer, 0, {}, Append(g.code, RetV))>>
                 \o [i \in DOMAIN fs |-> generate_function(fs[i], b[i])]]

ProgramAfter(fs, g) ==
    Program(fs, g, generate_stmts([i \in DOMAIN fs |-> fs[i].code], g.env, <<>>))

generate_eeyore(main) ==
    LET start == [temp |-> 0, label |-> 0]
    IN  ProgramAfter(Append(CheckedFunctions, main),
                     Joined(generate_stmts(CheckedGlobals, start, <<>>), start))

=============================================================================
