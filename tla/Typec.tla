-------------------------------- MODULE Typec -------------------------------
(***************************************************************************)
(* typecheck() (typec.cpp): dimensions and the initialisers of constants   *)
(* are computed by k_eval() while the compiler runs, declarations get      *)
(* their types from the dimensions, and names in expressions become the    *)
(* symbols of the environment.  known holds the declarations of the        *)
(* environment, by name; which of two a name finds is the subject of       *)
(* Scopes.                                                                 *)
(***************************************************************************)
EXTENDS SysY, SequencesExt

Pure(n) == [kind |-> "pure", data |-> n]
Offset(dec, pos, offset) == [kind |-> "offset", dec |-> dec, pos |-> pos, offset |-> offset]
Stopped(how) == [kind |-> "stopped", how |-> how]

\* std::get<EvalPureResult>, and what is done with the number.
WithPure(r, Go(_)) ==
    CASE r.kind = "pure"    -> Go(r.data)
      [] r.kind = "offset"  -> Stopped("bad_variant_access")
      [] r.kind = "stopped" -> r

\* Mutant of ElementAt: the element before the one that is asked for.
ElementAtOff(dec, offset) ==
    LET found == {i \in DOMAIN dec.init : dec.init[i].offset = offset - 1}
    IN  IF found = {} THEN Pure(0) ELSE Pure(dec.init[CHOOSE i \in found : TRUE].exp.val)

\* An element that the initialiser does not have is zero.
ElementAt(dec, offset) ==
    LET found == {i \in DOMAIN dec.init : dec.init[i].offset = offset}
    IN  IF found = {} THEN Pure(0) ELSE Pure(dec.init[CHOOSE i \in found : TRUE].exp.val)

clean_up(r) == IF r.pos = Len(r.dec.sym.offsets) THEN ElementAt(r.dec, r.offset) ELSE r

RECURSIVE k_eval(_, _)

\* x: the value of the first operand.  The grammar has && and || in conditions
\* only (parser.ypp:213), which are not constants.
Logical(e, x, known) ==
    IF (x = 0) = (e.op = "&&") THEN Pure(Bool(x # 0))
    ELSE WithPure(k_eval(e.ch1, known), LAMBDA y : Pure(Bool(y # 0)))

Arithmetic(op, x, y) == IF Traps(op, x, y) THEN Stopped("signal") ELSE Pure(toOP(op, x, y))

Indexed(r, x) ==
    CASE r.kind = "offset"  ->
            clean_up(Offset(r.dec, r.pos + 1,
                            Wrap(r.offset + Wrap(r.dec.sym.offsets[r.pos + 1] * x))))
      [] r.kind = "pure"    -> Stopped("bad_variant_access")
      [] r.kind = "stopped" -> r

k_eval(e, known) ==
    CASE e.kind = "literal" -> Pure(e.val)
      [] e.kind = "symbol"  -> IF e.name \in DOMAIN known /\ known[e.name].const
                               THEN clean_up(Offset(known[e.name], 0, 0))
                               ELSE Stopped("BadName")
      [] e.kind = "unary"   ->
            WithPure(k_eval(e.ch, known), LAMBDA x : Pure(toUnaryOP(e.op, x)))
      [] e.kind = "binary" /\ e.op \in {"&&", "||"} ->
            WithPure(k_eval(e.ch0, known), LAMBDA x : Logical(e, x, known))
      [] e.kind = "binary" /\ e.op \notin {"&&", "||"} ->
            WithPure(k_eval(e.ch0, known), LAMBDA x :
                WithPure(k_eval(e.ch1, known), LAMBDA y : Arithmetic(e.op, x, y)))
      [] e.kind = "offset"  ->
            WithPure(k_eval(e.offset, known), LAMBDA x : Indexed(k_eval(e.arr, known), x))
      [] OTHER              -> Stopped("BadAST")

-----------------------------------------------------------------------------
(* typecheck(): the tree it makes, the environment behind it, and what     *)
(* stopped it, if anything.                                                *)

Checked(tree, known, stop) == [tree |-> tree, known |-> known, stop |-> stop]
Declared(dec, known) == Checked(dec, (dec.sym.name :> dec) @@ known, "")

\* Goes on with the numbers that were computed, unless one was not: the first
\* such stops.
WithAll(r, dec, known, Go(_)) ==
    LET bad == {i \in DOMAIN r : r[i].kind # "pure"}
    IN  IF bad = {} THEN Go([i \in DOMAIN r |-> r[i].data])
        ELSE Checked(dec, known, WithPure(r[Min(bad)], Pure).how)

calculate_dimensions(dims, known) ==
    [i \in DOMAIN dims |-> IF dims[i] = NoneLiteral THEN Pure(0) ELSE k_eval(dims[i], known)]

Product(sizes) == FoldLeft(LAMBDA x, y : Wrap(x * y), 1, sizes)

\* The symbol with the type that dimensions make.
SemanticType(sym, sizes) ==
    Symbol(sym.name, IF sizes = <<>> THEN 0 ELSE Product(sizes),
           [i \in DOMAIN sizes |-> Product(SubSeq(sizes, i + 1, Len(sizes)))])

RECURSIVE disambiguate(_, _)
disambiguate(e, known) ==
    CASE e.kind = "symbol" -> known[e.name].sym
      [] e.kind = "unary"  -> [e EXCEPT !.ch = disambiguate(@, known)]
      [] e.kind = "binary" -> [e EXCEPT !.ch0 = disambiguate(@, known),
                                        !.ch1 = disambiguate(@, known)]
      [] e.kind = "offset" -> [e EXCEPT !.arr = disambiguate(@, known),
                                        !.offset = disambiguate(@, known)]
      [] e.kind = "call"   -> [e EXCEPT !.args = [i \in DOMAIN @ |-> disambiguate(@[i], known)]]
      [] OTHER             -> e

\* init with what its expressions become.
Mapped(init, Become(_)) == [i \in DOMAIN init |-> [init[i] EXCEPT !.exp = Become(@)]]

\* The values of a constant's initialiser, in their order.
Memorized(dec, known) ==
    IF dec.init = <<>> THEN Checked(dec, known, "BadAST")
    ELSE WithAll([i \in DOMAIN dec.init |-> k_eval(dec.init[i].exp, known)], dec, known,
                 LAMBDA values : Declared([dec EXCEPT !.init = [i \in DOMAIN values |->
                     [offset |-> dec.init[i].offset, exp |-> LiteralExpression(values[i])]]],
                     known))

typecheck_sized(dec, known) ==
    LET named == [dec EXCEPT !.init = Mapped(@, LAMBDA e : disambiguate(e, known))]
    IN  IF dec.const THEN Memorized(named, known) ELSE Declared(named, known)

typecheck_dec(dec, known) ==
    WithAll(calculate_dimensions(dec.dims, known), dec, known,
            LAMBDA sizes : typecheck_sized([dec EXCEPT !.sym = SemanticType(@, sizes)], known))

RECURSIVE typecheck(_, _), typecheck_all(_, _)

Then(c, r) == [c EXCEPT !.tree = Append(@, r.tree), !.known = r.known, !.stop = r.stop]

\* Items of a block, each in the environment behind the one before it.
typecheck_all(items, known) ==
    FoldLeft(LAMBDA c, item : IF c.stop # "" THEN c ELSE Then(c, typecheck(item, c.known)),
             Checked(<<>>, known, ""), items)

\* Parts of st that have an environment of their own: whatever they declare
\* is theirs.
Enclosed(st, parts, known, Rebuilt(_)) ==
    LET c == typecheck_all(parts, known)
    IN  Checked(IF c.stop = "" THEN Rebuilt(c.tree) ELSE st, known, c.stop)

typecheck(st, known) ==
    LET Named(e) == disambiguate(e, known)
        Same(tree) == Checked(tree, known, "")
    IN CASE st.kind = "declaration" -> typecheck_dec(st, known)
         [] st.kind = "function"   ->
               Enclosed(st, Append(st.params, st.code), known,
                     LAMBDA t : [st EXCEPT !.params = Front(t), !.code = Last(t)])
         [] st.kind = "block"      -> Enclosed(st, st.code, known, LAMBDA t : [st EXCEPT !.code = t])
         [] st.kind = "assignment" -> Same([st EXCEPT !.lhs = Named(@), !.rhs = Named(@)])
         [] st.kind = "expression" -> Same([st EXCEPT !.rhs = Named(@)])
         [] st.kind = "return"     -> Same([st EXCEPT !.rhs = [i \in DOMAIN @ |-> Named(@[i])]])
         [] st.kind = "if"         ->
               Enclosed(st, <<st.then>> \o st.else, known,
                     LAMBDA t : [st EXCEPT !.cond = Named(@), !.then = t[1], !.else = Tail(t)])
         [] st.kind = "while"      ->
               Enclosed(st, <<st.body>>, known,
                     LAMBDA t : [st EXCEPT !.cond = Named(@), !.body = t[1]])
         [] OTHER                  -> Same(st)

\* The unit: globals, then functions, main being the last of them.
CheckedUnit == typecheck_all(Globals \o Functions, <<>>)
CheckedGlobals == SubSeq(CheckedUnit.tree, 1, Len(Globals))
CheckedFunctions == SubSeq(CheckedUnit.tree, Len(Globals) + 1, Len(Globals) + Len(Functions))
typecheck_main(main) ==
    IF CheckedUnit.stop # "" THEN Checked(main, CheckedUnit.known, CheckedUnit.stop)
    ELSE typecheck(main, CheckedUnit.known)

=============================================================================
