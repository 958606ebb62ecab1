------------------------------ MODULE PinkieOpt ------------------------------
(***************************************************************************)
(* optimize_pinkie.cpp, pass by pass, and the operand ranges of pinkie.cpp   *)
(* that they read.                                                         *)
(***************************************************************************)
EXTENDS GenEeyore

\* The fields that hold operands which a unit writes and reads.  The base of aw
\* counts as written, and in the half-open ranges as read too.
wops(type) == IF type \in {"unary", "binary", "copy", "aw", "ar", "calli"} THEN {"dst"} ELSE {}
rops(type) == CASE type \in {"unary", "copy", "jc", "param", "reti"} -> {"src1"}
                [] type \in {"binary", "aw", "ar"} -> {"src1", "src2"}
                [] OTHER -> {}
hrops(type) == rops(type) \cup (IF type \in {"aw", "calli"} THEN {"dst"} ELSE {})

\* The temporaries among these fields of unit u.
Temps(u, fields) == {u[x].id : x \in {y \in fields : u[y].ns = "temp"}}

EachFunc(prog, pass(_)) == [prog EXCEPT !.funcs = [i \in DOMAIN prog.funcs |->
    [prog.funcs[i] EXCEPT !.code = pass(prog.funcs[i].code)]]]

-----------------------------------------------------------------------------
(* const_fold *)

IsLiteral(o) == o.ns = "literal"

\* Mutant of literal_calc: unary operators are not folded.
literal_calcBinary(u) ==
    CASE u.type \in {"binary", "jc"} /\ IsLiteral(u.src1) /\ IsLiteral(u.src2) ->
            <<toOP(u.op, u.src1.id, u.src2.id)>>
      [] u.type = "copy" /\ IsLiteral(u.src1) -> <<u.src1.id>>
      [] OTHER -> <<>>

\* The value of u if it has nothing but literals, as a sequence of at most one.
literal_calc(u) ==
    CASE u.type = "unary" /\ IsLiteral(u.src1) -> <<toUnaryOP(u.op, u.src1.id)>>
      [] u.type \in {"binary", "jc"} /\ IsLiteral(u.src1) /\ IsLiteral(u.src2) ->
            <<toOP(u.op, u.src1.id, u.src2.id)>>
      [] u.type = "copy" /\ IsLiteral(u.src1) -> <<u.src1.id>>
      [] OTHER -> <<>>

\* Mutant of assigned_once: a temporary is assigned once or more.
assigned_often(code, t) == \E i \in DOMAIN code : t \in Temps(code[i], wops(code[i].type))

assigned_once(code, t) ==
    Cardinality({i \in DOMAIN code : t \in Temps(code[i], wops(code[i].type))}) = 1

\* literals: what literal_map holds.
Substituted(u, literals, code) ==
    [x \in DOMAIN u |->
        IF x \in rops(u.type) /\ u[x].ns = "temp" /\ u[x].id \in DOMAIN literals
             /\ assigned_once(code, u[x].id)
        THEN Literal(literals[u[x].id]) ELSE u[x]]

Folded(u, val) ==
    CASE val = <<>> -> u
      [] val # <<>> /\ u.type = "jc" -> IF val[1] # 0 THEN JumpU(u.id) ELSE Unit("n_unit_type")
      [] val # <<>> /\ u.type # "jc" -> ExprC(u.dst, Literal(val[1]))

\* literal_calc() that has no result.
Deadly(u) ==
    u.type \in {"binary", "jc"} /\ IsLiteral(u.src1) /\ IsLiteral(u.src2)
      /\ Traps(u.op, u.src1.id, u.src2.id)

\* The code up to i, given what was made of the code before: a deadly unit
\* ends it all.
FoldUnit(folded, i, original) ==
    LET u   == Substituted(original[i], folded.literals, original)
        val == literal_calc(u)
        learns == val # <<>> /\ u.type # "jc" /\ u.dst.ns = "temp"
                    /\ assigned_once(original, u.dst.id)
    IN  [code     |-> Append(folded.code, Folded(u, val)),
         literals |-> IF learns THEN (u.dst.id :> val[1]) @@ folded.literals
                      ELSE folded.literals,
         dead     |-> folded.dead \/ Deadly(u)]

fold_code(code) ==
    FoldLeft(LAMBDA folded, i : FoldUnit(folded, i, code),
             [code |-> <<>>, literals |-> <<>>, dead |-> FALSE],
             [i \in DOMAIN code |-> i])

const_fold(prog) == EachFunc(prog, LAMBDA code : fold_code(code).code)
const_fold_dies(prog) == \E i \in DOMAIN prog.funcs : fold_code(prog.funcs[i].code).dead

-----------------------------------------------------------------------------
(* unused_temp_remove *)

Unused(u, used) == u.type \notin {"calli", "aw"} /\ Temps(u, wops(u.type)) \ used # {}

unused_temp_remove(prog) ==
    EachFunc(prog, LAMBDA code :
        LET used == UNION {Temps(code[i], hrops(code[i].type)) : i \in DOMAIN code}
            kept(u) == u.type # "n_unit_type" /\ ~Unused(u, used)
        IN  SelectSeq(code, kept))

-----------------------------------------------------------------------------
(* clear_temp: one map for the whole program, filled as temporaries are met. *)

Ordered(u) == SelectSeq(<<"dst", "src1", "src2">>,
                        LAMBDA x : x \in wops(u.type) \cup rops(u.type) /\ u[x].ns = "temp")

\* The temporaries of some code, in the order in which clear_temp meets them.
Occurrences(code) ==
    FlattenSeq([i \in DOMAIN code |->
        [k \in DOMAIN Ordered(code[i]) |-> code[i][Ordered(code[i])[k]].id]])

\* compress: the number of temporaries that are met earlier.
Compressed(prog) ==
    LET met == FlattenSeq([i \in DOMAIN prog.funcs |-> Occurrences(prog.funcs[i].code)])
        firsts == {i \in DOMAIN met : \A j \in 1 .. i - 1 : met[j] # met[i]}
    IN  [t \in ToSet(met) |->
            Cardinality({i \in firsts : \A j \in 1 .. i : met[j] # t})]

Renumbered(u, compress) ==
    [x \in DOMAIN u |->
        IF x \in wops(u.type) \cup rops(u.type) /\ u[x].ns = "temp"
        THEN Temp(compress[u[x].id]) ELSE u[x]]

\* Mutant of local_temps: the temporaries a function starts with stay undeclared.
local_tempsButFirst(prog, i) ==
    {t \in ToSet(Occurrences(prog.funcs[i].code)) : t # Occurrences(prog.funcs[i].code)[1]}

\* Declared in a function: those that no function before it mentions.
local_temps(prog, i) ==
    ToSet(Occurrences(prog.funcs[i].code))
      \ UNION {ToSet(Occurrences(prog.funcs[j].code)) : j \in 1 .. i - 1}

clear_temp(prog) ==
    LET compress == Compressed(prog)
    IN  [prog EXCEPT !.funcs = [i \in DOMAIN prog.funcs |->
            [prog.funcs[i] EXCEPT
                !.code = [k \in DOMAIN @ |-> Renumbered(@[k], compress)],
                !.decl = {s \in @ : s.name.ns # "temp"}
                           \cup {[name |-> Temp(compress[t]), len |-> 0] :
                                   t \in local_temps(prog, i)}]]]

-----------------------------------------------------------------------------
(* flip_binop *)

Flipped(u) ==
    CASE u.type = "binary" /\ u.op \in {"+", "*"} /\ IsLiteral(u.src1) ->
            [u EXCEPT !.src1 = u.src2, !.src2 = u.src1]
      [] u.type = "binary" /\ u.op = "-" /\ IsLiteral(u.src2) ->
            [u EXCEPT !.op = "+", !.src2 = Literal(toUnaryOP("-", u.src2.id))]
      [] OTHER -> u

flip_binop(prog) == EachFunc(prog, LAMBDA code : [i \in DOMAIN code |-> Flipped(code[i])])

=============================================================================
