------------------------------ MODULE MCParser ------------------------------
(***************************************************************************)
(* The parser on the texts of small programs, and on those texts with one  *)
(* token missing or an EOF in its place.                                   *)
(***************************************************************************)
EXTENDS Parser, Syntax

Leaf(s) == Node(s, <<>>)
Id(s) == Node("Identifier", <<Leaf(s)>>)
Lit(s) == Node("LiteralExpression", <<Leaf(s)>>)
Listed(seq) == Node("list", seq)
Unary(op, e) == Node("UnaryExpression", <<Leaf(op), e>>)

x == Id("x")
y == Id("y")
one == Lit("1")

(* Expressions of two operators.                                           *)
InnerExprs ==
    {Node(k, <<x, one>>) : k \in DOMAIN Infix}
        \cup {Unary("-", x), Unary("!", one), Node("OffsetExpression", <<x, one>>),
              Node("CallExpression", <<Id("f"), Nothing>>)}
Sums == {e \in InnerExprs : Level(e) >= Sum}
Exprs ==
    {Node(k, <<e, y>>) : k \in DOMAIN Infix, e \in InnerExprs}
        \cup {Node(k, <<y, e>>) : k \in DOMAIN Infix, e \in InnerExprs}
        \cup {Unary("-", e) : e \in InnerExprs}
        \cup {Node("OffsetExpression", <<y, e>>) : e \in Sums}
        \cup {Node("OffsetExpression", <<Node("OffsetExpression", <<y, one>>), e>>) : e \in Sums}
        \cup {Node("CallExpression", <<Id("f"), Listed(<<e>>)>>) : e \in Sums}
        \cup {Node("CallExpression", <<Id("f"), Listed(<<one, e>>)>>) : e \in Sums}
Writable(e) ==
    CASE e.kind \in DOMAIN Infix ->
            Fits(e.of[1], Level(e)) /\ Fits(e.of[2], Level(e) + 1)
      [] e.kind = "UnaryExpression" -> Fits(e.of[2], 7)
      [] OTHER -> TRUE
Conditions == {e \in Exprs : Writable(e)}
Values == {e \in Conditions : Level(e) >= Sum}

(* Statements, three deep.                                                 *)
Empty == Node("EmptyStmt", <<>>)
If(s) == Node("IfStmt", <<x, s, Nothing>>)
IfElse(s, t) == Node("IfStmt", <<x, s, t>>)
While(s) == Node("WhileStmt", <<x, s>>)
Around(S, T) ==
    {If(s) : s \in S} \cup {While(s) : s \in S}
        \cup {IfElse(s, t) : s \in S, t \in T} \cup {IfElse(t, s) : s \in S, t \in T}
        \cup {Node("Block", <<s, t>>) : s \in S, t \in T}
Simple ==
    {Empty, Node("BreakStmt", <<>>), Node("ContinueStmt", <<>>),
     Node("ReturnStmt", <<Nothing>>)}
Shallow == {Empty} \cup Around({Empty}, {Empty})
Deep == {s \in Around(Around(Shallow, {Empty}), {Empty}) : NearestIf(s)}
Small == {s \in Around(Shallow, Simple) : NearestIf(s)}

Function(type, params, seq) ==
    Node("Function", <<Leaf(type), Leaf("f"), params, Node("Block", seq)>>)
Body(seq) == [globals |-> <<>>, functions |-> <<Function("void", Nothing, seq)>>]

(* Declarations: scalars and arrays, with and without values.              *)
Const(name, dims, value) == Node("ConstDeclaration", <<Leaf(name), Listed(dims), value>>)
Var(name, dims, value) == Node("VariableDeclaration", <<Leaf(name), Listed(dims), value>>)
Braces(seq) == Node("ArrayLiteral", seq)
Declarations2 ==
    {Const("a", <<>>, one), Const("a", <<one, x>>, Braces(<<Braces(<<one, y>>), Braces(<<>>)>>)),
     Var("a", <<>>, Nothing), Var("a", <<>>, Node("Plus", <<x, one>>)),
     Var("a", <<Node("Minus", <<x, one>>)>>, Braces(<<one, Braces(<<y>>)>>)),
     Var("a", <<one, one>>, Nothing)}
Param(name, dims) == Node("ParamDeclaration", <<Leaf(name), Listed(dims), Nothing>>)
Params ==
    {Nothing, Listed(<<Param("x", <<>>)>>), Listed(<<Param("x", <<Nothing>>)>>),
     Listed(<<Param("x", <<Nothing, one, y>>), Param("y", <<one>>)>>)}

ExprPrograms ==
    {Body(<<Node("WhileStmt", <<e, Empty>>)>>) : e \in Conditions}
        \cup {Body(<<Node("ReturnStmt", <<e>>)>>) : e \in Values}
ShortExprPrograms ==
    {Body(<<Node("ExpressionStmt", <<e>>)>>) : e \in Values}
        \cup {Body(<<Node("AssignmentStmt", <<e, one>>)>>) :
                  e \in {v \in Values : v.kind = "OffsetExpression"}}
StatementPrograms == {Body(<<s>>) : s \in Deep}
ShortStatementPrograms == {Body(<<s>>) : s \in Small}
DeclarationPrograms ==
    {[globals |-> <<d, e>>, functions |-> <<Function("int", params, <<>>)>>] :
        d, e \in Declarations2, params \in Params}
ShortDeclarationPrograms ==
    {Body(<<d, Empty, e>>) : d, e \in Declarations2}
        \cup {[globals |-> <<>>, functions |-> <<Function("int", p, <<>>), Function("void", p, <<d>>)>>] :
                 d \in Declarations2, p \in Params}
        \cup {[globals |-> <<d, e>>, functions |-> <<>>] : d, e \in Declarations2}

Short == ShortExprPrograms \cup ShortStatementPrograms \cup ShortDeclarationPrograms
Programs == Short \cup ExprPrograms \cup StatementPrograms \cup DeclarationPrograms

WrittenTexts == UNION {ProgramTexts(p) : p \in Programs}
Damaged ==
    UNION {{RemoveAt(t, i) : i \in DOMAIN t} : t \in UNION {ProgramTexts(p) : p \in Short}}

(* A character that no pattern matches is an EOF to the parser.            *)
Cut ==
    UNION {{ReplaceAt(t, i, [type |-> "EOF", text |-> ""]) : i \in DOMAIN t} :
              t \in UNION {ProgramTexts(p) : p \in ShortDeclarationPrograms}}
MCTexts == Damaged \cup Cut \cup WrittenTexts

(* No text is written for two programs.                                    *)
ASSUME TextsAssumption ==
    Cardinality(UNION {{<<t, p>> : t \in ProgramTexts(p)} : p \in Programs})
        = Cardinality(WrittenTexts)

-----------------------------------------------------------------------------

(* A program that is written down is read, and as the tree it was written  *)
(* from: operators bind and associate, and an else goes to the nearest if, *)
(* initialisers and dimensions keep their order and nesting.               *)
RoundTrip == (text \in WrittenTexts) =>
    /\ phase # "refused"
    /\ phase = "accepted" => unit \in Programs /\ text \in ProgramTexts(unit)

Without(t, i, j) == RemoveAt(RemoveAt(t, j), i)

Redundant(t) ==
    {Without(t, p[1], p[2]) : p \in {q \in (DOMAIN t) \X (DOMAIN t) :
        q[1] < q[2] /\ t[q[1]].type = "(" /\ t[q[2]].type = ")"}}

(* Of a text with a token missing, or with an EOF inside, parse() answers  *)
(* nullptr or the program that what it read is written for, up to a pair   *)
(* of parentheses.                                                         *)
NothingInvented == phase = "accepted" =>
    LET read == SubSeq(text, 1, at - 1)
    IN  /\ ({read} \cup Redundant(read)) \cap ProgramTexts(unit) # {}
        /\ \A i \in DOMAIN unit.functions : NearestIf(unit.functions[i].of[4])
=============================================================================
