------------------------------- MODULE Syntax -------------------------------
(***************************************************************************)
(* The text of a tree, the other way around from the parser: which tokens  *)
(* a program is written with.  Parentheses stand only where the tree would *)
(* be another one without them; declarations of one kind that follow one   *)
(* another are apart, or share their const and their type.                 *)
(***************************************************************************)
EXTENDS Integers, Sequences, SequencesExt

LOCAL Word(s) == [type |-> s, text |-> s]
LOCAL Words(seq) == [i \in DOMAIN seq |-> Word(seq[i])]
LOCAL Name(leaf) == <<[type |-> "IDENT", text |-> leaf.kind]>>
LOCAL IntType == <<[type |-> "TYPE", text |-> "int"]>>

LOCAL Between(left, texts, right) ==
    LET Joined(all, t) == IF all = <<>> THEN t ELSE all \o Words(<<",">>) \o t
    IN  Words(<<left>>) \o FoldLeft(Joined, <<>>, texts) \o Words(<<right>>)

Infix == [Or |-> "||", And |-> "&&", EQ |-> "==", NE |-> "!=",
          LT |-> "<", GT |-> ">", LE |-> "<=", GE |-> ">=",
          Plus |-> "+", Minus |-> "-", Mult |-> "*", Div |-> "/", Mod |-> "%"]

(* How tightly the operator of an expression binds.                        *)
Level(e) ==
    CASE e.kind = "Or" -> 1
      [] e.kind = "And" -> 2
      [] e.kind \in {"EQ", "NE"} -> 3
      [] e.kind \in {"LT", "GT", "LE", "GE"} -> 4
      [] e.kind \in {"Plus", "Minus"} -> 5
      [] e.kind \in {"Mult", "Div", "Mod"} -> 6
      [] e.kind = "UnaryExpression" -> 7
      [] OTHER -> 8

(* What can be written at all: only sums stand in parentheses.             *)
Sum == 5
Fits(e, level) == Level(e) >= level \/ Level(e) >= Sum

RECURSIVE ExprText(_, _)
ExprText(e, level) ==
    LET body ==
            CASE e.kind = "Identifier" -> Name(e.of[1])
              [] e.kind = "LiteralExpression" -> <<[type |-> "INT_LITERAL", text |-> e.of[1].kind]>>
              [] e.kind = "OffsetExpression" ->
                    ExprText(e.of[1], 8) \o Between("[", <<ExprText(e.of[2], Sum)>>, "]")
              [] e.kind = "CallExpression" ->
                    ExprText(e.of[1], 8) \o
                        Between("(", [i \in DOMAIN e.of[2].of |-> ExprText(e.of[2].of[i], Sum)], ")")
              [] e.kind = "UnaryExpression" -> Words(<<e.of[1].kind>>) \o ExprText(e.of[2], 7)
              [] e.kind \in DOMAIN Infix ->
                    ExprText(e.of[1], Level(e)) \o Words(<<Infix[e.kind]>>)
                        \o ExprText(e.of[2], Level(e) + 1)
    IN  IF Level(e) >= level THEN body ELSE Between("(", <<body>>, ")")

RECURSIVE ValueText(_)
ValueText(v) ==
    IF v.kind = "ArrayLiteral"
    THEN Between("{", [i \in DOMAIN v.of |-> ValueText(v.of[i])], "}")
    ELSE ExprText(v, Sum)

DimensionText(d) ==
    IF d.kind = "NoneLiteral" THEN Words(<<"[", "]">>)
                              ELSE Between("[", <<ExprText(d, Sum)>>, "]")

Declared(d) ==
    Name(d.of[1]) \o FlattenSeq([i \in DOMAIN d.of[2].of |-> DimensionText(d.of[2].of[i])])
        \o IF d.of[3].kind = "NoneLiteral" THEN <<>> ELSE Words(<<"=">>) \o ValueText(d.of[3])

DeclarationKinds == {"ConstDeclaration", "VariableDeclaration"}

(* The i-th of a list of declarations and statements.                      *)
DeclarationText(items, i, apart) ==
    LET d == items[i]
        Goes(j) == ~ apart /\ j \in DOMAIN items /\ items[j].kind = d.kind
    IN  (IF Goes(i - 1) THEN Words(<<",">>)
         ELSE IF d.kind = "ConstDeclaration" THEN Words(<<"const">>) \o IntType
         ELSE IntType)
            \o Declared(d) \o IF Goes(i + 1) THEN <<>> ELSE Words(<<";">>)

RECURSIVE StatementText(_, _)
StatementText(s, apart) ==
    CASE s.kind = "EmptyStmt" -> Words(<<";">>)
      [] s.kind = "AssignmentStmt" ->
            ExprText(s.of[1], 8) \o Words(<<"=">>) \o ExprText(s.of[2], Sum) \o Words(<<";">>)
      [] s.kind = "ExpressionStmt" -> ExprText(s.of[1], Sum) \o Words(<<";">>)
      [] s.kind = "BreakStmt" -> Words(<<"break", ";">>)
      [] s.kind = "ContinueStmt" -> Words(<<"continue", ";">>)
      [] s.kind = "ReturnStmt" ->
            Words(<<"return">>) \o (IF s.of[1].kind = "NoneLiteral" THEN <<>>
                                    ELSE ExprText(s.of[1], Sum)) \o Words(<<";">>)
      [] s.kind = "WhileStmt" ->
            Words(<<"while">>) \o Between("(", <<ExprText(s.of[1], 1)>>, ")")
                \o StatementText(s.of[2], apart)
      [] s.kind = "IfStmt" ->
            Words(<<"if">>) \o Between("(", <<ExprText(s.of[1], 1)>>, ")")
                \o StatementText(s.of[2], apart)
                \o IF s.of[3].kind = "NoneLiteral" THEN <<>>
                   ELSE Words(<<"else">>) \o StatementText(s.of[3], apart)
      [] s.kind = "Block" ->
            Words(<<"{">>) \o FlattenSeq([i \in DOMAIN s.of |->
                IF s.of[i].kind \in DeclarationKinds THEN DeclarationText(s.of, i, apart)
                                                     ELSE StatementText(s.of[i], apart)])
                \o Words(<<"}">>)

FunctionText(f, apart) ==
    LET params == f.of[3].of
    IN  <<[type |-> "TYPE", text |-> f.of[1].kind]>> \o Name(f.of[2])
            \o Between("(", [i \in DOMAIN params |-> IntType \o Declared(params[i])], ")")
            \o StatementText(f.of[4], apart)

(* The tree does not say how the two lists were mixed.                     *)
ProgramTexts(p) ==
    LET Globals(apart) ==
            FlattenSeq([i \in DOMAIN p.globals |-> DeclarationText(p.globals, i, apart)])
        Functions(apart) ==
            FlattenSeq([i \in DOMAIN p.functions |-> FunctionText(p.functions[i], apart)])
    IN  UNION {{Globals(apart) \o Functions(apart), Functions(apart) \o Globals(apart)} :
                  apart \in BOOLEAN}

(* Whether a statement ends in an if that an else could still follow, and  *)
(* whether every else belongs to the nearest if.                           *)
RECURSIVE Open(_)
Open(s) ==
    \/ s.kind = "IfStmt" /\ (s.of[3].kind = "NoneLiteral" \/ Open(s.of[3]))
    \/ s.kind = "WhileStmt" /\ Open(s.of[2])

RECURSIVE NearestIf(_)
NearestIf(s) ==
    /\ s.kind = "IfStmt" /\ s.of[3].kind # "NoneLiteral" => ~ Open(s.of[2])
    /\ \A i \in DOMAIN s.of : NearestIf(s.of[i])
=============================================================================
