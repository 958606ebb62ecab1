------------------------------ MODULE Grammar ------------------------------
(***************************************************************************)
(* The grammar of parser.ypp: its rules, each with the node it builds, and *)
(* what bison makes of them: sets of items and the tokens that may follow. *)
(***************************************************************************)
EXTENDS Integers, Sequences, FiniteSets

(* What a rule does with the values of its right side: a node of a kind,   *)
(* or the node of one of them, with more nodes appended, and then all that *)
(* another one holds.  0 is a NoneLiteral or no clause at all.             *)
New(kind, items) == [kind |-> kind, from |-> 0, items |-> items, rest |-> 0]
Pass(i) == [kind |-> "", from |-> i, items |-> <<>>, rest |-> 0]
Push(i, j) == [kind |-> "", from |-> i, items |-> <<j>>, rest |-> 0]
Join(i, j) == [kind |-> "", from |-> i, items |-> <<>>, rest |-> j]
List(i) == New("list", <<i>>)

Rule(lhs, rhs, does) == [lhs |-> lhs, rhs |-> rhs, does |-> does]
Unit(lhs, symbol) == Rule(lhs, <<symbol>>, Pass(1))
BinarySwapped(lhs, operator, kind, operand) ==
    Rule(lhs, <<lhs, operator, operand>>, New(kind, <<3, 1>>))
Binary(lhs, operator, kind, operand) ==
    Rule(lhs, <<lhs, operator, operand>>, New(kind, <<1, 3>>))

TopLevel == <<
    Unit("result", "comp_unit"),
    Rule("comp_unit", <<>>, New("CompUnit", <<>>)),
    Rule("comp_unit", <<"comp_unit", "declaration">>, Pass(1)),
    Rule("comp_unit", <<"comp_unit", "function_definition">>, Pass(1)),
    Rule("function_param", <<"TYPE", "IDENT", "offset_list">>,
         New("ParamDeclaration", <<2, 3, 0>>)),
    Rule("function_params", <<"function_param">>, List(1)),
    Rule("function_params", <<"function_params", ",", "function_param">>, Push(1, 3)),
    Rule("function_definition", <<"TYPE", "IDENT", "(", ")", "{", "block", "}">>,
         New("Function", <<1, 2, 0, 6>>)),
    Rule("function_definition",
         <<"TYPE", "IDENT", "(", "function_params", ")", "{", "block", "}">>,
         New("Function", <<1, 2, 4, 7>>)) >>

Declarations == <<
    Unit("declaration", "const_declaration"),
    Unit("declaration", "var_declaration"),
    Rule("const_declaration", <<"const", "TYPE", "const_definition_list", ";">>, Pass(3)),
    Rule("const_definition_list", <<"const_definition">>, List(1)),
    Rule("const_definition_list", <<"const_definition_list", ",", "const_definition">>,
         Push(1, 3)),
    Rule("const_definition", <<"IDENT", "offset_list", "=", "init_val">>,
         New("ConstDeclaration", <<1, 2, 4>>)),
    Rule("var_declaration", <<"TYPE", "var_definition_list", ";">>, Pass(2)),
    Rule("var_definition_list", <<"var_definition">>, List(1)),
    Rule("var_definition_list", <<"var_definition_list", ",", "var_definition">>, Push(1, 3)),
    Rule("var_definition", <<"IDENT", "offset_list", "=", "init_val">>,
         New("VariableDeclaration", <<1, 2, 4>>)),
    Rule("var_definition", <<"IDENT", "offset_list">>,
         New("VariableDeclaration", <<1, 2, 0>>)) >>

Statements == <<
    Rule("block", <<>>, New("Block", <<>>)),
    Rule("block", <<"block", "statement">>, Push(1, 2)),
    Rule("block", <<"block", "declaration">>, Join(1, 2)),
    Rule("statement", <<";">>, New("EmptyStmt", <<>>)),
    Rule("statement", <<"left_val", "=", "expr", ";">>, New("AssignmentStmt", <<1, 3>>)),
    Rule("statement", <<"expr", ";">>, New("ExpressionStmt", <<1>>)),
    Rule("statement", <<"{", "block", "}">>, Pass(2)),
    Rule("statement", <<"if", "(", "or_expr", ")", "statement", "else", "statement">>,
         New("IfStmt", <<3, 5, 7>>)),
    Rule("statement", <<"if", "(", "or_expr", ")", "statement">>, New("IfStmt", <<3, 5, 0>>)),
    Rule("statement", <<"while", "(", "or_expr", ")", "statement">>,
         New("WhileStmt", <<3, 5>>)),
    Rule("statement", <<"break", ";">>, New("BreakStmt", <<>>)),
    Rule("statement", <<"continue", ";">>, New("ContinueStmt", <<>>)),
    Rule("statement", <<"return", ";">>, New("ReturnStmt", <<0>>)),
    Rule("statement", <<"return", "expr", ";">>, New("ReturnStmt", <<2>>)),
    Unit("init_val", "expr"),
    Rule("init_val", <<"{", "}">>, New("ArrayLiteral", <<>>)),
    Rule("init_val", <<"{", "init_array", "}">>, Pass(2)),
    Rule("init_array", <<"init_val">>, New("ArrayLiteral", <<1>>)),
    Rule("init_array", <<"init_array", ",", "init_val">>, Push(1, 3)) >>

Expressions == <<
    Rule("identifier", <<"IDENT">>, New("Identifier", <<1>>)),
    Unit("expr", "add_expr"),
    Unit("left_val", "identifier"),
    Rule("left_val", <<"left_val", "[", "expr", "]">>, New("OffsetExpression", <<1, 3>>)),
    Rule("primary_expr", <<"(", "expr", ")">>, Pass(2)),
    Unit("primary_expr", "left_val"),
    Rule("primary_expr", <<"INT_LITERAL">>, New("LiteralExpression", <<1>>)),
    Unit("unary_expr", "primary_expr"),
    Rule("unary_expr", <<"identifier", "(", ")">>, New("CallExpression", <<1, 0>>)),
    Rule("unary_expr", <<"identifier", "(", "func_params", ")">>,
         New("CallExpression", <<1, 3>>)),
    Rule("unary_expr", <<"unary_op", "unary_expr">>, New("UnaryExpression", <<1, 2>>)),
    Unit("mul_expr", "unary_expr"),
    Binary("mul_expr", "*", "Mult", "unary_expr"),
    Binary("mul_expr", "/", "Div", "unary_expr"),
    Binary("mul_expr", "%", "Mod", "unary_expr"),
    Unit("add_expr", "mul_expr"),
    Binary("add_expr", "+", "Plus", "mul_expr"),
    Binary("add_expr", "-", "Minus", "mul_expr"),
    Unit("rel_expr", "add_expr"),
    Binary("rel_expr", "<", "LT", "add_expr"),
    Binary("rel_expr", ">", "GT", "add_expr"),
    Binary("rel_expr", "<=", "LE", "add_expr"),
    Binary("rel_expr", ">=", "GE", "add_expr"),
    Unit("eq_expr", "rel_expr"),
    Binary("eq_expr", "==", "EQ", "rel_expr"),
    Binary("eq_expr", "!=", "NE", "rel_expr"),
    Unit("and_expr", "eq_expr"),
    Binary("and_expr", "&&", "And", "eq_expr"),
    Unit("or_expr", "and_expr"),
    Binary("or_expr", "||", "Or", "and_expr"),
    Rule("unary_op", <<"+">>, New("+", <<>>)),
    Rule("unary_op", <<"-">>, New("-", <<>>)),
    Rule("unary_op", <<"!">>, New("!", <<>>)) >>

Utility == <<
    Rule("func_params", <<"expr">>, List(1)),
    Rule("func_params", <<"func_params", ",", "expr">>, Push(1, 3)),
    Rule("offset_list", <<>>, New("list", <<>>)),
    Rule("offset_list", <<"[", "]">>, List(0)),
    Unit("offset_list", "offset_list_body"),
    Rule("offset_list", <<"[", "]", "offset_list_body">>,
         [kind |-> "list", from |-> 0, items |-> <<0>>, rest |-> 3]),
    Rule("offset_list_body", <<"[", "expr", "]">>, List(2)),
    Rule("offset_list_body", <<"offset_list_body", "[", "expr", "]">>, Push(1, 3)) >>

Rules == TopLevel \o Declarations \o Statements \o Expressions \o Utility

(* %nonassoc: later lines bind tighter.                                    *)
RankElseLast(token) ==
    CASE token = ")" -> 2
      [] token = "else" -> 1
      [] OTHER -> 0
Rank(token) ==
    CASE token = ")" -> 1
      [] token = "else" -> 2
      [] OTHER -> 0

-----------------------------------------------------------------------------
(* What bison makes of the rules.                                          *)

Lhs(r) == Rules[r].lhs
Rhs(r) == Rules[r].rhs
Places(r) == {<<r, k>> : k \in DOMAIN Rhs(r)}
AllPlaces == UNION {Places(r) : r \in DOMAIN Rules}

Nonterminals == {Lhs(r) : r \in DOMAIN Rules}
Nullable == {Lhs(r) : r \in {q \in DOMAIN Rules : Rhs(q) = <<>>}}

(* Nothing need stand between the places a and b of a right side.          *)
Vanish(r, a, b) == \A k \in a + 1 .. b - 1 : Rhs(r)[k] \in Nullable

RECURSIVE Closed(_)
Closed(pairs) ==
    LET joined == {p \in pairs \X pairs : p[1][2] = p[2][1]}
        more == pairs \cup {<<p[1][1], p[2][2]>> : p \in joined}
    IN  IF more = pairs THEN pairs ELSE Closed(more)

Heads == {<<Lhs(p[1]), Rhs(p[1])[p[2]]>> :
              p \in {q \in AllPlaces : Vanish(q[1], 0, q[2])}}
Tails == {<<Rhs(p[1])[p[2]], Lhs(p[1])>> :
              p \in {q \in AllPlaces : Vanish(q[1], q[2], Len(Rhs(q[1])) + 1)}}
Adjacent == {<<Rhs(p[1])[p[2]], Rhs(p[1])[p[3]]>> :
              p \in {q \in UNION {{<<r, a, b>> : a, b \in DOMAIN Rhs(r)} : r \in DOMAIN Rules} :
                        q[2] < q[3] /\ Vanish(q[1], q[2], q[3])}}
Corners == {<<Lhs(r), Rhs(r)[1]>> : r \in {q \in DOMAIN Rules : Rhs(q) # <<>>}}

Begins == Closed(Heads)
Finishes == Closed(Tails)
Leads == Closed(Corners)

Image(pairs, symbol) == {symbol} \cup {p[2] : p \in {q \in pairs : q[1] = symbol}}

(* The tokens that may come after a nonterminal.                           *)
Follow == [A \in Nonterminals |->
    LET wider == Image(Finishes, A)
    IN  UNION {Image(Begins, p[2]) : p \in {q \in Adjacent : q[1] \in wider}} \cup
            {t \in {"EOF"} : "result" \in wider}]

(* An item is a rule and how much of its right side has been read.  A      *)
(* state is the set of its kernel items; Closure adds the rules that may   *)
(* begin here.                                                             *)
Derived == [A \in Nonterminals |-> {<<r, 0>> : r \in {q \in DOMAIN Rules : Lhs(q) \in Image(Leads, A)}}]

Complete(item) == item[2] = Len(Rhs(item[1]))
Expected(item) == Rhs(item[1])[item[2] + 1]

Closure(state) ==
    state \cup UNION {Derived[Expected(k)] :
        k \in {n \in state : ~ Complete(n) /\ Expected(n) \in Nonterminals}}

Initial == Derived["result"]

Goto(state, symbol) ==
    {<<k[1], k[2] + 1>> :
        k \in {n \in Closure(state) : ~ Complete(n) /\ Expected(n) = symbol}}

Shiftable(state) == {Expected(k) : k \in {n \in Closure(state) : ~ Complete(n)}} \ Nonterminals

Reducible(state, token) ==
    {k[1] : k \in {n \in Closure(state) : Complete(n) /\ token \in Follow[Lhs(n[1])]}}

(* The rank of a rule is that of its last token.                           *)
RuleRank(r) ==
    LET tokens == {k \in DOMAIN Rhs(r) : Rhs(r)[k] \notin Nonterminals}
    IN  IF tokens = {} THEN 0 ELSE Rank(Rhs(r)[CHOOSE k \in tokens : \A j \in tokens : j <= k])

(* %nonassoc: of a rule and a token that both have a rank, the higher one  *)
(* goes on, and neither when they are equal.                               *)
Ranked(r, token) == RuleRank(r) # 0 /\ Rank(token) # 0

Reductions(state, token) ==
    {r \in Reducible(state, token) :
        (token \in Shiftable(state) /\ Ranked(r, token)) => RuleRank(r) > Rank(token)}

Shifts(state, token) ==
    {t \in Shiftable(state) \cap {token} :
        \A r \in Reducible(state, token) : Ranked(r, t) => Rank(t) > RuleRank(r)}
=============================================================================
