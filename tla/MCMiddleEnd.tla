----------------------------- MODULE MCMiddleEnd -----------------------------
(* Programs for the middle end.                                             *)
EXTENDS MiddleEnd

Lit(n) == LiteralExpression(n)
B(op, e, f) == BinaryExpression(op, e, f)
U(op, e) == UnaryExpression(op, e)
Scalar(operand) == Symbol(operand, 0, <<>>)

\* int g = 1; int a[2][2] = {2, 0, 0, 3 - 1}; const int n = 2 * 2; const int b[n / 2] = {0, n};
g == Scalar(Var(0))
a == Symbol(Var(1), 4, <<2, 1>>)
n == Scalar(Var(6))
b == Symbol(Var(7), 2, <<1>>)
Init1(e) == <<[offset |-> 0, exp |-> e]>>
MCGlobals == <<Declaration(g, <<>>, Init1(Lit(1))),
               Declaration(a, <<Lit(2), Lit(2)>>,
                           <<[offset |-> 0, exp |-> Lit(2)],
                             [offset |-> 3, exp |-> B("-", Lit(3), Lit(1))]>>),
               ConstDeclaration(n, <<>>, Init1(B("*", Lit(2), Lit(2)))),
               ConstDeclaration(b, <<B("/", n, Lit(2))>>, <<[offset |-> 1, exp |-> n]>>)>>

p == Scalar(Param(0))
q == Scalar(Param(1))
r == Symbol(Param(0), 0, <<1>>)
v == Symbol(Param(1), 0, <<4, 1>>)
At(e, i) == OffsetExpression(e, i)
f(e) == CallExpression("f", <<e>>)
h(e) == CallExpression("h", <<e>>)
k(e, e2) == CallExpression("k", <<e, e2>>)
putint(e) == ExpressionStmt(CallExpression("putint", <<e>>))
getint == CallExpression("getint", <<>>)

\* int f(int p)          { putint(p); g = g + p; return g; }
\* void h(int r[])       { if (r[0] > 2) return; r[1] = r[0] + 1; }
\* int k(int p, int q)   { int t[2] = {p, q}; h(t); return t[1] - q; }
\* int w(int p, int v[][n]) { return v[p][1]; }
t == Symbol(Var(2), 2, <<1>>)
MCFunctions == <<
    Function("f", "int", <<ParamDeclaration(p, <<>>)>>,
        <<putint(p), Assignment(g, B("+", g, p)), Return(<<g>>)>>),
    Function("h", "void", <<ParamDeclaration(r, <<NoneLiteral>>)>>,
        <<If(B(">", At(r, Lit(0)), Lit(2)), Return(<<>>)),
          Assignment(At(r, Lit(1)), B("+", At(r, Lit(0)), Lit(1)))>>),
    Function("k", "int", <<ParamDeclaration(p, <<>>), ParamDeclaration(q, <<>>)>>,
        <<Declaration(t, <<Lit(2)>>, <<[offset |-> 0, exp |-> p], [offset |-> 1, exp |-> q]>>),
          ExpressionStmt(h(t)), Return(<<B("-", At(t, Lit(1)), q)>>)>>),
    Function("w", "int", <<ParamDeclaration(p, <<>>), ParamDeclaration(v, <<NoneLiteral, n>>)>>,
        <<Return(<<At(At(v, p), Lit(1))>>)>>)>>

x == Scalar(Var(3))
y == Scalar(Var(4))

Conditions == {
    B("<", x, Lit(2)),
    Lit(1),
    B("<", Lit(2), Lit(1)),
    B("&&", B("<", x, Lit(3)), B("!=", f(x), Lit(3))),
    B("||", B("==", g, x), B("<", f(Lit(0)), Lit(3))),
    B("||", B("&&", Lit(1), g), f(Lit(1))),
    B("||", B("&&", Lit(1), B("<=", x, g)), U("!", B("-", x, Lit(2)))),
    B("&&", Lit(0), B("/", Lit(1), Lit(0))),
    B("&&", Lit(0), B("/", x, n))}

Expressions == {
    B("-", B("*", Lit(2), Lit(3)), U("-", Lit(1))),
    B("-", B("*", Lit(2), x), Lit(1)),
    B("+", g, f(x)),
    B("-", f(Lit(1)), f(Lit(2))),
    k(g, f(Lit(1))),
    f(f(U("+", x))),
    B("+", At(At(a, Lit(1)), Lit(1)), At(At(a, U("!", x)), Lit(0))),
    getint}

Statements(e) == {
    Assignment(g, e),
    Assignment(At(At(a, Lit(1)), x), e),
    Block(<<Declaration(y, <<>>, Init1(e)), putint(y)>>),
    ExpressionStmt(e),
    Return(<<e>>)}

Bodies(c, e) == {
    Break,
    If(c, Break),
    IfElse(c, Continue, Block(<<>>)),
    IfElse(c, Assignment(g, e), If(B(">", x, Lit(1)), Break)),
    While(c, Block(<<putint(Lit(7)), If(B(">", f(Lit(1)), Lit(4)), Break), Continue>>))}

\* int main() { int x = 0; starttime(); s
\*              while (c) { x = x + 1; putint(x); body g = g + x; } putint(g); h(a[1]); return a[1][1]; }
Main(c, s, body) == Function("main", "int", <<>>,
    <<Declaration(x, <<>>, Init1(Lit(0))),
      ExpressionStmt(TimerCall("starttime", 9)),
      s,
      While(c, Block(<<Assignment(x, B("+", x, Lit(1))), putint(x), body,
                       Assignment(g, B("+", g, x))>>)),
      putint(g), Empty, ExpressionStmt(h(At(a, Lit(1)))),
      Return(<<At(At(a, Lit(1)), Lit(1))>>)>>)

Atoms == {Lit(2), U("-", x), g, f(x), k(g, Lit(1)), At(At(a, Lit(0)), U("!", g))}
Operations == {B(op, e, e2) : op \in {"+", "-", "*", "%"}, e \in Atoms, e2 \in Atoms}

\* Constants at the ends of the range of 28 bits, and what divides by zero.
Most == Lit(134217727)
Least == B("-", U("-", Most), Lit(1))
Constants == {Lit(0), Lit(3), U("-", Lit(1)), n, At(b, Lit(1)), At(b, Lit(0)), Most, Least}
Large == {Most, Least}
ConstExpressions ==
    {B(op, e, e2) : op \in {"+", "-", "/", "%"}, e \in Constants, e2 \in Constants}
      \cup {B("*", e, e2) : e \in Constants, e2 \in Constants \ Large}
      \cup {B("-", U("!", e), U("-", B("/", n, e2))) :
               e \in {Lit(3), At(b, U("!", n))}, e2 \in Constants}
      \cup {At(b, U("!", e)) : e \in {n, At(b, Lit(0))}}
      \cup {B("+", n, x), f(n), b, U("-", b)}

\* int main() { int x = 0; const int c = e; const int d[2] = {c}; putint(d[0]);
\*              if (d[1]) putint(e); return 0; }
c0 == Scalar(Var(4))
d == Symbol(Var(5), 2, <<1>>)
ConstMain(e, cond) == Function("main", "int", <<>>,
    <<Declaration(x, <<>>, Init1(Lit(0))),
      ConstDeclaration(c0, <<>>, Init1(e)),
      ConstDeclaration(d, <<Lit(2)>>, <<[offset |-> 0, exp |-> c0], [offset |-> 1, exp |-> cond]>>),
      putint(At(d, Lit(0))), If(At(d, Lit(1)), putint(e)), Return(<<Lit(0)>>)>>)

\* int main() { int x = e; putint(x op e2); return 0; }
ArithmeticMain(e, op, e2) == Function("main", "int", <<>>,
    <<Declaration(x, <<>>, Init1(e)), putint(B(op, x, e2)), Return(<<Lit(0)>>)>>)

\* int main() { if (c) while (1) { const int c0 = e; putint(c0); break; } else { const int d[2] = {n, e2}; putint(d[1]); } return 0; }
NestedMain(c, e, e2) == Function("main", "int", <<>>,
    <<IfElse(c,
             While(Lit(1), Block(<<ConstDeclaration(c0, <<>>, Init1(e)), putint(c0), Break>>)),
             Block(<<ConstDeclaration(d, <<Lit(2)>>,
                                      <<[offset |-> 0, exp |-> n], [offset |-> 1, exp |-> e2]>>),
                     putint(At(d, Lit(1)))>>)),
      Return(<<Lit(0)>>)>>)
Nestings == {Lit(0), Lit(3), B("/", Lit(1), Lit(0)), B("/", n, At(b, Lit(0))), At(b, Lit(1)),
             f(n), B("+", b, Lit(1))}

\* int main() { int x = 1; int z[2][e] = {{x}, {2, 3}}; z[x][size - 1] = x + 4; putint(w(x, z));
\*              h(z[1]); putint(z[0][size - 1]); putint(z[x][size - 1]); return z[1][0]; }
Dimensions == {<<n, 4>>, <<At(b, Lit(1)), 4>>, <<B("*", Lit(2), Lit(2)), 4>>, <<B("-", n, Lit(1)), 3>>,
               <<B("/", n, Lit(2)), 2>>, <<x, 2>>, <<f(n), 2>>, <<b, 2>>, <<B("%", n, Lit(0)), 2>>,
               <<B("/", n, At(b, Lit(0))), 2>>, <<getint, 2>>, <<U("-", B("-", Lit(0), n)), 4>>}
DimensionMain(e, size) ==
    LET z == Symbol(Var(5), 2 * size, <<size, 1>>)
        z0 == <<x, Lit(0)>> \o [i \in 1 .. size - 2 |-> Lit(0)]
        z1 == <<Lit(2), Lit(3)>> \o [i \in 1 .. size - 2 |-> Lit(0)]
    IN  Function("main", "int", <<>>,
            <<Declaration(x, <<>>, Init1(Lit(1))),
              Declaration(z, <<Lit(2), e>>,
                          [i \in 1 .. 2 * size |-> [offset |-> i - 1,
                              exp |-> IF i <= size THEN z0[i] ELSE z1[i - size]]]),
              Assignment(At(At(z, x), Lit(size - 1)), B("+", x, Lit(4))),
              IF size = 4 THEN putint(CallExpression("w", <<x, z>>)) ELSE Empty,
              ExpressionStmt(h(At(z, Lit(1)))),
              putint(At(At(z, Lit(0)), Lit(size - 1))), putint(At(At(z, x), Lit(size - 1))),
              Return(<<At(At(z, Lit(1)), Lit(0))>>)>>)

MCMains ==
    {NestedMain(c, e, e2) : c \in {Lit(0), g}, e \in Nestings, e2 \in Nestings} \cup
    {DimensionMain(s[1], s[2]) : s \in Dimensions} \cup
    {ConstMain(e, cond) : e \in ConstExpressions, cond \in {Lit(0), Lit(1)}} \cup
    {ArithmeticMain(e, op, e2) : op \in {"+", "-", "/", "%"},
        e \in {Lit(3), Most, Least, U("-", Lit(1))}, e2 \in {Lit(0), Lit(3), U("-", Lit(1)), Most, Least}} \cup
    {Main(B("<", x, Lit(2)), s, Empty) :
        s \in UNION {Statements(e) : e \in Expressions \cup Operations}}
      \cup UNION {{Main(c, Empty, body) : body \in UNION {Bodies(e2, e) : e2 \in Conditions,
                      e \in {B("+", g, f(x)), k(x, Lit(2))}}} : c \in Conditions}

=============================================================================
