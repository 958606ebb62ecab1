----------------------------- MODULE MCArrayAlign -----------------------------
(* ArrayAlign on arrays of two and three dimensions; a brace has Width items  *)
(* at most.                                                                   *)
EXTENDS ArrayLayout

UpTo(S, n) == UNION {[1 .. k -> S] : k \in 0 .. n}
Braces(S) == {Brace(s) : s \in S}

Flat == UpTo({Expr}, 2)
Rows == UpTo({Expr} \cup Braces(Flat), 2)

MCInput ==
    [dims : {<<2, 2>>}, items : UpTo({Expr} \cup Braces(Flat), 4)]
      \cup [dims : {<<3, 2>>}, items : UpTo({Expr} \cup Braces(Flat), 3)]
      \cup [dims : {<<2, 2, 2>>}, items : UpTo({Expr} \cup Braces(Rows), 2)]

MCOverfull == [dims : {<<2>>}, items : UpTo({Expr}, 3)]
                \cup [dims : {<<2, 2>>}, items : UpTo({Expr} \cup Braces(Flat), 3)]

=============================================================================
