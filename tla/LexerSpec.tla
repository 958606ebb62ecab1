----------------------------- MODULE LexerSpec -----------------------------
(***************************************************************************)
(* What scanning is for, said without a scanner: which stretches of a text *)
(* are tokens, and on which line and in which column an offset is.         *)
(***************************************************************************)
EXTENDS Lexer, FiniteSets, SequencesExt

Lines(d) == {k \in 0 .. d : k = 0 \/ At(k - 1) = "nl"}

Start(d) == CHOOSE k \in Lines(d) : \A m \in Lines(d) : m <= k

Position(d) == [line |-> Cardinality(Lines(d)), character |-> d - Start(d) + 1]

(* The patterns of lexer.rl, of the part of text t from i up to and without *)
(* j; the character at offset i is t[i + 1].                               *)
Only(t, S, i, j) == i < j /\ \A k \in i .. j - 1 : t[k + 1] \in S

IsIf(t, i, j) == j = i + 2 /\ t[i + 1] = "i" /\ t[i + 2] = "f"
IsIdent(t, i, j) == Only(t, Letter, i, j) /\ t[i + 1] \in Alpha
IsInt(t, i, j) ==
    \/ t[i + 1] = "0" /\ Only(t, OctalDigit, i, j)
    \/ t[i + 1] = "0" /\ i + 2 < j /\ t[i + 2] = "x" /\ Only(t, HexDigit, i + 2, j)
    \/ t[i + 1] \in {"1", "8"} /\ Only(t, Digit, i, j)
IsPair(t, i, j) == j = i + 2 /\ t[i + 1] \in {"=", "<"} /\ t[i + 2] = "="
IsSign(t, i, j) == j = i + 1 /\ t[i + 1] \in {"/", "*", "+", "=", "<"}
IsAnd(t, i, j) == j = i + 2 /\ Only(t, {"&"}, i, j)
IsLineComment(t, i, j) ==
    /\ i + 2 < j /\ Only(t, {"/"}, i, i + 2) /\ t[j] = "nl"
    /\ \A k \in i .. j - 2 : t[k + 1] # "nl"
Closes(t, k) == t[k - 1] = "*" /\ t[k] = "/"
IsBlockComment(t, i, j) ==
    /\ i + 4 <= j /\ t[i + 1] = "/" /\ t[i + 2] = "*" /\ Closes(t, j)
    /\ \A k \in i + 4 .. j - 1 : ~ Closes(t, k)

Sign(c) == CASE c = "/" -> "SLASH" [] c = "*" -> "STAR" [] c = "+" -> "PLUS"
             [] c = "=" -> "ASSIGN" [] c = "<" -> "LT"
Pair(c) == CASE c = "=" -> "EQ" [] c = "<" -> "LE"

Kind(t, i, j) ==
    CASE IsIf(t, i, j) -> "IF"
      [] IsIdent(t, i, j) /\ ~IsIf(t, i, j) -> "IDENT"
      [] IsInt(t, i, j) -> "INT_LITERAL"
      [] IsAnd(t, i, j) -> "LOGICAL_AND"
      [] IsSign(t, i, j) -> Sign(t[i + 1])
      [] IsPair(t, i, j) -> Pair(t[i + 1])
      [] \/ j = i + 1 /\ t[i + 1] \in {"nl", "sp"}
         \/ IsLineComment(t, i, j) \/ IsBlockComment(t, i, j) -> "none"
      [] OTHER -> "nothing"

Matches(t, i) == {j \in i + 1 .. Len(t) : Kind(t, i, j) # "nothing"}
Longest(t, i) == CHOOSE m \in Matches(t, i) : \A n \in Matches(t, i) : n <= m

(* A match as a token; white space and comments are none.                  *)
Found(t, i, j) ==
    IF Kind(t, i, j) = "none" THEN <<>>
    ELSE <<[kind |-> Kind(t, i, j), begin |-> i, end |-> j]>>

(* The tokens of t from an offset on: always the longest match.            *)
Rest(t) ==
    LET rest[i \in 0 .. Len(t)] ==
            IF Matches(t, i) = {} THEN <<>>
            ELSE Found(t, i, Longest(t, i)) \o rest[Longest(t, i)]
    IN  rest

Denoted(t) == Rest(t)[0]

(* Whatever the scanner had to take back, its tokens are those of the text *)
(* read with the longest match: comments end where they first can, an      *)
(* unclosed comment is no comment, 0x is no number.                        *)
LongestMatch == Refused =>
    IF Last(tokens).kind = "EOF" THEN Front(tokens) = Denoted(source)
                                 ELSE IsPrefix(tokens, Denoted(source))

(* The positions that error messages and the timers of SysY report         *)
(* (parser_wrapper.cpp:28, gen_eeyore.cpp:227) are the line and column of  *)
(* the token, however many lines, comments and unclosed comments the       *)
(* lexer has been through, and at any later time.                          *)
PositionsRight == ~asked =>
    \A n \in 1 .. Len(tokens) : tokens[n].kind # "EOF" =>
        /\ toPosition(tokens[n].begin) = Position(tokens[n].begin)
        /\ toPosition(tokens[n].end - 1) = Position(tokens[n].end - 1)

(* exec() returns: nothing it takes back makes it read the same text for   *)
(* ever.                                                                   *)
Answers == asked ~> ~asked

(* "range in a file, 0-indexed characters, clopen interval"                *)
(* (location.hpp:15), of every token that the parser is given.             *)
RangesInFile ==
    \A n \in 1 .. Len(tokens) :
        0 <= tokens[n].begin /\ tokens[n].begin <= tokens[n].end
                             /\ tokens[n].end <= pe
=============================================================================
