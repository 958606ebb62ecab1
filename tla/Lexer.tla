------------------------------- MODULE Lexer -------------------------------
(***************************************************************************)
(* The scanner of lexer.rl and its table of line starts.  The parser asks  *)
(* for a token (Ask); exec() then reads characters until it returns one.   *)
(* Offsets count from 0, as pointers into the source do.                   *)
(*                                                                         *)
(* A character stands for others that the patterns treat like it: "f" for  *)
(* the hexadecimal digits that are letters, "x" for x and X, "i" for all   *)
(* other letters and _, "1" for the digits up to 7, "8" for 8 and 9, "+"   *)
(* for the other tokens of one character, "<" for <, > and !, "&" for &    *)
(* and |, "sp" for white space other than the newline "nl", and "#" for    *)
(* whatever begins no pattern.  The keyword if stands for all nine.        *)
(***************************************************************************)
EXTENDS Integers, Sequences

Char == {"nl", "sp", "/", "*", "i", "f", "x", "0", "1", "8",
         "+", "=", "<", "&", "#"}

CONSTANT Sources            \* the texts to be scanned

ASSUME SourcesAssumption == Sources \subseteq Seq(Char)

VARIABLES
    source,     \* the text
    p,          \* the next character
    cs,         \* the state of the scanner
    ts, te,     \* where the token starts and ends
    lines,      \* the table: offsets at which lines start
    asked,      \* exec() is running
    tokens      \* what it has returned so far

vars == <<source, p, cs, ts, te, lines, asked, tokens>>

pe == Len(source)

At(i) == source[i + 1]

(* ts = 0 is the null pointer; its distance from the beginning of the      *)
(* source is some negative number.                                         *)
Null == -1

(* The states with a longer match still possible remember, in te, the end  *)
(* of the longest match so far.                                            *)
WordState == {"word", "wordi", "wordif"}
NumberState == {"zero", "octal", "hexmark", "hex", "decimal"}
State == WordState \cup NumberState \cup
         {"start", "half", "slash", "block", "blockstar", "line", "amp", "error"}

Alpha == {"i", "f", "x"}
OctalDigit == {"0", "1"}
Digit == OctalDigit \cup {"8"}
HexDigit == Digit \cup {"f"}
Letter == Alpha \cup Digit

Kinds == {"IDENT", "IF", "INT_LITERAL", "SLASH", "STAR", "PLUS", "ASSIGN", "EQ",
          "LT", "LE", "LOGICAL_AND"}
Token == [kind : Kinds \cup {"EOF"}, begin : Int, end : Int]

-----------------------------------------------------------------------------

(* What the parser does with tokens: nothing in the grammar lets a         *)
(* division be followed by another slash or a star, so it stops there.     *)
Refused ==
    LET n == Len(tokens) IN
    /\ n > 0
    /\ \/ tokens[n].kind = "EOF"
       \/ /\ n > 1
          /\ tokens[n - 1].kind = "SLASH"
          /\ tokens[n].kind \in {"SLASH", "STAR"}

Init ==
    /\ source \in Sources
    /\ p = 0 /\ cs = "start" /\ ts = 0 /\ te = 0
    /\ lines = <<0>>
    /\ asked = FALSE
    /\ tokens = <<>>

Ask ==
    /\ ~asked /\ ~Refused
    /\ asked' = TRUE
    /\ UNCHANGED <<source, p, cs, ts, te, lines, tokens>>

(* The token is the text from begin to end; operator() then steps p over   *)
(* its last character.                                                     *)
Return(kind, begin, end) ==
    /\ tokens' = Append(tokens, [kind |-> kind, begin |-> begin, end |-> end])
    /\ ts' = begin /\ te' = end /\ p' = end
    /\ cs' = "start"
    /\ asked' = FALSE
    /\ UNCHANGED source

(* White space and comments are matches without a token.                   *)
Skip ==
    /\ ts' = Null /\ te' = p + 1 /\ p' = p + 1
    /\ cs' = "start"
    /\ UNCHANGED <<source, asked, tokens>>

Shift(state, start, match) ==
    /\ cs' = state /\ ts' = start /\ te' = match /\ p' = p + 1
    /\ UNCHANGED <<source, asked, tokens>>

line_endPast(it) == lines' = Append(lines, it + 2)

line_end(it) == lines' = Append(lines, it + 1)

(* The lexer has no answer for what it found: it says that the text is     *)
(* over, with whatever ts and te hold.                                     *)
GiveUp(state, start) ==
    /\ tokens' = Append(tokens, [kind |-> "EOF", begin |-> start, end |-> te])
    /\ cs' = state /\ ts' = start /\ p' = p + 1
    /\ asked' = FALSE
    /\ UNCHANGED <<source, te, lines>>

-----------------------------------------------------------------------------

(* One transition from the start state.                                    *)
Begin ==
    /\ asked /\ p < pe /\ cs = "start"
    /\ \/ At(p) = "nl" /\ Skip /\ line_end(p)
       \/ At(p) = "sp" /\ Skip /\ UNCHANGED lines
       \/ At(p) = "*" /\ Return("STAR", p, p + 1) /\ UNCHANGED lines
       \/ At(p) = "+" /\ Return("PLUS", p, p + 1) /\ UNCHANGED lines
       \/ At(p) = "/" /\ Shift("slash", p, p + 1) /\ UNCHANGED lines
       \/ At(p) \in {"f", "x"} /\ Shift("word", p, p + 1) /\ UNCHANGED lines
       \/ At(p) = "i" /\ Shift("wordi", p, p + 1) /\ UNCHANGED lines
       \/ At(p) = "0" /\ Shift("zero", p, p + 1) /\ UNCHANGED lines
       \/ At(p) \in {"1", "8"} /\ Shift("decimal", p, p + 1) /\ UNCHANGED lines
       \/ At(p) \in {"=", "<"} /\ Shift("half", p, p + 1) /\ UNCHANGED lines
       \/ At(p) = "&" /\ Shift("amp", p, te) /\ UNCHANGED lines
       \/ At(p) = "#" /\ GiveUp("error", p)

(* Identifiers, and the keyword among them.                                *)
Longer(state, c) == IF state = "wordi" /\ c = "f" THEN "wordif" ELSE "word"
WordKind(state) == IF state = "wordif" THEN "IF" ELSE "IDENT"

Word ==
    /\ asked /\ p < pe /\ cs \in WordState
    /\ UNCHANGED lines
    /\ \/ At(p) \in Letter /\ Shift(Longer(cs, At(p)), ts, p + 1)
       \/ At(p) \notin Letter /\ Return(WordKind(cs), ts, p)

(* Numbers: a number goes on as long as it can, and 0x without a digit is  *)
(* a 0 with an identifier behind it.                                       *)
GoesOn ==
    \/ cs = "zero" /\ At(p) = "x"
    \/ cs \in {"zero", "octal"} /\ At(p) \in OctalDigit
    \/ cs \in {"hexmark", "hex"} /\ At(p) \in HexDigit
    \/ cs = "decimal" /\ At(p) \in Digit

Number ==
    /\ asked /\ p < pe /\ cs \in NumberState
    /\ UNCHANGED lines
    /\ \/ cs = "zero" /\ At(p) = "x" /\ Shift("hexmark", ts, te)
       \/ cs \in {"zero", "octal"} /\ At(p) \in OctalDigit /\ Shift("octal", ts, p + 1)
       \/ cs \in {"hexmark", "hex"} /\ At(p) \in HexDigit /\ Shift("hex", ts, p + 1)
       \/ cs = "decimal" /\ At(p) \in Digit /\ Shift("decimal", ts, p + 1)
       \/ ~GoesOn /\ Return("INT_LITERAL", ts, te)

(* A token that an equals sign makes another one.                          *)
Alone(c) == IF c = "=" THEN "ASSIGN" ELSE "LT"
WithEquals(c) == IF c = "=" THEN "EQ" ELSE "LE"

Equals ==
    /\ asked /\ p < pe /\ cs = "half"
    /\ UNCHANGED lines
    /\ \/ At(p) = "=" /\ Return(WithEquals(At(ts)), ts, p + 1)
       \/ At(p) # "=" /\ Return(Alone(At(ts)), ts, p)

(* A slash alone, or the beginning of a comment.                           *)
Slash ==
    /\ asked /\ p < pe /\ cs = "slash"
    /\ UNCHANGED lines
    /\ \/ At(p) = "*" /\ Shift("block", ts, te)
       \/ At(p) = "/" /\ Shift("line", ts, te)
       \/ At(p) \notin {"*", "/"} /\ Return("SLASH", ts, p)

LineCommentUncounted ==
    /\ asked /\ p < pe /\ cs = "line"
    /\ UNCHANGED lines
    /\ \/ At(p) = "nl" /\ Skip
       \/ At(p) # "nl" /\ Shift("line", ts, te)

LineComment ==
    /\ asked /\ p < pe /\ cs = "line"
    /\ \/ At(p) = "nl" /\ Skip /\ line_end(p)
       \/ At(p) # "nl" /\ Shift("line", ts, te) /\ UNCHANGED lines

BlockCommentOneStar ==
    /\ asked /\ p < pe /\ cs \in {"block", "blockstar"}
    /\ \/ cs = "blockstar" /\ At(p) = "/" /\ Skip /\ UNCHANGED lines
       \/ At(p) = "nl" /\ Shift("block", ts, te) /\ line_end(p)
       \/ cs = "block" /\ At(p) = "*" /\ Shift("blockstar", ts, te) /\ UNCHANGED lines
       \/ /\ At(p) # "nl" /\ ~ (cs = "block" /\ At(p) = "*")
          /\ ~ (cs = "blockstar" /\ At(p) = "/")
          /\ Shift("block", ts, te) /\ UNCHANGED lines

BlockComment ==
    /\ asked /\ p < pe /\ cs \in {"block", "blockstar"}
    /\ \/ cs = "blockstar" /\ At(p) = "/" /\ Skip /\ UNCHANGED lines
       \/ At(p) = "nl" /\ Shift("block", ts, te) /\ line_end(p)
       \/ At(p) = "*" /\ Shift("blockstar", ts, te) /\ UNCHANGED lines
       \/ /\ At(p) \notin {"nl", "*"} /\ ~ (cs = "blockstar" /\ At(p) = "/")
          /\ Shift("block", ts, te) /\ UNCHANGED lines

Ampersand ==
    /\ asked /\ p < pe /\ cs = "amp"
    /\ \/ At(p) = "&" /\ Return("LOGICAL_AND", ts, p + 1) /\ UNCHANGED lines
       \/ At(p) # "&" /\ GiveUp("error", ts)

(* Mutant of AtEnd: the end of the text takes a word back.                 *)
AtEndRescans ==
    /\ asked /\ p = pe
    /\ \/ cs \in {"start", "amp"} /\ GiveUp(cs, ts)
       \/ /\ cs \in WordState /\ p' = ts /\ cs' = "start"
          /\ UNCHANGED <<source, ts, te, lines, asked, tokens>>
       \/ cs \in NumberState /\ Return("INT_LITERAL", ts, te) /\ UNCHANGED lines
       \/ cs = "half" /\ Return(Alone(At(ts)), ts, te) /\ UNCHANGED lines
       \/ cs \in {"slash", "line", "block", "blockstar"}
          /\ Return("SLASH", ts, te) /\ UNCHANGED lines

(* The end of the text, with the actions of _rule_eof_trans: a match that  *)
(* could have been longer is taken as it is.  A comment that is not closed *)
(* is no match, and the slash before it is.                                *)
AtEnd ==
    /\ asked /\ p = pe
    /\ \/ cs \in {"start", "amp"} /\ GiveUp(cs, ts)
       \/ cs \in WordState /\ Return(WordKind(cs), ts, te) /\ UNCHANGED lines
       \/ cs \in NumberState /\ Return("INT_LITERAL", ts, te) /\ UNCHANGED lines
       \/ cs = "half" /\ Return(Alone(At(ts)), ts, te) /\ UNCHANGED lines
       \/ cs \in {"slash", "line", "block", "blockstar"}
          /\ Return("SLASH", ts, te) /\ UNCHANGED lines

exec == \/ Begin \/ Word \/ Number \/ Equals \/ Slash \/ LineComment \/ BlockComment
        \/ Ampersand \/ AtEnd

Next == Ask \/ exec

(* exec() runs until it returns; whether the parser asks again is its own  *)
(* affair.                                                                 *)
Spec == Init /\ [][Next]_vars /\ WF_vars(exec)

-----------------------------------------------------------------------------

(* std::upper_bound: the place of the first line that starts after d.      *)
upper_bound(d) ==
    CHOOSE i \in 1 .. Len(lines) + 1 :
        /\ \A j \in 1 .. i - 1 : lines[j] <= d
        /\ i <= Len(lines) => d < lines[i]

toPosition(d) ==
    LET it == upper_bound(d) - 1
    IN  [line |-> it, character |-> d - lines[it] + 1]

TypeOK ==
    /\ source \in Seq(Char)
    /\ p \in 0 .. pe + 1
    /\ cs \in State
    /\ ts \in {Null} \cup 0 .. pe
    /\ te \in 0 .. pe
    /\ lines \in Seq(0 .. pe)
    /\ asked \in BOOLEAN
    /\ tokens \in Seq(Token)
=============================================================================
