---------------------------- MODULE LexerProofs ----------------------------
(***************************************************************************)
(* The table of lines is exact for every text: toPosition() gives the line *)
(* and the column of each token.  The tokens are those of the text read    *)
(* with the longest match, though the scanner takes back what it reads too *)
(* far.                                                                    *)
(***************************************************************************)
EXTENDS LexerSpec, WellFoundedInduction, FiniteSetTheorems, SequenceTheorems, TLAPS

\* A well-founded relation has minimal elements.
LEMMA MinimalElement ==
    ASSUME NEW R, NEW S, IsWellFoundedOn(R, S), NEW T, T \subseteq S, T # {}
    PROVE  \E x \in T : \A y \in T : ~ (<<y, x>> \in R)
  BY WFMin, ZenonT(60)

\* Being smaller is well-founded on the natural numbers.
LEMMA SmallerIsWellFounded ==
    \E R : /\ IsWellFoundedOn(R, Nat)
           /\ \A x, y \in Nat : x < y => <<x, y>> \in R
<1>1. \A x, y \in Nat : x < y => <<x, y>> \in OpToRel(<, Nat)
  BY Zenon DEF OpToRel
<1> QED BY <1>1, NatLessThanWellFounded, Zenon

\* A set of natural numbers that is not empty has a least element: what stands
\* in for induction, which the provers cannot do.
LEMMA Least ==
    ASSUME NEW T, T \subseteq Nat, T # {}
    PROVE  \E x \in T : \A y \in T : x <= y
<1>1. PICK R : /\ IsWellFoundedOn(R, Nat)
               /\ \A x, y \in Nat : x < y => <<x, y>> \in R
  BY SmallerIsWellFounded, Zenon
<1>2. IsWellFoundedOn(R, Nat)
  BY <1>1
<1>3. \E x \in T : \A y \in T : ~ (<<y, x>> \in R)
  BY <1>2, MinimalElement, ZenonT(60)
<1>4. PICK x \in T : \A y \in T : ~ (<<y, x>> \in R)
  BY <1>3, Zenon
<1>5. ASSUME NEW y \in T PROVE x <= y
  <2>1. x \in Nat /\ y \in Nat /\ ~ (y < x)
    BY <1>1, <1>4, Zenon
  <2> QED BY <2>1
<1> QED BY <1>5, Zenon

(* The table has the starts of all lines up to offset r, in order.         *)
Exact(r) ==
    /\ \A i \in 1 .. Len(lines) : lines[i] \in Lines(r)
    /\ \A k \in Lines(r) : \E i \in 1 .. Len(lines) : lines[i] = k
    /\ \A i, j \in 1 .. Len(lines) : i < j => lines[i] < lines[j]

Clear(i, j) == \A k \in i .. j - 1 : At(k) # "nl"

(* A comment that was not closed has been read up to the end, and its star *)
(* comes next: the parser will refuse it.                                  *)
StarNext ==
    /\ cs = "start" /\ p < pe /\ At(p) = "*"
    /\ Len(tokens) > 0 /\ tokens[Len(tokens)].kind = "SLASH"

Counted(r) ==
    /\ Exact(r)
    /\ \A n \in 1 .. Len(tokens) : tokens[n].kind # "EOF" =>
           /\ 0 <= tokens[n].begin /\ tokens[n].begin < tokens[n].end
           /\ tokens[n].end <= r
    /\ ~Refused =>
           /\ p <= r
           /\ Clear(p, r) \/ (r = pe /\ StarNext)

(* What each state of the scanner says of ts, te and p.                    *)
Says(state, b, e, n) ==
    /\ state \in WordState \cup {"zero", "octal", "hex", "decimal"} =>
           b \in 0 .. n - 1 /\ e = n
    /\ state = "hexmark" => e = n - 1 /\ b \in 0 .. e - 1 /\ At(e) = "x"
    /\ state \in {"slash", "half"} => b = n - 1 /\ e = n /\ n > 0
    /\ state = "amp" => b = n - 1 /\ n > 0
    /\ state \in {"line", "block", "blockstar"} =>
           b \in 0 .. n - 1 /\ e = b + 1 /\ e < n
    /\ state = "line" => At(e) = "/" /\ Clear(e, n)
    /\ state \in {"block", "blockstar"} => At(e) = "*"

Scanning ==
    /\ asked => ~Refused /\ cs # "error" /\ Says(cs, ts, te, p)
    /\ ~asked /\ ~Refused => cs = "start"

IInv == TypeOK /\ Scanning /\ \E r \in 0 .. pe : Counted(r)

-----------------------------------------------------------------------------

(* Counting a newline, and reading any other character, keep the table     *)
(* exact.                                                                  *)
LEMMA CountNewline ==
    ASSUME TypeOK, NEW r \in 0 .. pe - 1, Exact(r), At(r) = "nl",
           source' = source, lines' = Append(lines, r + 1)
    PROVE  Exact(r + 1)'
<1>1. Lines(r + 1)' = Lines(r) \cup {r + 1}
  BY DEF Lines, At, pe, TypeOK
<1>2. /\ Len(lines') = Len(lines) + 1 /\ Len(lines) \in Nat
      /\ lines'[Len(lines) + 1] = r + 1
      /\ \A i \in 1 .. Len(lines) : lines'[i] = lines[i]
  BY DEF TypeOK
<1>3. \A i \in 1 .. Len(lines) : lines[i] \in 0 .. r
  BY DEF Exact, Lines
<1> QED
  BY <1>1, <1>2, <1>3, SMTT(30) DEF Exact

\* Only a newline starts a line.
LEMMA SkipOther ==
    ASSUME NEW r \in 0 .. pe - 1, At(r) # "nl"
    PROVE  Lines(r + 1) = Lines(r)
BY DEF Lines, At

\* The table of lines stays exact as long as no line is passed.
LEMMA SameTable ==
    ASSUME NEW r, NEW s, Exact(r), Lines(s) = Lines(r),
           source' = source, lines' = lines
    PROVE  Exact(s)'
BY DEF Exact, Lines, At

-----------------------------------------------------------------------------

\* At first nothing is read.
LEMMA InitInv == Init => IInv
<1> SUFFICES ASSUME Init PROVE IInv
  OBVIOUS
<1>1. TypeOK
  <2>1. source \in Seq(Char) /\ pe \in Nat
    <3>1. source \in Seq(Char)
      BY SourcesAssumption DEF Init
    <3> QED BY <3>1 DEF pe
  <2>2. lines \in Seq(0 .. pe) /\ tokens \in Seq(Token)
    BY <2>1, 0 \in 0 .. pe DEF Init
  <2>3. /\ p \in 0 .. pe + 1 /\ ts \in {Null} \cup 0 .. pe /\ te \in 0 .. pe
        /\ cs \in State /\ asked \in BOOLEAN
    <3>1. p = 0 /\ ts = 0 /\ te = 0 /\ cs = "start" /\ asked = FALSE
      BY DEF Init
    <3>2. cs \in State
      BY <3>1 DEF State
    <3>3. asked \in BOOLEAN
      BY <3>1
    <3>4. 0 \in 0 .. pe + 1 /\ 0 \in 0 .. pe
      BY <2>1
    <3> QED BY <3>1, <3>2, <3>3, <3>4
  <2> QED BY <2>1, <2>2, <2>3 DEF TypeOK
<1>2. Scanning
  BY DEF Init, Scanning, Refused, Says, WordState
<1>3. 0 \in 0 .. pe /\ Lines(0) = {0}
  BY <1>1 DEF TypeOK, pe, Lines
<1>4. Exact(0)
  BY <1>3 DEF Init, Exact
<1>5. Counted(0)
  BY <1>4 DEF Counted, Init, Clear
<1> QED BY <1>1, <1>2, <1>3, <1>5 DEF IInv

\* pe is the end of the source.
LEMMA SourceType == TypeOK => Len(source) \in Nat /\ pe = Len(source)
BY DEF TypeOK, pe

\* line_end() enters positions of the source.
LEMMA TableType ==
    ASSUME TypeOK, lines' = lines \/ (p < pe /\ line_end(p)), source' = source
    PROVE  lines' \in Seq(0 .. pe')
<1>1. lines \in Seq(0 .. pe) /\ pe' = pe /\ p \in Nat /\ pe \in Nat
  BY SourceType DEF TypeOK, pe
<1>2. CASE lines' = lines
  BY <1>1, <1>2
<1>3. CASE p < pe /\ line_end(p)
  <2>1. p + 1 \in 0 .. pe
    BY <1>1, <1>3
  <2> QED BY <1>1, <1>3, <2>1, AppendProperties DEF line_end
<1> QED BY <1>2, <1>3

\* A token more.
LEMMA TokensType ==
    ASSUME TypeOK, NEW t \in Token, tokens' = Append(tokens, t)
    PROVE  tokens' \in Seq(Token)
BY AppendProperties DEF TypeOK

(* One lemma for each way in which exec() goes on.                         *)
LEMMA SkipType ==
    ASSUME TypeOK, p < pe, Skip, lines' = lines \/ line_end(p)
    PROVE  TypeOK'
<1>1. source' = source /\ pe' = pe /\ pe \in Nat /\ p \in Nat
  BY SourceType DEF Skip, pe, TypeOK
<1>2. lines' \in Seq(0 .. pe')
  BY <1>1, TableType
<1>3. p' \in 0 .. pe' + 1 /\ te' \in 0 .. pe'
  BY <1>1 DEF Skip
<1> QED BY <1>1, <1>2, <1>3 DEF TypeOK, Skip, State

\* Going on to another state.
LEMMA ShiftType ==
    ASSUME TypeOK, p < pe, lines' = lines \/ line_end(p),
           NEW state \in State, NEW start \in 0 .. pe, NEW match \in 0 .. pe,
           Shift(state, start, match)
    PROVE  TypeOK'
<1>1. source' = source /\ pe' = pe /\ pe \in Nat /\ p \in Nat
  BY SourceType DEF Shift, pe, TypeOK
<1>2. lines' \in Seq(0 .. pe')
  BY <1>1, TableType
<1>3. p' \in 0 .. pe' + 1
  BY <1>1 DEF Shift
<1> QED BY <1>1, <1>2, <1>3 DEF TypeOK, Shift

\* Handing out a token.
LEMMA ReturnType ==
    ASSUME TypeOK, lines' = lines,
           NEW kind \in Kinds,
           NEW begin \in 0 .. pe, NEW end \in 0 .. pe, Return(kind, begin, end)
    PROVE  TypeOK'
<1>1. source' = source /\ pe' = pe /\ pe \in Nat
  BY SourceType DEF Return, pe, TypeOK
<1>2. [kind |-> kind, begin |-> begin, end |-> end] \in Token
  BY <1>1 DEF Token
<1>3. tokens' \in Seq(Token)
  BY <1>2, TokensType DEF Return
<1>4. p' \in 0 .. pe' + 1
  BY <1>1 DEF Return
<1> QED BY <1>1, <1>3, <1>4 DEF TypeOK, Return, State

\* Handing out the end of file.
LEMMA GiveUpType ==
    ASSUME TypeOK, p <= pe, NEW state \in State, NEW start \in {Null} \cup 0 .. pe,
           GiveUp(state, start)
    PROVE  TypeOK'
<1>1. source' = source /\ pe' = pe /\ pe \in Nat /\ p \in Nat
  BY SourceType DEF GiveUp, pe, TypeOK
<1>2. [kind |-> "EOF", begin |-> start, end |-> te] \in Token
  BY <1>1 DEF Token, TypeOK, Null
<1>3. tokens' \in Seq(Token)
  BY <1>2, TokensType DEF GiveUp
<1>4. p' \in 0 .. pe' + 1
  BY <1>1 DEF GiveUp
<1> QED BY <1>1, <1>3, <1>4 DEF TypeOK, GiveUp

\* The states that a first character leads to.
BeginState == {"slash", "word", "wordi", "zero", "decimal", "half", "amp"}

\* Every step keeps the types.
LEMMA StepType ==
    ASSUME TypeOK, Scanning, Next
    PROVE  TypeOK'
<1>0. te \in 0 .. pe /\ p \in 0 .. pe + 1 /\ pe \in Nat /\ cs \in State
  BY SourceType DEF TypeOK
<1>1. CASE Ask
  BY <1>1 DEF Ask, TypeOK, pe
<1>2. CASE Begin
  <2>0. p \in 0 .. pe /\ p + 1 \in 0 .. pe /\ p < pe
    <3>1. p < pe
      BY <1>2 DEF Begin
    <3> QED BY <1>0, <3>1
  <2>1. \/ Skip /\ (line_end(p) \/ lines' = lines)
        \/ /\ lines' = lines
           /\ \E kind \in {"STAR", "PLUS"} : Return(kind, p, p + 1)
        \/ /\ lines' = lines
           /\ \E state \in BeginState, m \in {te, p + 1} : Shift(state, p, m)
        \/ GiveUp("error", p)
    BY <1>2 DEF Begin, BeginState
  <2>2. CASE Skip /\ (line_end(p) \/ lines' = lines)
    BY <2>0, <2>2, SkipType
  <2>3. CASE /\ lines' = lines
             /\ \E kind \in {"STAR", "PLUS"} : Return(kind, p, p + 1)
    BY <2>0, <2>3, ReturnType DEF Kinds
  <2>4. CASE /\ lines' = lines
             /\ \E state \in BeginState, m \in {te, p + 1} : Shift(state, p, m)
    <3>1. BeginState \subseteq State
      BY DEF BeginState, State, WordState, NumberState
    <3> QED BY <1>0, <2>0, <2>4, <3>1, ShiftType
  <2>5. CASE GiveUp("error", p)
    BY <2>0, <2>5, GiveUpType DEF State
  <2> QED BY <2>1, <2>2, <2>3, <2>4, <2>5
<1>3. CASE Word
  <2>1. ts \in 0 .. pe /\ p \in 0 .. pe /\ p < pe /\ UNCHANGED lines /\ p + 1 \in 0 .. pe
    BY <1>0, <1>3 DEF Word, Scanning, Says
  <2>2. /\ \A c : Longer(cs, c) \in State
        /\ WordKind(cs) \in Kinds
    BY DEF Longer, WordKind, State, WordState, Kinds
  <2>3. Shift(Longer(cs, At(p)), ts, p + 1) \/ Return(WordKind(cs), ts, p)
    BY <1>3 DEF Word
  <2> QED BY <1>0, <2>1, <2>2, <2>3, ShiftType, ReturnType
<1>4. CASE Number
  <2>1. ts \in 0 .. pe /\ p < pe /\ UNCHANGED lines /\ p + 1 \in 0 .. pe
    BY <1>0, <1>4 DEF Number, NumberState, Scanning, Says
  <2>2. \/ \E state \in NumberState, match \in {te, p + 1} : Shift(state, ts, match)
        \/ Return("INT_LITERAL", ts, te)
    BY <1>4 DEF Number, NumberState
  <2>3. CASE \E state \in NumberState, match \in {te, p + 1} : Shift(state, ts, match)
    BY <1>0, <2>1, <2>3, ShiftType DEF State
  <2>4. CASE Return("INT_LITERAL", ts, te)
    BY <1>0, <2>1, <2>4, ReturnType DEF Kinds
  <2> QED BY <2>2, <2>3, <2>4
<1>10. CASE Equals
  <2>1. /\ ts \in 0 .. pe /\ p \in 0 .. pe /\ p + 1 \in 0 .. pe /\ UNCHANGED lines
    BY <1>0, <1>10 DEF Equals, Scanning, Says
  <2>2. \A c : Alone(c) \in Kinds /\ WithEquals(c) \in Kinds
    BY DEF Alone, WithEquals, Kinds
  <2>3. Return(WithEquals(At(ts)), ts, p + 1) \/ Return(Alone(At(ts)), ts, p)
    BY <1>10 DEF Equals
  <2> QED BY <2>1, <2>2, <2>3, ReturnType
<1>5. CASE Slash
  <2>1. ts \in 0 .. pe /\ p \in 0 .. pe /\ p < pe
    BY <1>0, <1>5 DEF Slash, Scanning, Says
  <2>2. /\ lines' = lines
        /\ \/ \E state \in {"block", "line"} : Shift(state, ts, te)
           \/ Return("SLASH", ts, p)
    BY <1>5 DEF Slash
  <2> QED BY <1>0, <2>1, <2>2, ShiftType, ReturnType DEF State, Kinds
<1>6. CASE LineComment
  BY <1>0, <1>6, SkipType, ShiftType DEF LineComment, State, Scanning, Says
<1>7. CASE BlockComment
  <2>1. ts \in 0 .. pe /\ p < pe /\ (lines' = lines \/ line_end(p))
    BY <1>0, <1>7 DEF BlockComment, Scanning, Says
  <2>2. Skip \/ \E state \in {"block", "blockstar"} : Shift(state, ts, te)
    BY <1>7 DEF BlockComment
  <2> QED BY <1>0, <2>1, <2>2, SkipType, ShiftType DEF State
<1>8. CASE Ampersand
  <2>1. ts \in 0 .. pe /\ p + 1 \in 0 .. pe /\ p <= pe
    BY <1>0, <1>8 DEF Ampersand, Scanning, Says
  <2>2. GiveUp("error", ts) \/ (lines' = lines /\ Return("LOGICAL_AND", ts, p + 1))
    BY <1>8 DEF Ampersand
  <2>3. "error" \in State /\ "LOGICAL_AND" \in Kinds
    BY DEF State, Kinds
  <2> QED BY <1>0, <2>1, <2>2, <2>3, GiveUpType, ReturnType
<1>9. CASE AtEnd
  <2>0. p = pe /\ asked /\ ts \in {Null} \cup 0 .. pe
    BY <1>9 DEF AtEnd, TypeOK
  <2>1. CASE GiveUp(cs, ts)
    BY <1>0, <2>0, <2>1, GiveUpType
  <2>2. CASE cs \in WordState /\ Return(WordKind(cs), ts, te) /\ UNCHANGED lines
    <3>1. ts \in 0 .. pe
      BY <1>0, <2>0, <2>2 DEF Scanning, Says
    <3>2. WordKind(cs) \in Kinds
      BY DEF WordKind, Kinds
    <3> QED BY <1>0, <2>2, <3>1, <3>2, ReturnType
  <2>3. CASE cs \in NumberState /\ Return("INT_LITERAL", ts, te) /\ UNCHANGED lines
    <3>1. ts \in 0 .. pe
      BY <1>0, <2>0, <2>3 DEF Scanning, Says, NumberState
    <3> QED BY <1>0, <2>3, <3>1, ReturnType DEF Kinds
  <2>5. CASE cs = "half" /\ Return(Alone(At(ts)), ts, te) /\ UNCHANGED lines
    <3>1. ts \in 0 .. pe
      BY <1>0, <2>0, <2>5 DEF Scanning, Says
    <3>2. Alone(At(ts)) \in Kinds
      BY DEF Alone, Kinds
    <3> QED BY <1>0, <2>5, <3>1, <3>2, ReturnType
  <2>4. CASE /\ cs \in {"slash", "line", "block", "blockstar"}
             /\ Return("SLASH", ts, te) /\ UNCHANGED lines
    <3>1. ts \in 0 .. pe
      BY <1>0, <2>0, <2>4 DEF Scanning, Says
    <3> QED BY <1>0, <2>4, <3>1, ReturnType DEF Kinds
  <2> QED BY <1>9, <2>1, <2>2, <2>3, <2>4, <2>5 DEF AtEnd
<1> QED
  BY <1>1, <1>2, <1>3, <1>4, <1>5, <1>6, <1>7, <1>8, <1>9, <1>10 DEF Next, exec

-----------------------------------------------------------------------------

(* Reading one character: it is counted if it ends a line, and it is       *)
(* counted once, because what is read for a second time has no newlines.   *)
LEMMA Advance ==
    ASSUME TypeOK, asked, ~Refused, p < pe, NEW r \in 0 .. pe, Counted(r),
           cs # "start" \/ At(p) # "*",
           p' = p + 1, UNCHANGED <<source, tokens>>,
           \/ At(p) = "nl" /\ line_end(p)
           \/ At(p) # "nl" /\ lines' = lines
    PROVE  \E s \in 0 .. pe' : Counted(s)'
<1>1. /\ p \in Nat /\ pe \in Nat /\ p <= r /\ pe' = pe
      /\ Clear(p, r) /\ Exact(r) /\ p \in 0 .. pe - 1
  BY SourceType DEF Counted, StarNext, pe, TypeOK
<1>2. Refused' = Refused
  BY DEF Refused
<1>3. CASE p = r
  <2>1. Exact(r + 1)'
    <3>1. CASE At(p) = "nl"
      BY <1>1, <1>3, <3>1, CountNewline DEF line_end
    <3>2. CASE At(p) # "nl"
      BY <1>1, <1>3, <3>2, SkipOther, SameTable
    <3> QED BY <3>1, <3>2
  <2>2. Clear(p, r + 1)'
    BY <1>1, <1>3 DEF Clear
  <2>3. \A n \in 1 .. Len(tokens) : tokens[n].kind # "EOF" =>
            /\ 0 <= tokens[n].begin /\ tokens[n].begin < tokens[n].end
            /\ tokens[n].end <= r + 1
    <3>1. \A n \in 1 .. Len(tokens) : tokens[n] \in Token
      BY DEF TypeOK
    <3>2. \A n \in 1 .. Len(tokens) : tokens[n].end \in Int
      BY <3>1 DEF Token
    <3> QED BY <3>2 DEF Counted
  <2>4. Counted(r + 1)'
    BY <1>1, <1>3, <2>1, <2>2, <2>3 DEF Counted
  <2> QED BY <1>1, <1>3, <2>4
<1>4. CASE p < r
  <2>1. At(p) # "nl" /\ Clear(p + 1, r)
    BY <1>1, <1>4 DEF Clear
  <2>2. Exact(r)' /\ Clear(p, r)'
    BY <1>1, <2>1, SameTable DEF Clear, At
  <2>3. Counted(r)'
    BY <1>1, <1>4, <2>2 DEF Counted
  <2> QED BY <1>1, <2>3
<1> QED BY <1>1, <1>3, <1>4

(* Returning a token that ends where p is, just behind it, or before it:   *)
(* the text from there to p is on one line, or it begins with the star of  *)
(* a comment that is not closed.                                           *)
LEMMA Returned ==
    ASSUME TypeOK, asked, ~Refused, NEW r \in 0 .. pe, Counted(r),
           NEW kind \in Kinds,
           NEW begin \in 0 .. pe, NEW end \in 0 .. pe, begin < end,
           Return(kind, begin, end), lines' = lines,
           \/ end <= r /\ Clear(end, r)
           \/ end = r + 1 /\ r < pe /\ At(r) # "nl"
           \/ r = pe /\ end < pe /\ At(end) = "*" /\ kind = "SLASH"
           \/ end <= r /\ kind = "STAR" /\ Refused'
    PROVE  \E s \in 0 .. pe' : Counted(s)'
<1>1. pe' = pe /\ pe \in Nat /\ source' = source /\ p' = end /\ Exact(r)
  BY SourceType DEF Return, pe, Counted
<1>2. /\ Len(tokens') = Len(tokens) + 1 /\ Len(tokens) \in Nat
      /\ tokens'[Len(tokens) + 1] = [kind |-> kind, begin |-> begin, end |-> end]
      /\ \A n \in 1 .. Len(tokens) : tokens'[n] = tokens[n]
  BY AppendProperties DEF TypeOK, Return
<1>3. ASSUME NEW s \in 0 .. pe, r <= s, end <= s
      PROVE  \A n \in 1 .. Len(tokens') : tokens'[n].kind # "EOF" =>
               /\ 0 <= tokens'[n].begin /\ tokens'[n].begin < tokens'[n].end
               /\ tokens'[n].end <= s
  <2> SUFFICES ASSUME NEW n \in 1 .. Len(tokens'), tokens'[n].kind # "EOF"
               PROVE  /\ 0 <= tokens'[n].begin /\ tokens'[n].begin < tokens'[n].end
                      /\ tokens'[n].end <= s
    OBVIOUS
  <2>1. CASE n = Len(tokens) + 1
    BY <1>2, <1>3, <2>1
  <2>2. CASE n \in 1 .. Len(tokens)
    <3>1. tokens[n] \in Token /\ tokens'[n] = tokens[n]
      BY <1>2, <2>2 DEF TypeOK
    <3> QED BY <1>3, <2>2, <3>1 DEF Counted, Token
  <2> QED BY <1>2, <2>1, <2>2
<1>4. CASE end <= r /\ Clear(end, r)
  <2>1. Exact(r)' /\ Clear(end, r)'
    BY <1>1, <1>4, SameTable DEF Clear, At
  <2>2. Clear(p, r)'
    BY <1>1, <2>1 DEF Clear
  <2>3. Counted(r)'
    BY <1>1, <1>3, <1>4, <2>1, <2>2 DEF Counted
  <2> QED BY <1>1, <2>3
<1>5. CASE end = r + 1 /\ r < pe /\ At(r) # "nl"
  <2>1. Exact(r + 1)' /\ Clear(p, r + 1)'
    BY <1>1, <1>5, SkipOther, SameTable DEF Clear
  <2>2. Counted(r + 1)'
    BY <1>1, <1>3, <1>5, <2>1 DEF Counted
  <2> QED BY <1>1, <1>5, <2>2
<1>6. CASE r = pe /\ end < pe /\ At(end) = "*" /\ kind = "SLASH"
  <2>1. Exact(r)' /\ StarNext'
    BY <1>1, <1>2, <1>6, SameTable DEF StarNext, Return, At
  <2>2. Counted(r)'
    BY <1>1, <1>3, <1>6, <2>1 DEF Counted
  <2> QED BY <1>1, <2>2
<1>7. CASE end <= r /\ kind = "STAR" /\ Refused'
  <2>1. Exact(r)'
    BY <1>1, SameTable
  <2>2. Counted(r)'
    BY <1>1, <1>3, <1>7, <2>1 DEF Counted
  <2> QED BY <1>1, <2>2
<1> QED BY <1>4, <1>5, <1>6, <1>7

\* The scanner gives up after the lines that it has counted.
LEMMA GaveUp ==
    ASSUME TypeOK, NEW r \in 0 .. pe, Counted(r), NEW state, NEW start,
           GiveUp(state, start)
    PROVE  Refused' /\ \E s \in 0 .. pe' : Counted(s)'
<1>1. pe' = pe /\ source' = source /\ lines' = lines /\ Exact(r)
  BY DEF GiveUp, pe, Counted
<1>2. /\ Len(tokens') = Len(tokens) + 1 /\ Len(tokens) \in Nat
      /\ tokens'[Len(tokens) + 1].kind = "EOF"
      /\ \A n \in 1 .. Len(tokens) : tokens'[n] = tokens[n]
  BY AppendProperties DEF TypeOK, GiveUp
<1>3. Refused'
  BY <1>2 DEF Refused
<1>4. Exact(r)'
  BY <1>1, SameTable
<1>5. \A n \in 1 .. Len(tokens') : tokens'[n].kind # "EOF" =>
          n \in 1 .. Len(tokens)
  BY <1>2
<1>6. Counted(r)'
  BY <1>2, <1>3, <1>4, <1>5 DEF Counted
<1> QED BY <1>1, <1>3, <1>6

\* Every step keeps the position within the token.
LEMMA StepScanning ==
    ASSUME TypeOK, Scanning, Next
    PROVE  Scanning'
<1>0. te \in 0 .. pe /\ p \in 0 .. pe + 1 /\ pe \in Nat
  BY SourceType DEF TypeOK
<1>a. ASSUME NEW kind, NEW begin, NEW end, Return(kind, begin, end)
      PROVE  Scanning'
  BY <1>a DEF Return, Scanning
<1>b. ASSUME Skip, asked
      PROVE  Scanning'
  <2>1. cs' = "start" /\ asked' = asked /\ Refused' = Refused
    BY <1>b DEF Skip, Refused
  <2>2. Says(cs, ts, te, p)'
    BY <2>1 DEF Says, WordState
  <2> QED BY <1>b, <2>1, <2>2 DEF Scanning
<1>c. ASSUME NEW state, NEW start, NEW match, Shift(state, start, match), asked,
             state # "error", Says(state, start, match, p + 1)
      PROVE  Scanning'
  <2>1. /\ cs' = state /\ ts' = start /\ te' = match /\ p' = p + 1
        /\ source' = source /\ asked' = asked /\ Refused' = Refused
    BY <1>c DEF Shift, Refused
  <2>2. \A i : At(i)' = At(i)
    BY <2>1 DEF At
  <2>3. Says(cs, ts, te, p)'
    BY <1>c, <2>1, <2>2 DEF Says, Clear
  <2> QED BY <1>c, <2>1, <2>3 DEF Scanning
<1>d. ASSUME NEW state, NEW start, GiveUp(state, start)
      PROVE  Scanning'
  <2>1. /\ Len(tokens') = Len(tokens) + 1 /\ Len(tokens) \in Nat
        /\ tokens'[Len(tokens) + 1].kind = "EOF"
    BY <1>d, AppendProperties DEF TypeOK, GiveUp
  <2>2. Refused' /\ ~asked'
    BY <1>d, <2>1 DEF Refused, GiveUp
  <2> QED BY <2>2 DEF Scanning
<1>1. CASE Ask
  <2>1. asked' /\ ~Refused /\ Refused' = Refused /\ cs = "start" /\ cs' = cs
    BY <1>1 DEF Ask, Scanning, Refused
  <2>2. Says(cs, ts, te, p)'
    BY <2>1 DEF Says, WordState
  <2> QED BY <2>1, <2>2 DEF Scanning
<1>2. CASE Begin
  <2>1. asked /\ p < pe
    BY <1>2 DEF Begin
  <2>2. \/ Skip
        \/ \E kind \in {"STAR", "PLUS"} : Return(kind, p, p + 1)
        \/ \E state \in BeginState \ {"amp"} : Shift(state, p, p + 1)
        \/ Shift("amp", p, te)
        \/ GiveUp("error", p)
    BY <1>2 DEF Begin, BeginState
  <2>3. ASSUME NEW state \in BeginState \ {"amp"}
        PROVE  Says(state, p, p + 1, p + 1) /\ state # "error"
    <3>1. /\ state \in {"word", "wordi", "zero", "decimal", "slash", "half"}
          /\ p \in 0 .. p + 1 - 1 /\ p + 1 > 0 /\ p = p + 1 - 1
      BY <1>0, <2>1 DEF BeginState
    <3> QED BY <3>1 DEF Says, WordState
  <2>4. Says("amp", p, te, p + 1)
    BY <1>0, <2>1 DEF Says, WordState
  <2> QED BY <2>1, <2>2, <2>3, <2>4, <1>a, <1>b, <1>c, <1>d
<1>3. CASE Word
  <2>1. asked /\ p < pe /\ ts \in 0 .. p - 1
    BY <1>3 DEF Word, Scanning, Says
  <2>2. ASSUME NEW state \in {"word", "wordif"}
        PROVE  Says(state, ts, p + 1, p + 1) /\ state # "error"
    <3>1. ts \in 0 .. p + 1 - 1 /\ state \in WordState /\ state # "error"
      BY <1>0, <2>1 DEF WordState
    <3>2. state \notin {"hexmark", "slash", "half", "amp", "line", "block", "blockstar"}
      OBVIOUS
    <3> QED BY <1>0, <3>1, <3>2 DEF Says
  <2>3. Longer(cs, At(p)) \in {"word", "wordif"}
    BY DEF Longer
  <2>4. CASE Shift(Longer(cs, At(p)), ts, p + 1)
    <3> DEFINE state == Longer(cs, At(p))
    <3>1. Shift(state, ts, p + 1) /\ state \in {"word", "wordif"}
      BY <2>3, <2>4
    <3> HIDE DEF state
    <3> QED BY <2>1, <2>2, <3>1, <1>c
  <2>5. CASE Return(WordKind(cs), ts, p)
    BY <2>5, <1>a
  <2> QED BY <1>3, <2>4, <2>5 DEF Word
<1>4. CASE Number
  <2>1. asked /\ p < pe /\ ts \in 0 .. p - 1
    BY <1>0, <1>4 DEF Number, NumberState, Scanning, Says
  <2>2. \A state \in {"octal", "hex", "decimal"} : Says(state, ts, p + 1, p + 1)
    BY <1>0, <2>1 DEF Says, WordState
  <2>3. cs = "zero" /\ At(p) = "x" => Says("hexmark", ts, te, p + 1)
    <3>1. cs = "zero" => te = p
      BY <2>1 DEF Scanning, Says
    <3> QED BY <1>0, <2>1, <3>1 DEF Says, WordState
  <2> QED BY <1>4, <2>1, <2>2, <2>3, <1>a, <1>c DEF Number
<1>10. CASE Equals
  BY <1>10, <1>a DEF Equals
<1>5. CASE Slash
  <2>1. asked /\ p < pe /\ ts = p - 1 /\ te = p /\ p > 0
    BY <1>5 DEF Slash, Scanning, Says
  <2>2. At(p) = "*" => Says("block", ts, te, p + 1)
    BY <1>0, <2>1 DEF Says, WordState
  <2>3. At(p) = "/" => Says("line", ts, te, p + 1)
    BY <1>0, <2>1 DEF Says, Clear, WordState
  <2> QED BY <1>5, <2>1, <2>2, <2>3, <1>a, <1>c DEF Slash
<1>6. CASE LineComment
  <2>1. asked /\ p < pe /\ Says("line", ts, te, p)
    BY <1>6 DEF LineComment, Scanning
  <2>2. At(p) # "nl" => Says("line", ts, te, p + 1)
    BY <1>0, <2>1 DEF Says, Clear, WordState
  <2> QED BY <1>6, <2>1, <2>2, <1>b, <1>c DEF LineComment
<1>7. CASE BlockComment
  <2>1. /\ asked /\ p < pe /\ ts \in 0 .. p - 1 /\ te = ts + 1 /\ te < p
        /\ At(te) = "*"
    BY <1>7 DEF BlockComment, Scanning, Says
  <2>2. \A state \in {"block", "blockstar"} : Says(state, ts, te, p + 1)
    BY <1>0, <2>1 DEF Says, WordState
  <2>3. Skip \/ \E state \in {"block", "blockstar"} : Shift(state, ts, te)
    BY <1>7 DEF BlockComment
  <2> QED BY <2>1, <2>2, <2>3, <1>b, <1>c
<1>8. CASE Ampersand
  BY <1>8, <1>a, <1>d DEF Ampersand
<1>9. CASE AtEnd
  BY <1>9, <1>a, <1>d DEF AtEnd
<1> QED
  BY <1>1, <1>2, <1>3, <1>4, <1>5, <1>6, <1>7, <1>8, <1>9, <1>10 DEF Next, exec

\* Every step keeps the lines up to the position counted.
LEMMA StepCounted ==
    ASSUME TypeOK, Scanning, NEW r \in 0 .. pe, Counted(r), Next
    PROVE  \E s \in 0 .. pe' : Counted(s)'
<1>0. /\ te \in 0 .. pe /\ p \in 0 .. pe + 1 /\ pe \in Nat /\ r \in Nat
      /\ p \in Nat /\ te \in Nat
  BY SourceType DEF TypeOK
<1>1. CASE Ask
  <2>1. UNCHANGED <<source, p, cs, lines, tokens>>
    BY <1>1 DEF Ask
  <2>2. pe' = pe /\ Counted(r)'
    BY <2>1 DEF Counted, Exact, Lines, At, Clear, StarNext, Refused, pe
  <2> QED BY <2>2
<1>2. CASE exec
  <2>1. asked /\ ~Refused /\ p <= r /\ (Clear(p, r) \/ (r = pe /\ StarNext))
    BY <1>2 DEF exec, Begin, Word, Number, Equals, Slash, LineComment, BlockComment,
                Ampersand, AtEnd, Scanning, Counted
  <2>2. cs # "start" => Clear(p, r)
    BY <2>1 DEF StarNext
  <2>a. ASSUME NEW state, NEW start, NEW match, Shift(state, start, match),
               p < pe, cs # "start" \/ At(p) # "*",
               \/ At(p) = "nl" /\ line_end(p)
               \/ At(p) # "nl" /\ lines' = lines
        PROVE  \E s \in 0 .. pe' : Counted(s)'
    BY <2>1, <2>a, Advance DEF Shift
  <2>b. ASSUME Skip, p < pe, cs # "start" \/ At(p) # "*",
               \/ At(p) = "nl" /\ line_end(p)
               \/ At(p) # "nl" /\ lines' = lines
        PROVE  \E s \in 0 .. pe' : Counted(s)'
    BY <2>1, <2>b, Advance DEF Skip
  <2>3. CASE Begin
    <3>0. p < pe /\ cs = "start"
      BY <2>3 DEF Begin
    <3>1. p < pe /\ p + 1 \in 0 .. pe /\ p \in 0 .. pe /\ p < p + 1 /\ cs = "start"
      BY <1>0, <3>0
    <3>2. CASE At(p) \in {"*", "+"}
      <4>1. PICK kind \in {"STAR", "PLUS"} :
               /\ Return(kind, p, p + 1) /\ lines' = lines
               /\ kind = "PLUS" => At(p) = "+"
        BY <2>3, <3>2 DEF Begin
      <4>a. kind \in Kinds
        BY DEF Kinds
      <4>2. CASE Clear(p, r)
        <5>1. CASE p = r
          <6>1. p + 1 = r + 1 /\ r < pe /\ At(r) # "nl"
            BY <3>1, <3>2, <5>1
          <6> QED BY <2>1, <3>1, <4>a, <4>1, <6>1, Returned
        <5>2. CASE p < r
          <6>1. p + 1 <= r /\ Clear(p + 1, r)
            BY <1>0, <4>2, <5>2 DEF Clear
          <6> QED BY <2>1, <3>1, <4>a, <4>1, <6>1, Returned
        <5> QED BY <1>0, <2>1, <5>1, <5>2
      <4>3. CASE r = pe /\ StarNext
        <5>1. kind = "STAR" /\ p + 1 <= r
          BY <1>0, <3>1, <4>1, <4>3 DEF StarNext
        <5>2. Refused'
          <6>1. /\ Len(tokens') = Len(tokens) + 1 /\ Len(tokens) \in Nat
                /\ tokens'[Len(tokens) + 1].kind = "STAR"
                /\ \A n \in 1 .. Len(tokens) : tokens'[n] = tokens[n]
            BY <4>1, <5>1, AppendProperties DEF TypeOK, Return
          <6>2. tokens'[Len(tokens)].kind = "SLASH" /\ Len(tokens) > 0
            BY <4>3, <6>1 DEF StarNext
          <6> QED BY <6>1, <6>2 DEF Refused
        <5> QED BY <1>0, <2>1, <3>1, <4>a, <4>1, <5>1, <5>2, Returned
      <4> QED BY <2>1, <4>2, <4>3
    <3>3. CASE At(p) \notin {"*", "+"}
      <4>1. \/ Skip /\ At(p) = "nl" /\ line_end(p)
            \/ Skip /\ At(p) # "nl" /\ lines' = lines
            \/ /\ At(p) # "nl" /\ lines' = lines
               /\ \E state, match : Shift(state, p, match)
            \/ GiveUp("error", p)
        BY <2>3, <3>3 DEF Begin
      <4> QED BY <3>1, <3>3, <4>1, <2>a, <2>b, GaveUp
    <3> QED BY <3>2, <3>3
  <2>4. CASE Word
    <3>1. /\ p < pe /\ cs \in WordState /\ lines' = lines /\ ts \in 0 .. p - 1
          /\ cs # "start"
      BY <2>4 DEF Word, Scanning, Says, WordState
    <3>2. CASE At(p) \in Letter /\ Shift(Longer(cs, At(p)), ts, p + 1)
      <4>1. At(p) # "nl"
        BY <3>2 DEF Letter, Alpha, Digit, OctalDigit
      <4> QED BY <3>1, <3>2, <4>1, <2>a
    <3>3. CASE Return(WordKind(cs), ts, p)
      <4>1. ts \in 0 .. pe /\ p \in 0 .. pe /\ ts < p
        BY <1>0, <3>1
      <4>2. WordKind(cs) \in Kinds
        BY DEF WordKind, Kinds
      <4> QED BY <2>1, <2>2, <3>1, <3>3, <4>1, <4>2, Returned
    <3> QED BY <2>4, <3>2, <3>3 DEF Word
  <2>5. CASE Number
    <3>1. /\ p < pe /\ cs # "start" /\ lines' = lines
          /\ cs \in {"zero", "octal", "hex", "hexmark", "decimal"}
      BY <2>5 DEF Number, NumberState
    <3>2. /\ ts \in 0 .. te - 1
          /\ te = p \/ (te = p - 1 /\ At(te) = "x")
      BY <2>1, <3>1 DEF Scanning, Says
    <3>3. CASE \E state, match : Shift(state, ts, match) /\ At(p) \in {"x"} \cup HexDigit
      <4>1. At(p) # "nl"
        BY <3>3 DEF HexDigit, Digit, OctalDigit
      <4> QED BY <3>1, <3>3, <4>1, <2>a
    <3>4. CASE Return("INT_LITERAL", ts, te)
      <4>1. ts \in 0 .. pe /\ ts < te /\ te <= r
        BY <1>0, <2>1, <3>1, <3>2
      <4>2. Clear(te, r)
        BY <1>0, <2>2, <3>1, <3>2 DEF Clear
      <4> QED BY <1>0, <2>1, <3>1, <3>4, <4>1, <4>2, Returned DEF Kinds
    <3> QED BY <2>5, <3>3, <3>4 DEF Number, HexDigit, Digit
  <2>11. CASE Equals
    <3>1. p < pe /\ cs = "half" /\ lines' = lines /\ ts = p - 1 /\ p > 0
      BY <2>11 DEF Equals, Scanning, Says
    <3>2. \A c : Alone(c) \in Kinds /\ WithEquals(c) \in Kinds
      BY DEF Alone, WithEquals, Kinds
    <3>3. CASE At(p) = "=" /\ Return(WithEquals(At(ts)), ts, p + 1)
      <4>1. ts \in 0 .. pe /\ p + 1 \in 0 .. pe /\ ts < p + 1 /\ Clear(p, r)
        BY <1>0, <2>2, <3>1
      <4>2. CASE p = r
        BY <2>1, <3>1, <3>2, <3>3, <4>1, <4>2, Returned
      <4>3. CASE p < r
        <5>1. p + 1 <= r /\ Clear(p + 1, r)
          BY <1>0, <4>1, <4>3 DEF Clear
        <5> QED BY <2>1, <3>1, <3>2, <3>3, <4>1, <5>1, Returned
      <4> QED BY <1>0, <2>1, <4>2, <4>3
    <3>4. CASE Return(Alone(At(ts)), ts, p)
      <4>1. ts \in 0 .. pe /\ p \in 0 .. pe /\ ts < p
        BY <1>0, <3>1
      <4> QED BY <2>1, <2>2, <3>1, <3>2, <3>4, <4>1, Returned
    <3> QED BY <2>11, <3>3, <3>4 DEF Equals
  <2>6. CASE Slash
    <3>1. p < pe /\ cs = "slash" /\ lines' = lines /\ ts = p - 1 /\ p > 0
      BY <2>6 DEF Slash, Scanning, Says
    <3>2. CASE \E state : Shift(state, ts, te) /\ At(p) \in {"*", "/"}
      BY <3>1, <3>2, <2>a
    <3>3. CASE Return("SLASH", ts, p)
      <4>1. ts \in 0 .. pe /\ p \in 0 .. pe /\ ts < p
        BY <1>0, <3>1
      <4> QED BY <2>1, <2>2, <3>1, <3>3, <4>1, Returned DEF Kinds
    <3> QED BY <2>6, <3>2, <3>3 DEF Slash
  <2>7. CASE LineComment
    BY <2>7, <2>a, <2>b DEF LineComment
  <2>8. CASE BlockComment
    BY <2>8, <2>a, <2>b DEF BlockComment
  <2>9. CASE Ampersand
    <3>1. p < pe /\ cs = "amp" /\ ts = p - 1 /\ p > 0
      BY <2>9 DEF Ampersand, Scanning, Says
    <3>2. CASE GiveUp("error", ts)
      BY <3>2, GaveUp
    <3>3. CASE At(p) = "&" /\ Return("LOGICAL_AND", ts, p + 1) /\ lines' = lines
      <4>1. ts \in 0 .. pe /\ p + 1 \in 0 .. pe /\ ts < p + 1 /\ Clear(p, r)
        BY <1>0, <2>2, <3>1
      <4>0. "LOGICAL_AND" \in Kinds
        BY DEF Kinds
      <4>2. CASE p = r
        BY <2>1, <3>1, <3>3, <4>0, <4>1, <4>2, Returned
      <4>3. CASE p < r
        <5>1. p + 1 <= r /\ Clear(p + 1, r)
          BY <1>0, <4>1, <4>3 DEF Clear
        <5> QED BY <2>1, <3>3, <4>0, <4>1, <5>1, Returned
      <4> QED BY <1>0, <2>1, <4>2, <4>3
    <3> QED BY <2>9, <3>2, <3>3 DEF Ampersand
  <2>10. CASE AtEnd
    <3>1. asked /\ p = pe /\ r = pe /\ Says(cs, ts, te, p)
      BY <1>0, <2>1, <2>10 DEF AtEnd, Scanning
    <3>2. CASE GiveUp(cs, ts)
      BY <3>2, GaveUp
    <3>3. CASE /\ cs \in WordState \cup NumberState \cup {"half", "slash"}
               /\ lines' = lines
               /\ \E kind \in Kinds : Return(kind, ts, te)
      <4>1. ts \in 0 .. pe /\ ts < te /\ te <= r /\ Clear(te, r)
        BY <1>0, <3>1, <3>3 DEF Says, Clear, NumberState
      <4> QED BY <1>0, <2>1, <3>3, <4>1, Returned
    <3>4. CASE cs = "line" /\ lines' = lines /\ Return("SLASH", ts, te)
      <4>1. ts \in 0 .. pe /\ ts < te /\ te <= r /\ Clear(te, r)
        BY <1>0, <3>1, <3>4 DEF Says
      <4> QED BY <1>0, <2>1, <3>4, <4>1, Returned DEF Kinds
    <3>5. CASE /\ cs \in {"block", "blockstar"} /\ lines' = lines
               /\ Return("SLASH", ts, te)
      <4>1. ts \in 0 .. pe /\ ts < te /\ te < pe /\ At(te) = "*"
        BY <1>0, <3>1, <3>5 DEF Says
      <4> QED BY <1>0, <2>1, <3>1, <3>5, <4>1, Returned DEF Kinds
    <3>6. /\ WordKind(cs) \in Kinds /\ Alone(At(ts)) \in Kinds
          /\ "INT_LITERAL" \in Kinds /\ "SLASH" \in Kinds
      BY DEF WordKind, Alone, Kinds
    <3> QED BY <2>10, <3>2, <3>3, <3>4, <3>5, <3>6 DEF AtEnd
  <2> QED
    BY <1>2, <2>3, <2>4, <2>5, <2>6, <2>7, <2>8, <2>9, <2>10, <2>11 DEF exec
<1> QED BY <1>1, <1>2 DEF Next

(* IInv is inductive, for every set of texts.                              *)
THEOREM Inductive == Spec => []IInv
<1>1. IInv /\ [Next]_vars => IInv'
  <2> SUFFICES ASSUME IInv, [Next]_vars PROVE IInv'
    OBVIOUS
  <2>1. CASE Next
    BY <2>1, StepType, StepScanning, StepCounted DEF IInv
  <2>2. CASE UNCHANGED vars
    <3>1. UNCHANGED <<source, p, cs, ts, te, lines, asked, tokens>>
      BY <2>2 DEF vars
    <3>2. TypeOK' /\ Scanning' /\ pe' = pe
      BY <3>1 DEF IInv, TypeOK, Scanning, Says, Clear, At, Refused, pe
    <3>3. \A r \in 0 .. pe : Counted(r) => Counted(r)'
      BY <3>1 DEF Counted, Exact, Lines, At, Clear, StarNext, Refused, pe
    <3> QED BY <3>2, <3>3 DEF IInv
  <2> QED BY <2>1, <2>2
<1> QED BY InitInv, <1>1, PTL DEF Spec

(* The state of the scanner keeps its type, whatever the text.             *)
THEOREM TypeCorrect == Spec => []TypeOK
<1>1. IInv => TypeOK
  BY DEF IInv
<1> QED BY Inductive, <1>1, PTL

-----------------------------------------------------------------------------

(* The table's last line that starts no later than d is the line of d.     *)
LEMMA LastLine ==
    ASSUME TypeOK, NEW r \in 0 .. pe, Exact(r), NEW d \in 0 .. r
    PROVE  LET it == upper_bound(d) - 1
           IN  /\ it \in 1 .. Len(lines)
               /\ \A j \in 1 .. it : lines[j] <= d
               /\ \A j \in it + 1 .. Len(lines) : d < lines[j]
<1> DEFINE n == Len(lines)
           T == {j \in 1 .. n + 1 : j <= n => d < lines[j]}
<1>1. n \in Nat /\ pe \in Nat /\ r \in Nat /\ d \in Nat
  BY DEF TypeOK, pe
<1>2. \A j \in 1 .. n : lines[j] \in Nat
  BY <1>1 DEF Exact, Lines
<1>3. PICK i \in 1 .. n : lines[i] = 0
  BY <1>1 DEF Exact, Lines
<1>4. T \subseteq Nat /\ n + 1 \in T
  BY <1>1
<1>5. PICK u \in T : \A j \in T : u <= j
  BY <1>4, Least, Zenon
<1> HIDE DEF n
<1>6. u \in 1 .. n + 1 /\ \A j \in 1 .. u - 1 : lines[j] <= d
  BY <1>1, <1>2, <1>5
<1>7. ASSUME NEW j \in u .. n PROVE d < lines[j]
  <2>1. CASE j = u
    BY <2>1, <1>1, <1>5
  <2>2. CASE j # u
    <3>1. u \in 1 .. n /\ j \in 1 .. n /\ u < j
      BY <2>2, <1>1, <1>6
    <3>2. lines[u] < lines[j] /\ d < lines[u]
      BY <3>1, <1>5 DEF Exact, n
    <3> QED BY <3>1, <3>2, <1>1, <1>2
  <2> QED BY <2>1, <2>2
<1>8. u # 1
  BY <1>1, <1>3, <1>7
<1>9. upper_bound(d) = u
  <2>1. \A v \in 1 .. n + 1 :
           (\A j \in 1 .. v - 1 : lines[j] <= d) /\ (v <= n => d < lines[v])
             => v = u
    <3> SUFFICES ASSUME NEW v \in 1 .. n + 1, v # u,
                        \A j \in 1 .. v - 1 : lines[j] <= d, v <= n => d < lines[v]
                 PROVE  FALSE
      OBVIOUS
    <3>1. v \in T
      BY DEF n
    <3>2. u \in 1 .. v - 1
      BY <3>1, <1>1, <1>5, <1>6
    <3>3. lines[u] <= d /\ d < lines[u]
      BY <3>2, <1>1, <1>6, <1>7
    <3> QED BY <3>2, <3>3, <1>1, <1>2, <1>6
  <2>2. u <= n => d < lines[u]
    BY <1>1, <1>6, <1>7
  <2> QED BY <2>1, <2>2, <1>6 DEF upper_bound, n
<1>10. upper_bound(d) - 1 \in 1 .. n
  BY <1>1, <1>6, <1>8, <1>9
<1>11. \A j \in 1 .. upper_bound(d) - 1 : lines[j] <= d
  BY <1>6, <1>9
<1>12. \A j \in upper_bound(d) - 1 + 1 .. n : d < lines[j]
  BY <1>1, <1>6, <1>7, <1>9
<1> QED BY <1>10, <1>11, <1>12 DEF n

(* toPosition() counts the lines that start up to d, and the characters    *)
(* from the last of them.                                                  *)
LEMMA PositionExact ==
    ASSUME TypeOK, NEW r \in 0 .. pe, Exact(r), NEW d \in 0 .. r
    PROVE  toPosition(d) = Position(d)
<1> DEFINE it == upper_bound(d) - 1
           F == [j \in 1 .. it |-> lines[j]]
<1>1. /\ it \in 1 .. Len(lines)
      /\ \A j \in 1 .. it : lines[j] <= d
      /\ \A j \in it + 1 .. Len(lines) : d < lines[j]
  BY LastLine
<1> HIDE DEF it
<1>2. Len(lines) \in Nat /\ pe \in Nat /\ d \in Nat /\ r \in Nat /\ it \in Nat
  BY <1>1 DEF TypeOK, pe
<1>3. Lines(d) \subseteq Lines(r)
  BY <1>2 DEF Lines
<1>4. \A k \in Lines(r) : k <= d => k \in Lines(d)
  BY <1>2 DEF Lines
<1>5. \A j \in 1 .. it : lines[j] \in Lines(d)
  BY <1>1, <1>2, <1>4 DEF Exact
<1>6. ASSUME NEW k \in Lines(d) PROVE \E j \in 1 .. it : lines[j] = k
  <2>1. PICK j \in 1 .. Len(lines) : lines[j] = k
    BY <1>3 DEF Exact
  <2>2. k <= d /\ k \in Nat
    BY <1>2 DEF Lines
  <2>3. ~ (j \in it + 1 .. Len(lines))
    BY <2>1, <2>2, <1>1, <1>2
  <2> QED BY <2>1, <2>3, <1>1, <1>2
<1>7. \A i, j \in 1 .. it : lines[i] = lines[j] => i = j
  <2>1. \A i, j \in 1 .. it : i < j => lines[i] < lines[j]
    BY <1>1, <1>2 DEF Exact
  <2>2. \A j \in 1 .. it : lines[j] \in Nat
    BY <1>2, <1>5 DEF Lines
  <2> QED BY <2>1, <2>2, <1>2
<1>8. Cardinality(Lines(d)) = it
  <2>1. F \in [1 .. it -> Lines(d)]
    BY <1>5
  <2>2. F \in Injection(1 .. it, Lines(d))
    BY <2>1, <1>7 DEF Injection, IsInjective
  <2>3. F \in Surjection(1 .. it, Lines(d))
    BY <2>1, <1>6 DEF Surjection
  <2>4. ExistsBijection(1 .. it, Lines(d))
    BY <2>2, <2>3 DEF ExistsBijection, Bijection
  <2>5. IsFiniteSet(1 .. it) /\ Cardinality(1 .. it) = it
    BY <1>1, <1>2, FS_Interval
  <2> QED BY <2>4, <2>5, FS_Bijection
<1>9. Start(d) = lines[it]
  <2>1. lines[it] \in Lines(d)
    BY <1>1, <1>2, <1>5
  <2>2. ASSUME NEW m \in Lines(d) PROVE m <= lines[it]
    <3>1. PICK j \in 1 .. it : lines[j] = m
      BY <1>6
    <3>2. CASE j = it
      BY <3>1, <3>2, <1>2 DEF Lines
    <3>3. CASE j < it
      <4>1. lines[j] < lines[it]
        BY <3>3, <1>1, <1>2 DEF Exact
      <4> QED BY <3>1, <4>1, <2>1, <1>2 DEF Lines
    <3> QED BY <3>2, <3>3, <1>2
  <2>3. \A k \in Lines(d) : (\A m \in Lines(d) : m <= k) => k = lines[it]
    <3>1. Lines(d) \subseteq Int
      BY <1>2 DEF Lines
    <3> QED BY <2>1, <2>2, <3>1
  <2> QED BY <2>1, <2>2, <2>3 DEF Start
<1> QED BY <1>8, <1>9 DEF toPosition, Position, it

(* Every token's line and column are right, for every set of texts.        *)
THEOREM PositionsAreRight == Spec => []PositionsRight
<1>1. IInv => PositionsRight
  <2> SUFFICES ASSUME IInv, NEW n \in 1 .. Len(tokens), tokens[n].kind # "EOF"
               PROVE  /\ toPosition(tokens[n].begin) = Position(tokens[n].begin)
                      /\ toPosition(tokens[n].end - 1) = Position(tokens[n].end - 1)
    BY DEF PositionsRight
  <2>1. TypeOK
    BY DEF IInv
  <2>2. PICK r \in 0 .. pe : Counted(r)
    BY DEF IInv
  <2>3. tokens[n] \in Token
    BY <2>1 DEF TypeOK
  <2>4. tokens[n].begin \in Int /\ tokens[n].end \in Int
    BY <2>3 DEF Token
  <2>5. /\ Exact(r)
        /\ 0 <= tokens[n].begin /\ tokens[n].begin < tokens[n].end
        /\ tokens[n].end <= r
    BY <2>2 DEF Counted
  <2>6. r \in Nat
    BY <2>1 DEF TypeOK, pe
  <2>7. tokens[n].begin \in 0 .. r /\ tokens[n].end - 1 \in 0 .. r
    BY <2>4, <2>5, <2>6
  <2> QED BY <2>1, <2>5, <2>7, PositionExact
<1> QED BY Inductive, <1>1, PTL

-----------------------------------------------------------------------------
(* The tokens are the longest matches.  First, what the definition of       *)
(* Rest comes to: matches are longer than nothing, so the rest of a text is *)
(* defined from its end.                                                    *)

Text == Seq(Char)

\* One step of Rest, from what f says of the offsets behind i.
Onward(t, f, i) ==
    IF Matches(t, i) = {} THEN <<>> ELSE Found(t, i, Longest(t, i)) \o f[Longest(t, i)]

\* f is right from offset m on.
RightFrom(t, f, m) ==
    /\ f = [i \in m .. Len(t) |-> f[i]]
    /\ \A i \in m .. Len(t) : f[i] = Onward(t, f, i)

(* A set of numbers that is bounded has a greatest one.                    *)
LEMMA Greatest ==
    ASSUME NEW n \in Nat, NEW T, T \subseteq 0 .. n, T # {}
    PROVE  \E x \in T : \A y \in T : y <= x
<1> DEFINE U == {n - x : x \in T}
<1>1. U \subseteq Nat /\ U # {}
  <2>1. \A x \in T : n - x \in Nat
    OBVIOUS
  <2> QED BY <2>1, Zenon
<1>2. PICK u \in U : \A w \in U : u <= w
  BY <1>1, Least
<1>3. PICK x \in T : u = n - x
  BY <1>2
<1>4. \A y \in T : n - y \in U
  OBVIOUS
<1>5. \A y \in T : u <= n - y
  BY <1>2, <1>4
<1>6. \A y \in T : y \in 0 .. n
  OBVIOUS
<1> QED BY <1>3, <1>5, <1>6

\* Matches are longer than nothing.
LEMMA MatchesRange ==
    ASSUME NEW t, NEW i, NEW j \in Matches(t, i)
    PROVE  j \in i + 1 .. Len(t)
BY Zenon DEF Matches

\* The longest match is one, and there is no longer one.
LEMMA LongestIs ==
    ASSUME NEW t \in Text, NEW i \in 0 .. Len(t), Matches(t, i) # {}
    PROVE  /\ Longest(t, i) \in Matches(t, i)
           /\ Longest(t, i) \in i + 1 .. Len(t)
           /\ \A n \in Matches(t, i) : n <= Longest(t, i)
<1>1. Len(t) \in Nat /\ Matches(t, i) \subseteq 0 .. Len(t)
  BY MatchesRange DEF Text
<1>2. \E m \in Matches(t, i) : \A n \in Matches(t, i) : n <= m
  BY <1>1, Greatest
<1>3. /\ Longest(t, i) \in Matches(t, i)
      /\ \A n \in Matches(t, i) : n <= Longest(t, i)
  BY <1>2, Zenon DEF Longest
<1> QED BY <1>3, MatchesRange

\* There is a function that is right from each offset on.
LEMMA SomeRight ==
    ASSUME NEW t \in Text, NEW m \in 0 .. Len(t)
    PROVE  \E f : RightFrom(t, f, m)
<1> DEFINE n == Len(t)
           bad == {k \in 0 .. n : ~ \E f : RightFrom(t, f, k)}
<1>1. n \in Nat
  BY DEF Text
<1>2. RightFrom(t, [i \in n .. n |-> <<>>], n)
  <2>1. Matches(t, n) = {}
    BY <1>1, MatchesRange
  <2>2. n .. n = {n}
    BY <1>1
  <2> QED BY <2>1, <2>2, Zenon DEF RightFrom, Onward
<1>3. CASE bad = {}
  BY <1>3
<1>4. CASE bad # {}
  <2>1. PICK k \in bad : \A y \in bad : y <= k
    BY <1>1, <1>4, Greatest
  <2>2. k \in 0 .. n /\ k # n
    BY <1>2, <2>1
  <2>3. k + 1 \in 0 .. n /\ k + 1 \notin bad
    BY <1>1, <2>1, <2>2
  <2>4. PICK f : RightFrom(t, f, k + 1)
    BY <2>3
  <2> DEFINE g == [i \in k .. n |-> IF i = k THEN Onward(t, f, k) ELSE f[i]]
  <2>5. \A i \in k + 1 .. n : g[i] = f[i]
    BY <1>1, <2>2
  <2>6. g[k] = Onward(t, f, k)
    BY <1>1, <2>2
  <2>7. \A i \in k .. n : Onward(t, g, i) = Onward(t, f, i)
    <3> SUFFICES ASSUME NEW i \in k .. n, Matches(t, i) # {}
                 PROVE  Onward(t, g, i) = Onward(t, f, i)
      BY DEF Onward
    <3>1. i \in 0 .. n
      BY <1>1, <2>2
    <3>2. Longest(t, i) \in i + 1 .. n
      BY <3>1, LongestIs
    <3>3. Longest(t, i) \in k + 1 .. n
      BY <1>1, <2>2, <3>2
    <3> QED BY <2>5, <3>3 DEF Onward
  <2>8. g = [i \in k .. n |-> g[i]]
    OBVIOUS
  <2> HIDE DEF g
  <2>9. \A i \in k .. n : g[i] = Onward(t, g, i)
    <3> SUFFICES ASSUME NEW i \in k .. n PROVE g[i] = Onward(t, f, i)
      BY <2>7
    <3>1. CASE i = k
      BY <2>6, <3>1
    <3>2. CASE i # k
      <4>1. i \in k + 1 .. n
        BY <1>1, <2>2, <3>2
      <4> QED BY <2>4, <2>5, <4>1 DEF RightFrom
    <3> QED BY <3>1, <3>2
  <2>10. RightFrom(t, g, k)
    BY <2>8, <2>9 DEF RightFrom
  <2> QED BY <2>1, <2>10
<1> QED BY <1>3, <1>4

(* The tokens from i on, if its longest match is j, and if it has none.    *)
LEMMA RestIs ==
    ASSUME NEW t \in Text, NEW i \in 0 .. Len(t)
    PROVE  Rest(t)[i] = Onward(t, Rest(t), i)
<1> DEFINE n == Len(t)
<1>1. PICK f : RightFrom(t, f, 0)
  BY SomeRight DEF Text
<1>2. f = [k \in 0 .. n |-> Onward(t, f, k)]
  <2>1. f = [k \in 0 .. n |-> f[k]] /\ \A k \in 0 .. n : f[k] = Onward(t, f, k)
    BY <1>1 DEF RightFrom
  <2> QED BY <2>1
<1>3. \E h : h = [k \in 0 .. n |-> Onward(t, h, k)]
  BY <1>2
<1>4. Rest(t) = CHOOSE h : h = [k \in 0 .. n |-> Onward(t, h, k)]
  BY DEF Rest, Onward
<1>5. Rest(t) = [k \in 0 .. n |-> Onward(t, Rest(t), k)]
  BY <1>3, <1>4, Zenon
<1> QED BY <1>5, Zenon

\* Which word it is.
WordOf(t, i, j) == IF IsIf(t, i, j) THEN "IF" ELSE "IDENT"

\* The tokens of two characters, and the keyword, by their characters.
LEMMA TwoCharacters ==
    ASSUME NEW t \in Text, NEW i \in 0 .. Len(t), NEW j \in i + 1 .. Len(t)
    PROVE  /\ IsAnd(t, i, j) <=> j = i + 2 /\ t[i + 1] = "&" /\ t[i + 2] = "&"
           /\ IsIf(t, i, j) => Only(t, Letter, i, j)
<1>1. i \in Nat /\ j \in Nat /\ i < j
  BY DEF Text
<1>2. ASSUME j = i + 2, NEW S
      PROVE  Only(t, S, i, j) <=> t[i + 1] \in S /\ t[i + 2] \in S
  <2>1. i .. j - 1 = {i, i + 1} /\ i + 1 + 1 = i + 2
    BY <1>1, <1>2
  <2> QED BY <1>1, <2>1 DEF Only
<1>3. IsAnd(t, i, j) <=> j = i + 2 /\ t[i + 1] = "&" /\ t[i + 2] = "&"
  BY <1>2 DEF IsAnd
<1>4. IsIf(t, i, j) => Only(t, Letter, i, j)
  BY <1>2 DEF IsIf, Letter, Alpha
<1> QED BY <1>3, <1>4

(* What a part of a text is, by its first character.                       *)
LEMMA KindByFirst ==
    ASSUME NEW t \in Text, NEW i \in 0 .. Len(t), NEW j \in i + 1 .. Len(t)
    PROVE  /\ t[i + 1] \in Alpha =>
                Kind(t, i, j) = IF Only(t, Letter, i, j) THEN WordOf(t, i, j)
                                ELSE "nothing"
           /\ t[i + 1] \in Digit =>
                Kind(t, i, j) = IF IsInt(t, i, j) THEN "INT_LITERAL" ELSE "nothing"
           /\ t[i + 1] = "&" =>
                Kind(t, i, j) = IF j = i + 2 /\ t[i + 2] = "&" THEN "LOGICAL_AND"
                                ELSE "nothing"
           /\ t[i + 1] \in {"=", "<"} =>
                Kind(t, i, j) = IF j = i + 1 THEN Alone(t[i + 1])
                                ELSE IF j = i + 2 /\ t[i + 2] = "="
                                THEN WithEquals(t[i + 1]) ELSE "nothing"
           /\ t[i + 1] = "/" =>
                Kind(t, i, j) = IF j = i + 1 THEN "SLASH"
                                ELSE IF IsLineComment(t, i, j) \/ IsBlockComment(t, i, j)
                                THEN "none" ELSE "nothing"
           /\ t[i + 1] = "*" => Kind(t, i, j) = IF j = i + 1 THEN "STAR" ELSE "nothing"
           /\ t[i + 1] = "+" => Kind(t, i, j) = IF j = i + 1 THEN "PLUS" ELSE "nothing"
           /\ t[i + 1] \in {"nl", "sp"} =>
                Kind(t, i, j) = IF j = i + 1 THEN "none" ELSE "nothing"
           /\ t[i + 1] = "#" => Kind(t, i, j) = "nothing"
<1> DEFINE c == t[i + 1]
<1>1. i \in Nat /\ j \in Nat /\ i < j /\ i \in i .. j - 1
  BY DEF Text
<1>2. ASSUME NEW S, Only(t, S, i, j) PROVE c \in S
  BY <1>1, <1>2 DEF Only
<1>3. /\ IsIdent(t, i, j) <=> Only(t, Letter, i, j) /\ c \in Alpha
      /\ IsIf(t, i, j) => c = "i" /\ Only(t, Letter, i, j) /\ j # i + 1
  BY <1>1, TwoCharacters DEF IsIdent, IsIf
<1>4. IsInt(t, i, j) => c \in Digit
  BY DEF IsInt, Digit, OctalDigit
<1>5. /\ IsAnd(t, i, j) <=> j = i + 2 /\ c = "&" /\ t[i + 2] = "&"
      /\ IsPair(t, i, j) => j = i + 2 /\ c \in {"=", "<"} /\ t[i + 2] = "="
      /\ j = i + 2 /\ c \in {"=", "<"} /\ t[i + 2] = "=" => IsPair(t, i, j)
      /\ IsSign(t, i, j) <=> j = i + 1 /\ c \in {"/", "*", "+", "=", "<"}
  BY TwoCharacters DEF IsPair, IsSign
<1>6. IsLineComment(t, i, j) => c = "/" /\ j # i + 1
  <2> SUFFICES ASSUME IsLineComment(t, i, j) PROVE c = "/" /\ j # i + 1
    OBVIOUS
  <2>1. i + 2 < j /\ i \in i .. i + 2 - 1
    BY <1>1 DEF IsLineComment
  <2> QED BY <1>1, <2>1 DEF IsLineComment, Only
<1>7. IsBlockComment(t, i, j) => c = "/" /\ j # i + 1
  BY <1>1 DEF IsBlockComment
<1>8. j = i + 2 => j # i + 1
  BY <1>1
<1>9. /\ Sign("/") = "SLASH" /\ Sign("*") = "STAR" /\ Sign("+") = "PLUS"
      /\ \A d \in {"=", "<"} : Sign(d) = Alone(d) /\ Pair(d) = WithEquals(d)
  BY DEF Sign, Pair, Alone, WithEquals
<1> USE <1>3, <1>4, <1>5, <1>6, <1>7 DEF Alpha, Digit, OctalDigit
<1>10. c \in Alpha =>
         Kind(t, i, j) = IF Only(t, Letter, i, j) THEN WordOf(t, i, j) ELSE "nothing"
  BY DEF Kind, WordOf
<1>11. c \in Digit =>
         Kind(t, i, j) = IF IsInt(t, i, j) THEN "INT_LITERAL" ELSE "nothing"
  BY DEF Kind
<1>12. c = "&" =>
         Kind(t, i, j) = IF j = i + 2 /\ t[i + 2] = "&" THEN "LOGICAL_AND"
                         ELSE "nothing"
  BY DEF Kind
<1>13. c \in {"=", "<"} =>
         Kind(t, i, j) = IF j = i + 1 THEN Alone(c)
                         ELSE IF j = i + 2 /\ t[i + 2] = "=" THEN WithEquals(c)
                         ELSE "nothing"
  BY <1>8, <1>9 DEF Kind
<1>14. c = "/" =>
         Kind(t, i, j) = IF j = i + 1 THEN "SLASH"
                         ELSE IF IsLineComment(t, i, j) \/ IsBlockComment(t, i, j)
                         THEN "none" ELSE "nothing"
  BY <1>9 DEF Kind
<1>15. /\ c = "*" => Kind(t, i, j) = IF j = i + 1 THEN "STAR" ELSE "nothing"
       /\ c = "+" => Kind(t, i, j) = IF j = i + 1 THEN "PLUS" ELSE "nothing"
  BY <1>9 DEF Kind
<1>16. /\ c \in {"nl", "sp"} => Kind(t, i, j) = IF j = i + 1 THEN "none" ELSE "nothing"
       /\ c = "#" => Kind(t, i, j) = "nothing"
  BY DEF Kind
<1> QED BY <1>10, <1>11, <1>12, <1>13, <1>14, <1>15, <1>16

\* The same in words that say whether there is a match, and which.
IsMatch(t, i, j) == Kind(t, i, j) # "nothing"
IsOf(t, i, j, kind) == Kind(t, i, j) = kind
Single(t, i) == t[i + 1] \in {"*", "+", "nl", "sp"}

\* The matches, by their first character.
LEMMA MatchByFirst ==
    ASSUME NEW t \in Text, NEW i \in 0 .. Len(t), NEW j \in i + 1 .. Len(t)
    PROVE  /\ t[i + 1] \in Alpha =>
                /\ IsMatch(t, i, j) <=> Only(t, Letter, i, j)
                /\ IsMatch(t, i, j) => IsOf(t, i, j, WordOf(t, i, j))
           /\ t[i + 1] \in Digit =>
                /\ IsMatch(t, i, j) <=> IsInt(t, i, j)
                /\ IsMatch(t, i, j) => IsOf(t, i, j, "INT_LITERAL")
           /\ t[i + 1] = "&" =>
                /\ IsMatch(t, i, j) <=> j = i + 2 /\ t[i + 2] = "&"
                /\ IsMatch(t, i, j) => IsOf(t, i, j, "LOGICAL_AND")
           /\ t[i + 1] \in {"=", "<"} =>
                /\ IsMatch(t, i, j) <=> j = i + 1 \/ (j = i + 2 /\ t[i + 2] = "=")
                /\ j = i + 1 => IsOf(t, i, j, Alone(t[i + 1]))
                /\ IsMatch(t, i, j) /\ j # i + 1 => IsOf(t, i, j, WithEquals(t[i + 1]))
           /\ t[i + 1] = "/" =>
                /\ IsMatch(t, i, j) <=>
                      j = i + 1 \/ IsLineComment(t, i, j) \/ IsBlockComment(t, i, j)
                /\ j = i + 1 => IsOf(t, i, j, "SLASH")
                /\ IsMatch(t, i, j) /\ j # i + 1 => IsOf(t, i, j, "none")
           /\ Single(t, i) => (IsMatch(t, i, j) <=> j = i + 1)
           /\ t[i + 1] = "*" /\ j = i + 1 => IsOf(t, i, j, "STAR")
           /\ t[i + 1] = "+" /\ j = i + 1 => IsOf(t, i, j, "PLUS")
           /\ t[i + 1] \in {"nl", "sp"} /\ j = i + 1 => IsOf(t, i, j, "none")
           /\ t[i + 1] = "#" => ~ IsMatch(t, i, j)
<1>1. t[i + 1] \in Alpha =>
        /\ IsMatch(t, i, j) <=> Only(t, Letter, i, j)
        /\ IsMatch(t, i, j) => IsOf(t, i, j, WordOf(t, i, j))
  BY KindByFirst DEF IsMatch, IsOf, WordOf
<1>2. t[i + 1] \in Digit =>
        /\ IsMatch(t, i, j) <=> IsInt(t, i, j)
        /\ IsMatch(t, i, j) => IsOf(t, i, j, "INT_LITERAL")
  BY KindByFirst DEF IsMatch, IsOf
<1>3. t[i + 1] = "&" =>
        /\ IsMatch(t, i, j) <=> j = i + 2 /\ t[i + 2] = "&"
        /\ IsMatch(t, i, j) => IsOf(t, i, j, "LOGICAL_AND")
  BY KindByFirst DEF IsMatch, IsOf
<1>7. t[i + 1] \in {"=", "<"} =>
        /\ IsMatch(t, i, j) <=> j = i + 1 \/ (j = i + 2 /\ t[i + 2] = "=")
        /\ j = i + 1 => IsOf(t, i, j, Alone(t[i + 1]))
        /\ IsMatch(t, i, j) /\ j # i + 1 => IsOf(t, i, j, WithEquals(t[i + 1]))
  <2>1. \A d : Alone(d) # "nothing" /\ WithEquals(d) # "nothing"
    BY DEF Alone, WithEquals
  <2> QED BY <2>1, KindByFirst DEF IsMatch, IsOf
<1>4. t[i + 1] = "/" =>
        /\ IsMatch(t, i, j) <=>
              j = i + 1 \/ IsLineComment(t, i, j) \/ IsBlockComment(t, i, j)
        /\ j = i + 1 => IsOf(t, i, j, "SLASH")
        /\ IsMatch(t, i, j) /\ j # i + 1 => IsOf(t, i, j, "none")
  BY KindByFirst DEF IsMatch, IsOf
<1>5. /\ Single(t, i) => (IsMatch(t, i, j) <=> j = i + 1)
      /\ t[i + 1] = "#" => ~ IsMatch(t, i, j)
  BY KindByFirst DEF IsMatch, Single
<1>6. /\ t[i + 1] = "*" /\ j = i + 1 => IsOf(t, i, j, "STAR")
      /\ t[i + 1] = "+" /\ j = i + 1 => IsOf(t, i, j, "PLUS")
      /\ t[i + 1] \in {"nl", "sp"} /\ j = i + 1 => IsOf(t, i, j, "none")
  BY KindByFirst DEF IsOf
<1> QED BY <1>1, <1>2, <1>3, <1>4, <1>5, <1>6, <1>7

\* j ends the longest match from i on.
EndsAt(t, i, j) == j \in Matches(t, i) /\ \A n \in Matches(t, i) : n <= j
Takes(t, i, j, kind) == EndsAt(t, i, j) /\ IsOf(t, i, j, kind)

\* The rest of a text from i on is what is found there and the rest behind it.
LEMMA RestBehind ==
    ASSUME NEW t \in Text, NEW i \in 0 .. Len(t), NEW j, EndsAt(t, i, j)
    PROVE  Rest(t)[i] = Found(t, i, j) \o Rest(t)[j]
<1>1. Matches(t, i) # {} /\ j \in Matches(t, i) /\ \A n \in Matches(t, i) : n <= j
  BY DEF EndsAt
<1>2. j \in i + 1 .. Len(t) /\ Len(t) \in Nat
  BY <1>1, MatchesRange DEF Text
<1>3. /\ Longest(t, i) \in Matches(t, i) /\ Longest(t, i) \in i + 1 .. Len(t)
      /\ \A n \in Matches(t, i) : n <= Longest(t, i)
  BY <1>1, LongestIs
<1>4. Longest(t, i) <= j /\ j <= Longest(t, i)
  BY <1>1, <1>3
<1>5. Longest(t, i) = j
  BY <1>2, <1>3, <1>4
<1> QED BY <1>1, <1>5, RestIs DEF Onward

\* Nothing longer is a match.
LEMMA Furthest ==
    ASSUME NEW t \in Text, NEW i \in 0 .. Len(t), NEW j \in i + 1 .. Len(t),
           IsMatch(t, i, j), NEW kind, IsOf(t, i, j, kind),
           \A n \in j + 1 .. Len(t) : ~ IsMatch(t, i, n)
    PROVE  Takes(t, i, j, kind)
<1>1. Len(t) \in Nat
  BY DEF Text
<1>2. \A n \in Matches(t, i) : n \in i + 1 .. Len(t) /\ IsMatch(t, i, n)
  BY Zenon DEF Matches, IsMatch
<1>3. j \in Matches(t, i)
  BY Zenon DEF Matches, IsMatch
<1>4. \A n \in i + 1 .. Len(t) : n \in j + 1 .. Len(t) \/ n <= j
  BY <1>1
<1>5. \A n \in Matches(t, i) : n <= j
  BY <1>2, <1>4, Zenon
<1> QED BY <1>3, <1>5, Zenon DEF EndsAt, Takes

\* A word goes as far as there are letters and digits.
LEMMA WordEnds ==
    ASSUME NEW t \in Text, NEW i \in 0 .. Len(t), NEW j \in i + 1 .. Len(t),
           t[i + 1] \in Alpha, Only(t, Letter, i, j),
           j = Len(t) \/ t[j + 1] \notin Letter
    PROVE  Takes(t, i, j, WordOf(t, i, j))
<1>1. Len(t) \in Nat
  BY DEF Text
<1>2. IsMatch(t, i, j) /\ IsOf(t, i, j, WordOf(t, i, j))
  BY MatchByFirst
<1>3. ASSUME NEW n \in j + 1 .. Len(t) PROVE ~ IsMatch(t, i, n)
  <2>1. n \in i + 1 .. Len(t) /\ j \in i .. n - 1 /\ j # Len(t)
    BY <1>1
  <2>2. ~ Only(t, Letter, i, n)
    BY <2>1 DEF Only
  <2> QED BY <2>1, <2>2, MatchByFirst
<1> QED BY <1>2, <1>3, Furthest

\* A number goes as far as its digits.
LEMMA OctalEnds ==
    ASSUME NEW t \in Text, NEW i \in 0 .. Len(t), NEW j \in i + 1 .. Len(t),
           t[i + 1] = "0", Only(t, OctalDigit, i, j),
           \/ j = Len(t)
           \/ t[j + 1] \notin OctalDigit /\ t[j + 1] # "x"
           \/ t[j + 1] = "x" /\ (j # i + 1 \/ j + 1 = Len(t) \/ t[j + 2] \notin HexDigit)
    PROVE  Takes(t, i, j, "INT_LITERAL")
<1>1. Len(t) \in Nat /\ i \in i .. j - 1 /\ t[i + 1] \in Digit
  BY DEF Text, Digit, OctalDigit
<1>2. IsInt(t, i, j)
  BY DEF IsInt
<1>3. IsMatch(t, i, j) /\ IsOf(t, i, j, "INT_LITERAL")
  BY <1>1, <1>2, MatchByFirst
<1>4. ASSUME NEW n \in j + 1 .. Len(t) PROVE ~ IsMatch(t, i, n)
  <2>1. n \in i + 1 .. Len(t) /\ j \in i .. n - 1 /\ j # Len(t)
    BY <1>1
  <2>2. ~ Only(t, OctalDigit, i, n)
    BY <2>1 DEF Only, OctalDigit
  <2>3. ~ (i + 2 < n /\ t[i + 2] = "x" /\ Only(t, HexDigit, i + 2, n))
    <3> SUFFICES ASSUME i + 2 < n, t[i + 2] = "x", t[i + 3] \in HexDigit PROVE FALSE
      <4>1. i + 2 < n => i + 2 \in i + 2 .. n - 1 /\ i + 2 + 1 = i + 3
        BY <1>1
      <4> QED BY <4>1 DEF Only
    <3>1. CASE j = i + 1
      <4>1. j + 1 = i + 2 /\ j + 2 = i + 3 /\ j + 1 # Len(t)
        BY <1>1, <2>1, <3>1
      <4> QED BY <2>1, <3>1, <4>1
    <3>2. CASE j # i + 1
      <4>1. i + 1 \in i .. j - 1 /\ i + 1 + 1 = i + 2
        BY <1>1, <3>2
      <4> QED BY <4>1 DEF Only, OctalDigit
    <3> QED BY <3>1, <3>2
  <2>4. ~ IsInt(t, i, n)
    BY <2>2, <2>3 DEF IsInt
  <2> QED BY <1>1, <2>1, <2>4, MatchByFirst
<1> QED BY <1>3, <1>4, Furthest

\* A decimal number too.
LEMMA DecimalEnds ==
    ASSUME NEW t \in Text, NEW i \in 0 .. Len(t), NEW j \in i + 1 .. Len(t),
           t[i + 1] \in {"1", "8"}, Only(t, Digit, i, j),
           j = Len(t) \/ t[j + 1] \notin Digit
    PROVE  Takes(t, i, j, "INT_LITERAL")
<1>1. Len(t) \in Nat /\ t[i + 1] \in Digit
  BY DEF Text, Digit, OctalDigit
<1>2. IsInt(t, i, j)
  BY DEF IsInt
<1>3. IsMatch(t, i, j) /\ IsOf(t, i, j, "INT_LITERAL")
  BY <1>1, <1>2, MatchByFirst
<1>4. ASSUME NEW n \in j + 1 .. Len(t) PROVE ~ IsMatch(t, i, n)
  <2>1. n \in i + 1 .. Len(t) /\ j \in i .. n - 1 /\ j # Len(t)
    BY <1>1
  <2>2. ~ Only(t, Digit, i, n)
    BY <2>1 DEF Only
  <2>3. ~ IsInt(t, i, n)
    BY <2>2 DEF IsInt
  <2> QED BY <1>1, <2>1, <2>3, MatchByFirst
<1> QED BY <1>3, <1>4, Furthest

\* So does one with a mark.
LEMMA HexEnds ==
    ASSUME NEW t \in Text, NEW i \in 0 .. Len(t), NEW j \in i + 1 .. Len(t),
           t[i + 1] = "0", t[i + 2] = "x", i + 2 < j, Only(t, HexDigit, i + 2, j),
           j = Len(t) \/ t[j + 1] \notin HexDigit
    PROVE  Takes(t, i, j, "INT_LITERAL")
<1>1. /\ Len(t) \in Nat /\ i + 1 \in i .. j - 1 /\ i + 1 + 1 = i + 2
      /\ t[i + 1] \in Digit
  BY DEF Text, Digit, OctalDigit
<1>a. IsInt(t, i, j)
  BY DEF IsInt
<1>2. IsMatch(t, i, j) /\ IsOf(t, i, j, "INT_LITERAL")
  BY <1>1, <1>a, MatchByFirst
<1>3. ASSUME NEW n \in j + 1 .. Len(t) PROVE ~ IsMatch(t, i, n)
  <2>1. /\ n \in i + 1 .. Len(t) /\ j \in i + 2 .. n - 1 /\ j # Len(t)
        /\ i + 1 \in i .. n - 1
    BY <1>1
  <2>2. ~ Only(t, OctalDigit, i, n)
    BY <1>1, <2>1 DEF Only, OctalDigit
  <2>3. ~ Only(t, HexDigit, i + 2, n)
    BY <2>1 DEF Only
  <2>4. ~ IsInt(t, i, n)
    BY <2>2, <2>3 DEF IsInt
  <2> QED BY <1>1, <2>1, <2>4, MatchByFirst
<1> QED BY <1>2, <1>3, Furthest

\* Two ampersands are a token.
LEMMA AmpEnds ==
    ASSUME NEW t \in Text, NEW i \in 0 .. Len(t), i + 2 <= Len(t),
           t[i + 1] = "&", t[i + 2] = "&"
    PROVE  Takes(t, i, i + 2, "LOGICAL_AND")
<1>1. Len(t) \in Nat
  BY DEF Text
<1>2. i + 2 \in i + 1 .. Len(t)
  BY <1>1
<1>3. IsMatch(t, i, i + 2) /\ IsOf(t, i, i + 2, "LOGICAL_AND")
  BY <1>2, MatchByFirst
<1>4. \A n \in i + 2 + 1 .. Len(t) : n \in i + 1 .. Len(t) /\ n # i + 2
  BY <1>1
<1>5. \A n \in i + 2 + 1 .. Len(t) : ~ IsMatch(t, i, n)
  BY <1>4, MatchByFirst
<1> QED BY <1>2, <1>3, <1>5, Furthest

\* One is nothing.
LEMMA AmpAlone ==
    ASSUME NEW t \in Text, NEW i \in 0 .. Len(t), i < Len(t), t[i + 1] = "&",
           i + 1 = Len(t) \/ t[i + 2] # "&"
    PROVE  Matches(t, i) = {}
<1> SUFFICES ASSUME NEW n \in Matches(t, i) PROVE FALSE
  OBVIOUS
<1>1. Len(t) \in Nat
  BY DEF Text
<1>2. n \in i + 1 .. Len(t) /\ IsMatch(t, i, n)
  BY Zenon DEF Matches, IsMatch
<1>3. n = i + 2 /\ t[i + 2] = "&"
  BY <1>2, MatchByFirst
<1> QED BY <1>1, <1>2, <1>3

\* A sign with an equals sign behind it, and one without.
LEMMA PairEnds ==
    ASSUME NEW t \in Text, NEW i \in 0 .. Len(t), i + 2 <= Len(t),
           t[i + 1] \in {"=", "<"}, t[i + 2] = "="
    PROVE  Takes(t, i, i + 2, WithEquals(t[i + 1]))
<1>1. Len(t) \in Nat
  BY DEF Text
<1>2. i + 2 \in i + 1 .. Len(t) /\ i + 2 # i + 1
  BY <1>1
<1>3. IsMatch(t, i, i + 2) /\ IsOf(t, i, i + 2, WithEquals(t[i + 1]))
  BY <1>2, MatchByFirst
<1>4. \A n \in i + 2 + 1 .. Len(t) : n \in i + 1 .. Len(t) /\ n # i + 1 /\ n # i + 2
  BY <1>1
<1>5. \A n \in i + 2 + 1 .. Len(t) : ~ IsMatch(t, i, n)
  BY <1>4, MatchByFirst
<1> QED BY <1>2, <1>3, <1>5, Furthest

\* The other one.
LEMMA HalfEnds ==
    ASSUME NEW t \in Text, NEW i \in 0 .. Len(t), i < Len(t),
           t[i + 1] \in {"=", "<"}, i + 1 = Len(t) \/ t[i + 2] # "="
    PROVE  Takes(t, i, i + 1, Alone(t[i + 1]))
<1>1. Len(t) \in Nat /\ i + 1 \in i + 1 .. Len(t)
  BY DEF Text
<1>2. IsMatch(t, i, i + 1) /\ IsOf(t, i, i + 1, Alone(t[i + 1]))
  BY <1>1, MatchByFirst
<1>3. \A n \in i + 1 + 1 .. Len(t) :
        n \in i + 1 .. Len(t) /\ n # i + 1 /\ (n = i + 2 => i + 1 # Len(t))
  BY <1>1
<1>4. \A n \in i + 1 + 1 .. Len(t) : ~ IsMatch(t, i, n)
  BY <1>3, MatchByFirst
<1> QED BY <1>1, <1>2, <1>4, Furthest

\* What begins no pattern.
LEMMA NothingBegins ==
    ASSUME NEW t \in Text, NEW i \in 0 .. Len(t), t[i + 1] = "#"
    PROVE  Matches(t, i) = {}
<1> SUFFICES ASSUME NEW n \in Matches(t, i) PROVE FALSE
  OBVIOUS
<1>1. n \in i + 1 .. Len(t) /\ IsMatch(t, i, n)
  BY Zenon DEF Matches, IsMatch
<1> QED BY <1>1, MatchByFirst

\* What is one character long.
LEMMA OneEnds ==
    ASSUME NEW t \in Text, NEW i \in 0 .. Len(t), i < Len(t), Single(t, i)
    PROVE  /\ t[i + 1] = "*" => Takes(t, i, i + 1, "STAR")
           /\ t[i + 1] = "+" => Takes(t, i, i + 1, "PLUS")
           /\ t[i + 1] \in {"nl", "sp"} => Takes(t, i, i + 1, "none")
<1>1. Len(t) \in Nat /\ i + 1 \in i + 1 .. Len(t)
  BY DEF Text
<1>2. /\ IsMatch(t, i, i + 1)
      /\ t[i + 1] = "*" => IsOf(t, i, i + 1, "STAR")
      /\ t[i + 1] = "+" => IsOf(t, i, i + 1, "PLUS")
      /\ t[i + 1] \in {"nl", "sp"} => IsOf(t, i, i + 1, "none")
  BY <1>1, MatchByFirst DEF Single
<1>3. \A n \in i + 1 + 1 .. Len(t) : n \in i + 1 .. Len(t) /\ n # i + 1
  BY <1>1
<1>4. \A n \in i + 1 + 1 .. Len(t) : ~ IsMatch(t, i, n)
  BY <1>3, MatchByFirst
<1> QED BY <1>1, <1>2, <1>4, Furthest

\* A slash is alone where no comment begins.
LEMMA SlashAlone ==
    ASSUME NEW t \in Text, NEW i \in 0 .. Len(t), i < Len(t), t[i + 1] = "/",
           \A n \in i + 1 .. Len(t) :
               ~ IsLineComment(t, i, n) /\ ~ IsBlockComment(t, i, n)
    PROVE  Takes(t, i, i + 1, "SLASH")
<1>1. Len(t) \in Nat /\ i + 1 \in i + 1 .. Len(t)
  BY DEF Text
<1>2. IsMatch(t, i, i + 1) /\ IsOf(t, i, i + 1, "SLASH")
  BY <1>1, MatchByFirst
<1>3. \A n \in i + 1 + 1 .. Len(t) : n \in i + 1 .. Len(t) /\ n # i + 1
  BY <1>1
<1>4. \A n \in i + 1 + 1 .. Len(t) : ~ IsMatch(t, i, n)
  BY <1>3, MatchByFirst
<1> QED BY <1>1, <1>2, <1>4, Furthest

\* What the second character of a comment is.
LEMMA SecondOfComment ==
    ASSUME NEW t \in Text, NEW i \in 0 .. Len(t), NEW j \in i + 1 .. Len(t)
    PROVE  /\ IsLineComment(t, i, j) =>
                /\ t[i + 1] = "/" /\ t[i + 2] = "/" /\ i + 2 < j /\ t[j] = "nl"
                /\ \A k \in i .. j - 2 : t[k + 1] # "nl"
           /\ IsBlockComment(t, i, j) =>
                /\ t[i + 1] = "/" /\ t[i + 2] = "*" /\ i + 4 <= j /\ Closes(t, j)
                /\ \A k \in i + 4 .. j - 1 : ~ Closes(t, k)
<1>1. i \in Nat /\ i \in i .. i + 2 - 1 /\ i + 1 \in i .. i + 2 - 1 /\ i + 1 + 1 = i + 2
  BY DEF Text
<1>2. Only(t, {"/"}, i, i + 2) => t[i + 1] = "/" /\ t[i + 2] = "/"
  BY <1>1 DEF Only
<1> QED BY <1>2 DEF IsLineComment, IsBlockComment

\* A line comment goes up to the first end of a line.
LEMMA LineEnds ==
    ASSUME NEW t \in Text, NEW i \in 0 .. Len(t), NEW j \in i + 1 .. Len(t),
           IsLineComment(t, i, j)
    PROVE  Takes(t, i, j, "none")
<1>1. Len(t) \in Nat
  BY DEF Text
<1>2. t[i + 1] = "/" /\ t[i + 2] = "/" /\ i + 2 < j /\ t[j] = "nl"
  BY SecondOfComment
<1>3. IsMatch(t, i, j) /\ IsOf(t, i, j, "none")
  <2>1. j # i + 1
    BY <1>1, <1>2
  <2> QED BY <1>2, <2>1, MatchByFirst
<1>4. ASSUME NEW n \in j + 1 .. Len(t) PROVE ~ IsMatch(t, i, n)
  <2>1. n \in i + 1 .. Len(t) /\ n # i + 1 /\ j - 1 \in i .. n - 2 /\ j - 1 + 1 = j
    BY <1>1, <1>2
  <2>2. ~ IsLineComment(t, i, n)
    BY <1>2, <2>1, SecondOfComment
  <2>3. ~ IsBlockComment(t, i, n)
    BY <1>2, <2>1, SecondOfComment
  <2> QED BY <1>2, <2>1, <2>2, <2>3, MatchByFirst
<1> QED BY <1>3, <1>4, Furthest

\* A block comment goes up to where it is first closed.
LEMMA BlockEnds ==
    ASSUME NEW t \in Text, NEW i \in 0 .. Len(t), NEW j \in i + 1 .. Len(t),
           IsBlockComment(t, i, j)
    PROVE  Takes(t, i, j, "none")
<1>1. Len(t) \in Nat
  BY DEF Text
<1>2. t[i + 1] = "/" /\ t[i + 2] = "*" /\ i + 4 <= j /\ Closes(t, j)
  BY SecondOfComment
<1>3. IsMatch(t, i, j) /\ IsOf(t, i, j, "none")
  <2>1. j # i + 1
    BY <1>1, <1>2
  <2> QED BY <1>2, <2>1, MatchByFirst
<1>4. ASSUME NEW n \in j + 1 .. Len(t) PROVE ~ IsMatch(t, i, n)
  <2>1. n \in i + 1 .. Len(t) /\ n # i + 1 /\ j \in i + 4 .. n - 1
    BY <1>1, <1>2
  <2>2. ~ IsLineComment(t, i, n)
    BY <1>2, <2>1, SecondOfComment
  <2>3. ~ IsBlockComment(t, i, n)
    BY <1>2, <2>1, SecondOfComment
  <2> QED BY <1>2, <2>1, <2>2, <2>3, MatchByFirst
<1> QED BY <1>3, <1>4, Furthest

-----------------------------------------------------------------------------

(* What the scanner has read of the match that it is in, from b up to n.   *)
Seen(t, state, b, n) ==
    /\ state \in WordState =>
           /\ Only(t, Letter, b, n) /\ t[b + 1] \in Alpha
           /\ state = "wordi" <=> n = b + 1 /\ t[b + 1] = "i"
           /\ state = "wordif" <=> IsIf(t, b, n)
    /\ state = "zero" => n = b + 1 /\ t[b + 1] = "0"
    /\ state = "octal" => b + 1 < n /\ t[b + 1] = "0" /\ Only(t, OctalDigit, b, n)
    /\ state = "decimal" => t[b + 1] \in {"1", "8"} /\ Only(t, Digit, b, n)
    /\ state = "half" => n = b + 1 /\ t[b + 1] \in {"=", "<"}
    /\ state = "hexmark" => n = b + 2 /\ t[b + 1] = "0" /\ t[b + 2] = "x"
    /\ state = "hex" =>
           t[b + 1] = "0" /\ t[b + 2] = "x" /\ Only(t, HexDigit, b + 2, n)
    /\ state = "slash" => n = b + 1 /\ t[b + 1] = "/"
    /\ state = "amp" => n = b + 1 /\ t[b + 1] = "&"
    /\ state = "line" =>
           /\ b + 2 <= n /\ t[b + 1] = "/" /\ t[b + 2] = "/"
           /\ \A k \in b .. n - 1 : t[k + 1] # "nl"
    /\ state \in {"block", "blockstar"} =>
           /\ b + 2 <= n /\ t[b + 1] = "/" /\ t[b + 2] = "*"
           /\ \A k \in b + 4 .. n : ~ Closes(t, k)
           /\ state = "blockstar" <=> b + 3 <= n /\ t[n] = "*"

(* Where the rest of the text is to be read from.                          *)
Here == IF asked /\ cs # "start" THEN ts ELSE p

Over == tokens # <<>> /\ tokens[Len(tokens)].kind = "EOF"

(* What has been returned and what the rest of the text is to give is all  *)
(* that the text denotes, unless the parser has refused what it was given. *)
Reading ==
    /\ asked => Seen(source, cs, ts, p)
    /\ Over => Denoted(source) = Front(tokens)
    /\ ~Over => Here \in 0 .. pe /\ Denoted(source) = tokens \o Rest(source)[Here]

\* A stretch of text grows by a character.
LEMMA OnlyMore ==
    ASSUME NEW t, NEW S, NEW i \in Nat, NEW j \in Nat, t[j + 1] \in S,
           i = j \/ Only(t, S, i, j)
    PROVE  Only(t, S, i, j + 1)
<1>1. \A k \in i .. j : k = j \/ k \in i .. j - 1
  OBVIOUS
<1> QED BY <1>1 DEF Only

\* What is found is a sequence of tokens.
LEMMA FoundType ==
    ASSUME NEW t \in Text, NEW i \in 0 .. Len(t), NEW j \in Matches(t, i)
    PROVE  Found(t, i, j) \in Seq(Token)
<1>1. Kind(t, i, j) \in Kinds \cup {"none"}
  <2>1. Kind(t, i, j) # "nothing"
    BY Zenon DEF Matches
  <2>2. \A c \in {"/", "*", "+", "=", "<"} : Sign(c) \in Kinds
    BY DEF Sign, Kinds
  <2>3. \A c \in {"=", "<"} : Pair(c) \in Kinds
    BY DEF Pair, Kinds
  <2>4. /\ IsSign(t, i, j) => Sign(t[i + 1]) \in Kinds
        /\ IsPair(t, i, j) => Pair(t[i + 1]) \in Kinds
    BY <2>2, <2>3 DEF IsSign, IsPair
  <2>5. {"IF", "IDENT", "INT_LITERAL", "LOGICAL_AND"} \subseteq Kinds
    BY DEF Kinds
  <2> QED BY <2>1, <2>4, <2>5 DEF Kind
<1>2. i \in Int /\ j \in Int
  BY MatchesRange DEF Text
<1>3. Kind(t, i, j) # "none" =>
        [kind |-> Kind(t, i, j), begin |-> i, end |-> j] \in Token
  BY <1>1, <1>2 DEF Token
<1> HIDE DEF Token
<1>4. \A x \in Token : <<x>> \in Seq(Token)
  OBVIOUS
<1> QED BY <1>3, <1>4, EmptySeq, Zenon DEF Found

\* The rest of a text is a sequence of tokens.
LEMMA RestType ==
    ASSUME NEW t \in Text, NEW i \in 0 .. Len(t)
    PROVE  Rest(t)[i] \in Seq(Token)
<1> DEFINE bad == {k \in 0 .. Len(t) : Rest(t)[k] \notin Seq(Token)}
<1>1. Len(t) \in Nat
  BY DEF Text
<1>2. CASE bad = {}
  BY <1>2
<1>3. CASE bad # {}
  <2>1. PICK k \in bad : \A y \in bad : y <= k
    BY <1>1, <1>3, Greatest
  <2>2. Rest(t)[k] = Onward(t, Rest(t), k)
    BY <2>1, RestIs
  <2>3. CASE Matches(t, k) = {}
    BY <2>1, <2>2, <2>3, EmptySeq, Zenon DEF Onward
  <2>4. CASE Matches(t, k) # {}
    <3>1. Longest(t, k) \in Matches(t, k) /\ Longest(t, k) \in k + 1 .. Len(t)
      BY <2>1, <2>4, LongestIs
    <3>2. Longest(t, k) \in 0 .. Len(t) /\ ~ (Longest(t, k) <= k)
      BY <1>1, <2>1, <3>1
    <3>3. Rest(t)[Longest(t, k)] \in Seq(Token)
      BY <2>1, <3>2, Zenon
    <3>4. Found(t, k, Longest(t, k)) \in Seq(Token)
      BY <2>1, <3>1, FoundType, Zenon
    <3>5. Onward(t, Rest(t), k) \in Seq(Token)
      BY <2>4, <3>3, <3>4, ConcatProperties, Zenon DEF Onward
    <3> QED BY <2>1, <2>2, <3>5, Zenon
  <2> QED BY <2>3, <2>4
<1> QED BY <1>2, <1>3

\* One more at the end of the first is one more at the head of the second.
LEMMA AppendThen ==
    ASSUME NEW S, NEW s \in Seq(S), NEW x \in S, NEW u \in Seq(S)
    PROVE  s \o (<<x>> \o u) = Append(s, x) \o u
<1>1. <<x>> \in Seq(S)
  OBVIOUS
<1>2. (s \o <<x>>) \o u = s \o (<<x>> \o u)
  BY <1>1, ConcatAssociative
<1> QED BY <1>2, AppendIsConcat

\* The rest behind white space.
LEMMA RestSkipped ==
    ASSUME NEW t \in Text, NEW i \in 0 .. Len(t), NEW j, Takes(t, i, j, "none")
    PROVE  Rest(t)[i] = Rest(t)[j] /\ j \in i + 1 .. Len(t)
<1>1. j \in i + 1 .. Len(t)
  BY MatchesRange, Zenon DEF Takes, EndsAt
<1>2. Rest(t)[j] \in Seq(Token)
  <2>1. j \in 0 .. Len(t)
    BY <1>1 DEF Text
  <2> QED BY <2>1, RestType
<1>3. Found(t, i, j) = <<>>
  BY Zenon DEF Found, Takes, IsOf
<1>4. Rest(t)[i] = <<>> \o Rest(t)[j]
  BY <1>3, RestBehind, Zenon DEF Takes
<1> QED BY <1>1, <1>2, <1>4, ConcatEmptySeq, Zenon

\* The rest behind a token.
LEMMA RestReturned ==
    ASSUME NEW t \in Text, NEW i \in 0 .. Len(t), NEW j, NEW kind \in Kinds,
           Takes(t, i, j, kind), NEW s \in Seq(Token)
    PROVE  LET token == [kind |-> kind, begin |-> i, end |-> j]
           IN  /\ s \o Rest(t)[i] = Append(s, token) \o Rest(t)[j]
               /\ token \in Token
               /\ j \in i + 1 .. Len(t)
<1> DEFINE token == [kind |-> kind, begin |-> i, end |-> j]
<1>1. j \in i + 1 .. Len(t)
  BY MatchesRange, Zenon DEF Takes, EndsAt
<1>2. Rest(t)[j] \in Seq(Token)
  <2>1. j \in 0 .. Len(t)
    BY <1>1 DEF Text
  <2> QED BY <2>1, RestType
<1>3. token \in Token
  BY <1>1 DEF Token, Kinds, Text
<1>4. kind # "none"
  BY DEF Kinds
<1>5. Found(t, i, j) = <<token>>
  BY <1>4, Zenon DEF Found, Takes, IsOf
<1> HIDE DEF token
<1>6. Rest(t)[i] = <<token>> \o Rest(t)[j]
  BY <1>5, RestBehind, Zenon DEF Takes
<1>7. s \o (<<token>> \o Rest(t)[j]) = Append(s, token) \o Rest(t)[j]
  <2>1. \A x \in Token, r \in Seq(Token) :
            s \o (<<x>> \o r) = Append(s, x) \o r
    BY AppendThen
  <2> QED BY <1>2, <1>3, <2>1
<1> QED BY <1>1, <1>3, <1>6, <1>7, Zenon DEF token

(* One lemma again for each way in which exec() goes on, from b.           *)
LEMMA ReturnReads ==
    ASSUME TypeOK, Reading, ~Over, NEW b, b = Here, NEW e, NEW kind \in Kinds,
           Takes(source, b, e, kind), Return(kind, b, e)
    PROVE  Reading'
<1> DEFINE token == [kind |-> kind, begin |-> b, end |-> e]
<1>1. /\ source \in Text /\ b \in 0 .. Len(source) /\ tokens \in Seq(Token)
      /\ Denoted(source) = tokens \o Rest(source)[b]
  BY DEF Reading, TypeOK, Text, pe
<1>2. /\ tokens \o Rest(source)[b] = Append(tokens, token) \o Rest(source)[e]
      /\ token \in Token /\ e \in b + 1 .. Len(source)
  BY <1>1, RestReturned
<1>3. /\ source' = source /\ asked' = FALSE /\ p' = e /\ pe' = pe
      /\ tokens' = Append(tokens, token)
  BY DEF Return, pe
<1>4. token.kind # "EOF"
  BY DEF Kinds
<1> HIDE DEF token
<1>5. ~Over'
  <2>1. /\ Len(tokens') = Len(tokens) + 1 /\ Len(tokens) \in Nat
        /\ tokens'[Len(tokens) + 1] = token
    BY <1>1, <1>2, <1>3, AppendProperties
  <2> QED BY <1>4, <2>1 DEF Over
<1>6. Here' = e
  BY <1>3 DEF Here
<1>7. e \in 0 .. pe
  BY <1>1, <1>2 DEF pe, Text
<1>8. Denoted(source)' = tokens' \o Rest(source)'[e]
  BY <1>1, <1>2, <1>3
<1> QED BY <1>3, <1>5, <1>6, <1>7, <1>8 DEF Reading

\* White space and comments.
LEMMA SkipReads ==
    ASSUME TypeOK, Reading, ~Over, NEW b, b = Here,
           Takes(source, b, p + 1, "none"), Skip
    PROVE  Reading'
<1>1. /\ source \in Text /\ b \in 0 .. Len(source) /\ p \in Nat
      /\ Denoted(source) = tokens \o Rest(source)[b]
  BY SourceType DEF Reading, TypeOK, Text, pe
<1>2. Rest(source)[b] = Rest(source)[p + 1] /\ p + 1 \in b + 1 .. Len(source)
  BY <1>1, RestSkipped
<1>3. /\ source' = source /\ cs' = "start" /\ p' = p + 1 /\ pe' = pe
      /\ tokens' = tokens
  BY DEF Skip, pe
<1>4. ~Over' /\ Here' = p + 1
  BY <1>3 DEF Over, Here
<1>5. p + 1 \in 0 .. pe
  BY <1>1, <1>2 DEF pe
<1>6. Denoted(source)' = tokens' \o Rest(source)'[p + 1]
  BY <1>1, <1>2, <1>3
<1>7. Seen(source, cs, ts, p)'
  BY <1>3 DEF Seen, WordState
<1> QED BY <1>3, <1>4, <1>5, <1>6, <1>7 DEF Reading

\* Going on to another state.
LEMMA ShiftReads ==
    ASSUME TypeOK, Reading, ~Over, asked, NEW b, b = Here, NEW match,
           NEW state \in State \ {"start", "error"},
           Seen(source, state, b, p + 1), Shift(state, b, match)
    PROVE  Reading'
<1>1. Here \in 0 .. pe /\ Denoted(source) = tokens \o Rest(source)[b]
  BY DEF Reading
<1>2. /\ source' = source /\ cs' = state /\ p' = p + 1 /\ pe' = pe /\ ts' = b
      /\ tokens' = tokens /\ asked' = asked
  BY DEF Shift, pe
<1>3. ~Over'
  BY <1>2 DEF Over
<1>4. Here' = b
  BY <1>2 DEF Here
<1>5. Denoted(source)' = tokens' \o Rest(source)'[b]
  BY <1>1, <1>2
<1>6. Seen(source, cs, ts, p)'
  BY <1>2
<1> QED BY <1>1, <1>2, <1>3, <1>4, <1>5, <1>6 DEF Reading

\* Having no answer.
LEMMA GiveUpReads ==
    ASSUME TypeOK, Reading, ~Over, Matches(source, Here) = {},
           NEW state, NEW start, GiveUp(state, start)
    PROVE  Reading'
<1> DEFINE token == [kind |-> "EOF", begin |-> start, end |-> te]
<1>1. /\ source \in Text /\ Here \in 0 .. Len(source) /\ tokens \in Seq(Token)
      /\ Denoted(source) = tokens \o Rest(source)[Here]
  BY DEF Reading, TypeOK, Text, pe
<1>2. Rest(source)[Here] = <<>>
  BY <1>1, RestIs, Zenon DEF Onward
<1>3. Denoted(source) = tokens
  BY <1>1, <1>2, ConcatEmptySeq
<1>4. source' = source /\ tokens' = Append(tokens, token) /\ asked' = FALSE
  BY DEF GiveUp
<1>5. token.kind = "EOF"
  OBVIOUS
<1> HIDE DEF token
<1>6. /\ Len(tokens') = Len(tokens) + 1 /\ Len(tokens) \in Nat
      /\ tokens'[Len(tokens) + 1] = token
  BY <1>1, <1>4
<1>7. Over'
  BY <1>5, <1>6 DEF Over
<1>8. Front(tokens') = tokens
  BY <1>1, <1>4, <1>6 DEF Front
<1>9. Denoted(source)' = Denoted(source)
  BY <1>4
<1> QED BY <1>3, <1>4, <1>7, <1>8, <1>9 DEF Reading

\* What exec() starts from.
Reads == TypeOK /\ Scanning /\ Reading /\ asked /\ p <= pe

LEMMA ReadsFrom ==
    ASSUME Reads
    PROVE  /\ ~Over /\ ~Refused /\ source \in Text
           /\ p \in Nat /\ pe \in Nat /\ p <= pe /\ Len(source) = pe
           /\ Seen(source, cs, ts, p) /\ Says(cs, ts, te, p)
           /\ Here = (IF cs = "start" THEN p ELSE ts)
           /\ Here \in 0 .. Len(source)
<1>1. ~Over
  <2>1. Over => Refused
    <3>1. tokens \in Seq(Token)
      BY DEF Reads, TypeOK
    <3> QED BY <3>1 DEF Over, Refused
  <2> QED BY <2>1 DEF Reads, Scanning
<1> QED BY <1>1, SourceType DEF Reads, Reading, Scanning, TypeOK, Here, Text

\* A first character.
LEMMA BeginReads ==
    ASSUME Reads, Begin
    PROVE  Reading'
<1>1. /\ TypeOK /\ Reading /\ ~Over /\ asked /\ p < Len(source) /\ Here = p
      /\ p \in Nat /\ p \in 0 .. Len(source) /\ source \in Text
      /\ Len(source) \in Nat
  BY ReadsFrom DEF Reads, Begin
<1>2. /\ At(p) \in {"nl", "sp"} => Takes(source, p, p + 1, "none")
      /\ At(p) = "*" => Takes(source, p, p + 1, "STAR")
      /\ At(p) = "+" => Takes(source, p, p + 1, "PLUS")
  BY <1>1, OneEnds DEF At, Single
<1>3. /\ At(p) = "/" => Seen(source, "slash", p, p + 1)
      /\ At(p) \in {"f", "x"} => Seen(source, "word", p, p + 1)
      /\ At(p) = "i" => Seen(source, "wordi", p, p + 1)
  <2>1. At(p) \in Alpha => Only(source, Letter, p, p + 1)
    BY <1>1, OnlyMore DEF At, Letter
  <2>2. ~ IsIf(source, p, p + 1)
    BY <1>1 DEF IsIf
  <2> QED BY <1>1, <2>1, <2>2 DEF Seen, At, WordState, Alpha
<1>4. /\ At(p) = "0" => Seen(source, "zero", p, p + 1)
      /\ At(p) \in {"1", "8"} => Seen(source, "decimal", p, p + 1)
      /\ At(p) = "&" => Seen(source, "amp", p, p + 1)
      /\ At(p) \in {"=", "<"} => Seen(source, "half", p, p + 1)
  <2>1. At(p) \in {"1", "8"} => Only(source, Digit, p, p + 1)
    BY <1>1, OnlyMore DEF At, Digit, OctalDigit
  <2> QED BY <2>1 DEF Seen, At, WordState
<1>5. \/ Skip /\ At(p) \in {"nl", "sp"}
      \/ \E kind \in {"STAR", "PLUS"} :
             Return(kind, p, p + 1) /\ Takes(source, p, p + 1, kind)
      \/ \E state \in BeginState : \E match :
             Shift(state, p, match) /\ Seen(source, state, p, p + 1)
      \/ At(p) = "#" /\ GiveUp("error", p)
  BY <1>2, <1>3, <1>4 DEF Begin, BeginState
<1>6. CASE Skip /\ At(p) \in {"nl", "sp"}
  BY <1>1, <1>2, <1>6, SkipReads
<1>7. CASE \E kind \in {"STAR", "PLUS"} :
             Return(kind, p, p + 1) /\ Takes(source, p, p + 1, kind)
  BY <1>1, <1>7, ReturnReads DEF Kinds
<1>8. CASE \E state \in BeginState : \E match :
             Shift(state, p, match) /\ Seen(source, state, p, p + 1)
  <2>1. BeginState \subseteq State \ {"start", "error"}
    BY DEF BeginState, State, WordState, NumberState
  <2> QED BY <1>1, <1>8, <2>1, ShiftReads
<1>9. CASE At(p) = "#" /\ GiveUp("error", p)
  <2>1. Matches(source, p) = {}
    BY <1>1, <1>9, NothingBegins DEF At
  <2> QED BY <1>1, <1>9, <2>1, GiveUpReads
<1> QED BY <1>5, <1>6, <1>7, <1>8, <1>9

\* What has been read of a word.
LEMMA WordSeen ==
    ASSUME Reads, cs \in WordState
    PROVE  /\ TypeOK /\ Reading /\ ~Over /\ asked /\ Here = ts
           /\ p \in Nat /\ ts \in Nat /\ ts < p /\ te = p /\ source \in Text
           /\ Len(source) \in Nat /\ pe = Len(source) /\ ts \in 0 .. Len(source)
           /\ p \in ts + 1 .. Len(source)
           /\ Only(source, Letter, ts, p) /\ source[ts + 1] \in Alpha
           /\ cs = "wordi" <=> p = ts + 1 /\ source[ts + 1] = "i"
           /\ cs = "wordif" <=> IsIf(source, ts, p)
           /\ WordKind(cs) = WordOf(source, ts, p)
<1>1. /\ TypeOK /\ Reading /\ ~Over /\ asked /\ Here = ts
      /\ p \in Nat /\ source \in Text /\ p <= Len(source)
      /\ Len(source) \in Nat /\ pe = Len(source)
      /\ Says(cs, ts, te, p) /\ Seen(source, cs, ts, p)
  BY ReadsFrom DEF Reads, WordState
<1>2. ts \in Nat /\ ts < p /\ te = p
  BY <1>1 DEF Says
<1>3. /\ Only(source, Letter, ts, p) /\ source[ts + 1] \in Alpha
      /\ cs = "wordi" <=> p = ts + 1 /\ source[ts + 1] = "i"
      /\ cs = "wordif" <=> IsIf(source, ts, p)
  BY <1>1 DEF Seen
<1> QED BY <1>1, <1>2, <1>3 DEF WordKind, WordOf

\* Words.
LEMMA WordReads ==
    ASSUME Reads, Word
    PROVE  Reading'
<1>0. p < pe /\ cs \in WordState
  BY DEF Word
<1>1. /\ TypeOK /\ Reading /\ ~Over /\ asked /\ p < Len(source) /\ Here = ts
      /\ p \in Nat /\ ts \in Nat /\ ts < p /\ source \in Text
      /\ ts \in 0 .. Len(source) /\ p \in ts + 1 .. Len(source)
      /\ Only(source, Letter, ts, p) /\ source[ts + 1] \in Alpha
      /\ WordKind(cs) = WordOf(source, ts, p)
  BY <1>0, WordSeen
<1>2. CASE At(p) \in Letter /\ Shift(Longer(cs, At(p)), ts, p + 1)
  <2> DEFINE state == Longer(cs, At(p))
  <2>1. Only(source, Letter, ts, p + 1)
    BY <1>1, <1>2, OnlyMore DEF At
  <2>2. state \in WordState \ {"wordi"}
    BY DEF Longer, WordState
  <2>3. p + 1 # ts + 1
    BY <1>1
  <2>4. state = "wordif" <=> IsIf(source, ts, p + 1)
    <3>1. state = "wordif" <=> cs = "wordi" /\ source[p + 1] = "f"
      BY DEF Longer, At
    <3>2. cs = "wordi" <=> p = ts + 1 /\ source[ts + 1] = "i"
      BY <1>0, WordSeen
    <3>3. p + 1 = ts + 2 <=> p = ts + 1
      BY <1>1
    <3>4. p = ts + 1 => source[ts + 2] = source[p + 1]
      BY <1>1
    <3> QED BY <3>1, <3>2, <3>3, <3>4 DEF IsIf
  <2> HIDE DEF state
  <2>5. Seen(source, state, ts, p + 1)
    BY <1>1, <2>1, <2>2, <2>3, <2>4 DEF Seen, WordState
  <2>6. state \in State \ {"start", "error"}
    BY <2>2 DEF State, WordState
  <2>7. Shift(state, ts, p + 1)
    BY <1>2 DEF state
  <2> QED BY <1>1, <2>5, <2>6, <2>7, ShiftReads
<1>3. CASE At(p) \notin Letter /\ Return(WordKind(cs), ts, p)
  <2>1. Takes(source, ts, p, WordKind(cs))
    BY <1>1, <1>3, WordEnds DEF At
  <2>2. WordKind(cs) \in Kinds
    BY DEF WordKind, Kinds
  <2> QED BY <1>1, <1>3, <2>1, <2>2, ReturnReads
<1> QED BY <1>2, <1>3 DEF Word

\* What has been read of a number.
LEMMA NumberSeen ==
    ASSUME Reads, cs \in NumberState
    PROVE  /\ TypeOK /\ Reading /\ ~Over /\ asked /\ Here = ts
           /\ p \in Nat /\ ts \in Nat /\ source \in Text
           /\ p <= Len(source) /\ Len(source) \in Nat /\ pe = Len(source)
           /\ ts \in 0 .. Len(source) /\ te \in ts + 1 .. Len(source)
           /\ cs \in {"zero", "octal"} =>
                te = p /\ source[ts + 1] = "0" /\ Only(source, OctalDigit, ts, te)
           /\ cs = "zero" => p = ts + 1
           /\ cs = "octal" => ts + 1 < p
           /\ cs = "decimal" =>
                te = p /\ source[ts + 1] \in {"1", "8"} /\ Only(source, Digit, ts, te)
           /\ cs = "hexmark" =>
                /\ te = ts + 1 /\ p = ts + 2
                /\ Only(source, OctalDigit, ts, te) /\ source[ts + 2] = "x"
                /\ source[ts + 1] = "0"
           /\ cs = "hex" =>
                /\ te = p /\ source[ts + 1] = "0" /\ source[ts + 2] = "x"
                /\ ts + 2 < p /\ Only(source, HexDigit, ts + 2, p)
<1>0. cs \in {"zero", "octal", "hex", "hexmark", "decimal"}
  BY DEF NumberState
<1>1. /\ TypeOK /\ Reading /\ ~Over /\ asked /\ Here = ts
      /\ p \in Nat /\ source \in Text /\ p <= Len(source)
      /\ Len(source) \in Nat /\ pe = Len(source)
      /\ Says(cs, ts, te, p) /\ Seen(source, cs, ts, p)
  BY <1>0, ReadsFrom DEF Reads
<1>2. /\ ts \in Nat /\ ts < p /\ te \in ts + 1 .. p
      /\ cs # "hexmark" => te = p
      /\ cs = "hexmark" => te = p - 1
  BY <1>0, <1>1 DEF Says
<1>3. /\ cs = "zero" => p = ts + 1 /\ source[ts + 1] = "0"
      /\ cs = "octal" =>
           ts + 1 < p /\ source[ts + 1] = "0" /\ Only(source, OctalDigit, ts, p)
      /\ cs = "decimal" => source[ts + 1] \in {"1", "8"} /\ Only(source, Digit, ts, p)
      /\ cs = "hexmark" => p = ts + 2 /\ source[ts + 1] = "0" /\ source[ts + 2] = "x"
      /\ cs = "hex" => /\ source[ts + 1] = "0" /\ source[ts + 2] = "x"
                       /\ Only(source, HexDigit, ts + 2, p)
  BY <1>1 DEF Seen
<1>4. source[ts + 1] = "0" => Only(source, OctalDigit, ts, ts + 1)
  BY <1>2, OnlyMore DEF OctalDigit
<1>5. Only(source, HexDigit, ts + 2, p) => ts + 2 < p
  BY DEF Only
<1> QED BY <1>0, <1>1, <1>2, <1>3, <1>4, <1>5

\* Numbers.
LEMMA NumberReads ==
    ASSUME Reads, Number
    PROVE  Reading'
<1>0. p < pe /\ cs \in NumberState
  BY DEF Number
<1>1. /\ TypeOK /\ Reading /\ ~Over /\ asked /\ Here = ts
      /\ p \in Nat /\ ts \in Nat /\ source \in Text
      /\ p < Len(source) /\ Len(source) \in Nat
      /\ ts \in 0 .. Len(source) /\ te \in ts + 1 .. Len(source)
  BY <1>0, NumberSeen
<1>2. CASE cs = "zero" /\ At(p) = "x" /\ Shift("hexmark", ts, te)
  <2>1. Seen(source, "hexmark", ts, p + 1)
    BY <1>0, <1>1, <1>2, NumberSeen DEF Seen, At, WordState
  <2> QED BY <1>1, <1>2, <2>1, ShiftReads DEF State, NumberState
<1>3. CASE /\ cs \in {"zero", "octal"} /\ At(p) \in OctalDigit
           /\ Shift("octal", ts, p + 1)
  <2>1. /\ Only(source, OctalDigit, ts, p + 1) /\ ts + 1 < p + 1
        /\ source[ts + 1] = "0"
    BY <1>0, <1>1, <1>3, NumberSeen, OnlyMore DEF At
  <2>2. Seen(source, "octal", ts, p + 1)
    BY <2>1 DEF Seen, WordState
  <2> QED BY <1>1, <1>3, <2>2, ShiftReads DEF State, NumberState
<1>4. CASE /\ cs \in {"hexmark", "hex"} /\ At(p) \in HexDigit
           /\ Shift("hex", ts, p + 1)
  <2>1. /\ source[ts + 1] = "0" /\ source[ts + 2] = "x"
        /\ Only(source, HexDigit, ts + 2, p + 1)
    BY <1>0, <1>1, <1>4, NumberSeen, OnlyMore DEF At
  <2>2. Seen(source, "hex", ts, p + 1)
    BY <2>1 DEF Seen, WordState
  <2> QED BY <1>1, <1>4, <2>2, ShiftReads DEF State, NumberState
<1>5. CASE cs = "decimal" /\ At(p) \in Digit /\ Shift("decimal", ts, p + 1)
  <2>1. source[ts + 1] \in {"1", "8"} /\ Only(source, Digit, ts, p + 1)
    BY <1>0, <1>1, <1>5, NumberSeen, OnlyMore DEF At
  <2>2. Seen(source, "decimal", ts, p + 1)
    BY <2>1 DEF Seen, WordState
  <2> QED BY <1>1, <1>5, <2>2, ShiftReads DEF State, NumberState
<1>6. CASE ~GoesOn /\ Return("INT_LITERAL", ts, te)
  <2>1. Takes(source, ts, te, "INT_LITERAL")
    <3>1. CASE cs \in {"zero", "octal"}
      <4>1. /\ te = p /\ source[ts + 1] = "0" /\ Only(source, OctalDigit, ts, te)
            /\ cs = "octal" => te # ts + 1
        BY <1>0, <1>1, <3>1, NumberSeen
      <4>2. source[te + 1] \notin OctalDigit /\ (cs = "zero" => source[te + 1] # "x")
        BY <1>6, <3>1, <4>1 DEF GoesOn, At
      <4> QED BY <1>1, <3>1, <4>1, <4>2, OctalEnds
    <3>2. CASE cs = "hexmark"
      <4>1. /\ te = ts + 1 /\ p = te + 1 /\ Only(source, OctalDigit, ts, te)
            /\ source[te + 1] = "x" /\ source[ts + 1] = "0"
        BY <1>0, <1>1, <3>2, NumberSeen
      <4>2. source[te + 2] \notin HexDigit
        BY <1>1, <1>6, <3>2, <4>1 DEF GoesOn, At
      <4> QED BY <1>1, <4>1, <4>2, OctalEnds
    <3>3. CASE cs = "hex"
      <4>1. source[p + 1] \notin HexDigit
        BY <1>6, <3>3 DEF GoesOn, At
      <4> QED BY <1>0, <1>1, <3>3, <4>1, NumberSeen, HexEnds
    <3>4. CASE cs = "decimal"
      <4>1. source[p + 1] \notin Digit
        BY <1>6, <3>4 DEF GoesOn, At
      <4> QED BY <1>0, <1>1, <3>4, <4>1, NumberSeen, DecimalEnds
    <3> QED BY <1>0, <3>1, <3>2, <3>3, <3>4 DEF NumberState
  <2> QED BY <1>1, <1>6, <2>1, ReturnReads DEF Kinds
<1> QED BY <1>2, <1>3, <1>4, <1>5, <1>6 DEF Number

\* Signs that an equals sign may follow.
LEMMA EqualsReads ==
    ASSUME Reads, Equals
    PROVE  Reading'
<1>1. /\ TypeOK /\ Reading /\ ~Over /\ asked /\ Here = ts
      /\ p \in Nat /\ ts \in Nat /\ source \in Text
      /\ p < Len(source) /\ Len(source) \in Nat /\ ts \in 0 .. Len(source)
      /\ p = ts + 1 /\ source[ts + 1] \in {"=", "<"}
  BY ReadsFrom DEF Reads, Equals, Seen, Says
<1>2. \A c : Alone(c) \in Kinds /\ WithEquals(c) \in Kinds
  BY DEF Alone, WithEquals, Kinds
<1>3. CASE At(p) = "=" /\ Return(WithEquals(At(ts)), ts, p + 1)
  <2>1. p + 1 = ts + 2 /\ ts + 2 <= Len(source) /\ source[ts + 2] = "="
    BY <1>1, <1>3 DEF At
  <2>2. Takes(source, ts, p + 1, WithEquals(At(ts)))
    BY <1>1, <2>1, PairEnds DEF At
  <2> QED BY <1>1, <1>2, <1>3, <2>2, ReturnReads
<1>4. CASE At(p) # "=" /\ Return(Alone(At(ts)), ts, p)
  <2>1. source[ts + 2] # "="
    BY <1>1, <1>4 DEF At
  <2>2. Takes(source, ts, p, Alone(At(ts)))
    BY <1>1, <2>1, HalfEnds DEF At
  <2> QED BY <1>1, <1>2, <1>4, <2>2, ReturnReads
<1> QED BY <1>3, <1>4 DEF Equals

\* A slash, and what may begin with it.
LEMMA SlashReads ==
    ASSUME Reads, Slash
    PROVE  Reading'
<1>1. /\ TypeOK /\ Reading /\ ~Over /\ asked /\ Here = ts
      /\ p \in Nat /\ ts \in Nat /\ source \in Text
      /\ p < Len(source) /\ Len(source) \in Nat /\ ts \in 0 .. Len(source)
      /\ p = ts + 1 /\ source[ts + 1] = "/"
  BY ReadsFrom DEF Reads, Slash, Seen, Says
<1>2. CASE At(p) = "*" /\ Shift("block", ts, te)
  <2>1. Seen(source, "block", ts, p + 1)
    BY <1>1, <1>2 DEF Seen, At, WordState
  <2> QED BY <1>1, <1>2, <2>1, ShiftReads DEF State
<1>3. CASE At(p) = "/" /\ Shift("line", ts, te)
  <2>1. \A k \in ts .. p + 1 - 1 : k = ts \/ k = p
    BY <1>1
  <2>2. Seen(source, "line", ts, p + 1)
    BY <1>1, <1>3, <2>1 DEF Seen, At, WordState
  <2> QED BY <1>1, <1>3, <2>2, ShiftReads DEF State
<1>4. CASE At(p) \notin {"*", "/"} /\ Return("SLASH", ts, p)
  <2>1. source[ts + 2] # "*" /\ source[ts + 2] # "/"
    BY <1>1, <1>4 DEF At
  <2>2. \A n \in ts + 1 .. Len(source) :
            ~ IsLineComment(source, ts, n) /\ ~ IsBlockComment(source, ts, n)
    BY <1>1, <2>1, SecondOfComment
  <2>3. Takes(source, ts, p, "SLASH")
    BY <1>1, <2>2, SlashAlone
  <2> QED BY <1>1, <1>4, <2>3, ReturnReads DEF Kinds
<1> QED BY <1>2, <1>3, <1>4 DEF Slash

\* What has been read of a comment.
LEMMA CommentSeen ==
    ASSUME Reads, cs \in {"line", "block", "blockstar"}
    PROVE  /\ TypeOK /\ Reading /\ ~Over /\ asked /\ Here = ts
           /\ p \in Nat /\ ts \in Nat /\ source \in Text
           /\ p <= Len(source) /\ Len(source) \in Nat /\ pe = Len(source)
           /\ ts \in 0 .. Len(source) /\ te = ts + 1
           /\ ts + 2 <= p /\ source[ts + 1] = "/"
           /\ cs = "line" =>
                /\ source[ts + 2] = "/"
                /\ \A k \in ts .. p - 1 : source[k + 1] # "nl"
           /\ cs # "line" =>
                /\ source[ts + 2] = "*"
                /\ \A k \in ts + 4 .. p : ~ Closes(source, k)
                /\ cs = "blockstar" <=> ts + 3 <= p /\ source[p] = "*"
<1>1. /\ TypeOK /\ Reading /\ ~Over /\ asked /\ Here = ts
      /\ p \in Nat /\ source \in Text /\ p <= Len(source)
      /\ Len(source) \in Nat /\ pe = Len(source)
      /\ Says(cs, ts, te, p) /\ Seen(source, cs, ts, p)
  BY ReadsFrom DEF Reads
<1>2. ts \in Nat /\ ts < p /\ te = ts + 1
  BY <1>1 DEF Says
<1>3. CASE cs = "line"
  BY <1>1, <1>2, <1>3 DEF Seen
<1>4. CASE cs \in {"block", "blockstar"}
  BY <1>1, <1>2, <1>4 DEF Seen
<1> QED BY <1>3, <1>4

\* A line comment.
LEMMA LineReads ==
    ASSUME Reads, LineComment
    PROVE  Reading'
<1>0. p < pe /\ cs = "line"
  BY DEF LineComment
<1>1. /\ TypeOK /\ Reading /\ ~Over /\ asked /\ Here = ts
      /\ p \in Nat /\ ts \in Nat /\ source \in Text
      /\ p < Len(source) /\ Len(source) \in Nat
      /\ ts \in 0 .. Len(source) /\ ts + 2 <= p
      /\ source[ts + 1] = "/" /\ source[ts + 2] = "/"
      /\ \A k \in ts .. p - 1 : source[k + 1] # "nl"
  BY <1>0, CommentSeen
<1>2. CASE At(p) = "nl" /\ Skip
  <2>1. Only(source, {"/"}, ts, ts + 2)
    <3>1. ts \in Nat /\ ts + 1 \in Nat /\ ts + 1 + 1 = ts + 2
      BY <1>1
    <3>2. Only(source, {"/"}, ts, ts + 1)
      BY <1>1, <3>1, OnlyMore
    <3>3. Only(source, {"/"}, ts, ts + 1 + 1)
      BY <1>1, <3>1, <3>2, OnlyMore
    <3> QED BY <3>1, <3>3
  <2>2. IsLineComment(source, ts, p + 1)
    BY <1>1, <1>2, <2>1 DEF IsLineComment, At
  <2>3. p + 1 \in ts + 1 .. Len(source)
    BY <1>1
  <2>4. Takes(source, ts, p + 1, "none")
    BY <1>1, <2>2, <2>3, LineEnds
  <2> QED BY <1>1, <1>2, <2>4, SkipReads
<1>3. CASE At(p) # "nl" /\ Shift("line", ts, te)
  <2>1. \A k \in ts .. p + 1 - 1 : k \in ts .. p - 1 \/ k = p
    BY <1>1
  <2>2. Seen(source, "line", ts, p + 1)
    BY <1>1, <1>3, <2>1 DEF Seen, At, WordState
  <2> QED BY <1>1, <1>3, <2>2, ShiftReads DEF State
<1> QED BY <1>2, <1>3 DEF LineComment

\* A block comment.
LEMMA BlockReads ==
    ASSUME Reads, BlockComment
    PROVE  Reading'
<1>0. p < pe /\ cs \in {"block", "blockstar"}
  BY DEF BlockComment
<1>1. /\ TypeOK /\ Reading /\ ~Over /\ asked /\ Here = ts
      /\ p \in Nat /\ ts \in Nat /\ source \in Text
      /\ p < Len(source) /\ Len(source) \in Nat
      /\ ts \in 0 .. Len(source) /\ ts + 2 <= p
      /\ source[ts + 1] = "/" /\ source[ts + 2] = "*"
      /\ \A k \in ts + 4 .. p : ~ Closes(source, k)
      /\ cs = "blockstar" <=> ts + 3 <= p /\ source[p] = "*"
  BY <1>0, CommentSeen
<1>2. CASE cs = "blockstar" /\ At(p) = "/" /\ Skip
  <2>1. IsBlockComment(source, ts, p + 1)
    BY <1>1, <1>2 DEF IsBlockComment, Closes, At
  <2>2. p + 1 \in ts + 1 .. Len(source)
    BY <1>1
  <2>3. Takes(source, ts, p + 1, "none")
    BY <1>1, <2>1, <2>2, BlockEnds
  <2> QED BY <1>1, <1>2, <2>3, SkipReads
<1>3. CASE ~ (cs = "blockstar" /\ At(p) = "/")
  <2>1. \A k \in ts + 4 .. p + 1 : k \in ts + 4 .. p \/ (k = p + 1 /\ ts + 3 <= p)
    BY <1>1
  <2>2. ts + 3 <= p => ~ Closes(source, p + 1)
    BY <1>1, <1>3 DEF Closes, At
  <2>3. \A k \in ts + 4 .. p + 1 : ~ Closes(source, k)
    BY <1>1, <2>1, <2>2
  <2>4. At(p) # "*" => Seen(source, "block", ts, p + 1)
    BY <1>1, <2>3 DEF Seen, At, WordState
  <2>5. At(p) = "*" => Seen(source, "blockstar", ts, p + 1)
    BY <1>1, <2>3 DEF Seen, At, WordState
  <2>6. \/ At(p) # "*" /\ Shift("block", ts, te)
        \/ At(p) = "*" /\ Shift("blockstar", ts, te)
    BY <1>3 DEF BlockComment
  <2> QED BY <1>1, <2>4, <2>5, <2>6, ShiftReads DEF State
<1> QED BY <1>2, <1>3 DEF BlockComment

\* Ampersands.
LEMMA AmpersandReads ==
    ASSUME Reads, Ampersand
    PROVE  Reading'
<1>1. /\ TypeOK /\ Reading /\ ~Over /\ asked /\ Here = ts
      /\ p \in Nat /\ ts \in Nat /\ source \in Text
      /\ p < Len(source) /\ Len(source) \in Nat /\ ts \in 0 .. Len(source)
      /\ p = ts + 1 /\ source[ts + 1] = "&"
  BY ReadsFrom DEF Reads, Ampersand, Seen, Says
<1>2. CASE At(p) = "&" /\ Return("LOGICAL_AND", ts, p + 1)
  <2>1. p + 1 = ts + 2 /\ ts + 2 <= Len(source) /\ source[ts + 2] = "&"
    BY <1>1, <1>2 DEF At
  <2>2. Takes(source, ts, p + 1, "LOGICAL_AND")
    BY <1>1, <2>1, AmpEnds
  <2> QED BY <1>1, <1>2, <2>2, ReturnReads DEF Kinds
<1>3. CASE At(p) # "&" /\ GiveUp("error", ts)
  <2>1. source[ts + 2] # "&" /\ ts < Len(source)
    BY <1>1, <1>3 DEF At
  <2>2. Matches(source, ts) = {}
    BY <1>1, <2>1, AmpAlone
  <2> QED BY <1>1, <1>3, <2>2, GiveUpReads
<1> QED BY <1>2, <1>3 DEF Ampersand

\* The end of the text.
LEMMA EndReads ==
    ASSUME Reads, AtEnd
    PROVE  Reading'
<1>0. p = pe
  BY DEF AtEnd
<1>1. /\ TypeOK /\ Reading /\ ~Over /\ asked
      /\ Here = (IF cs = "start" THEN p ELSE ts)
      /\ p = Len(source) /\ Len(source) \in Nat /\ source \in Text
      /\ Seen(source, cs, ts, p) /\ Says(cs, ts, te, p)
      /\ Here \in 0 .. Len(source)
  BY <1>0, ReadsFrom DEF Reads
<1>2. CASE cs = "start" /\ GiveUp(cs, ts)
  <2>1. Matches(source, Here) = {}
    <3> SUFFICES ASSUME NEW j \in Matches(source, Here) PROVE FALSE
      OBVIOUS
    <3>1. Here = Len(source)
      BY <1>1, <1>2
    <3>2. j \in Here + 1 .. Len(source)
      BY MatchesRange
    <3> QED BY <1>1, <3>1, <3>2
  <2> QED BY <1>1, <1>2, <2>1, GiveUpReads
<1>3. CASE cs = "amp" /\ GiveUp(cs, ts)
  <2>1. Here = ts /\ p = ts + 1 /\ source[ts + 1] = "&" /\ ts < Len(source)
    BY <1>1, <1>3 DEF Seen, Says, WordState
  <2>2. Matches(source, ts) = {}
    BY <1>1, <2>1, AmpAlone
  <2> QED BY <1>1, <1>3, <2>1, <2>2, GiveUpReads
<1>4. CASE cs \in WordState /\ Return(WordKind(cs), ts, te)
  <2>1. /\ Here = ts /\ te = p /\ te \in ts + 1 .. Len(source)
        /\ ts \in 0 .. Len(source) /\ WordKind(cs) = WordOf(source, ts, te)
        /\ Only(source, Letter, ts, te) /\ source[ts + 1] \in Alpha
    BY <1>4, WordSeen
  <2>2. Takes(source, ts, te, WordKind(cs))
    BY <1>1, <2>1, WordEnds
  <2>3. WordKind(cs) \in Kinds
    BY DEF WordKind, Kinds
  <2> QED BY <1>1, <1>4, <2>1, <2>2, <2>3, ReturnReads
<1>5. CASE cs \in NumberState /\ Return("INT_LITERAL", ts, te)
  <2>0. /\ ts \in 0 .. Len(source) /\ te \in ts + 1 .. Len(source) /\ Here = ts
        /\ ts \in Nat /\ p \in Nat
    BY <1>5, NumberSeen
  <2>1. Takes(source, ts, te, "INT_LITERAL")
    <3>1. CASE cs \in {"zero", "octal"}
      BY <1>1, <1>5, <2>0, <3>1, NumberSeen, OctalEnds
    <3>2. CASE cs = "hexmark"
      <4>1. /\ te = ts + 1 /\ te + 1 = Len(source) /\ Only(source, OctalDigit, ts, te)
            /\ source[te + 1] = "x" /\ source[ts + 1] = "0"
        BY <1>1, <1>5, <2>0, <3>2, NumberSeen
      <4> QED BY <1>1, <2>0, <4>1, OctalEnds
    <3>3. CASE cs = "hex"
      BY <1>1, <1>5, <2>0, <3>3, NumberSeen, HexEnds
    <3>4. CASE cs = "decimal"
      BY <1>1, <1>5, <2>0, <3>4, NumberSeen, DecimalEnds
    <3> QED BY <1>5, <3>1, <3>2, <3>3, <3>4 DEF NumberState
  <2> QED BY <1>1, <1>5, <2>0, <2>1, ReturnReads DEF Kinds
<1>7. CASE cs = "half" /\ Return(Alone(At(ts)), ts, te)
  <2>1. /\ Here = ts /\ ts \in Nat /\ te = ts + 1 /\ ts + 1 = Len(source)
        /\ source[ts + 1] \in {"=", "<"} /\ ts \in 0 .. Len(source)
    BY <1>1, <1>7 DEF Seen, Says
  <2>2. Takes(source, ts, te, Alone(At(ts)))
    BY <1>1, <2>1, HalfEnds DEF At
  <2>3. Alone(At(ts)) \in Kinds
    BY DEF Alone, Kinds
  <2> QED BY <1>1, <1>7, <2>1, <2>2, <2>3, ReturnReads
<1>6. CASE cs \in {"slash", "line", "block", "blockstar"} /\ Return("SLASH", ts, te)
  <2>1. /\ Here = ts /\ te = ts + 1 /\ ts \in Nat /\ ts < Len(source)
        /\ source[ts + 1] = "/"
    <3>1. CASE cs = "slash"
      BY <1>1, <3>1 DEF Seen, Says, WordState
    <3>2. CASE cs \in {"line", "block", "blockstar"}
      BY <1>1, <3>2, CommentSeen
    <3> QED BY <1>6, <3>1, <3>2
  <2>2. ASSUME NEW n \in ts + 1 .. Len(source)
        PROVE  ~ IsLineComment(source, ts, n) /\ ~ IsBlockComment(source, ts, n)
    <3>1. CASE cs = "slash"
      <4>1. p = ts + 1
        BY <1>1, <3>1 DEF Seen
      <4>2. ~ (ts + 2 < n) /\ ~ (ts + 4 <= n)
        BY <1>1, <2>1, <4>1
      <4> QED BY <4>2 DEF IsLineComment, IsBlockComment
    <3>2. CASE cs = "line"
      <4>1. source[ts + 2] = "/" /\ \A k \in ts .. p - 1 : source[k + 1] # "nl"
        BY <3>2, CommentSeen
      <4>2. n - 1 \in ts .. p - 1 /\ n - 1 + 1 = n
        BY <1>1, <2>1
      <4> QED BY <1>1, <2>1, <4>1, <4>2, SecondOfComment
    <3>3. CASE cs \in {"block", "blockstar"}
      <4>1. source[ts + 2] = "*" /\ \A k \in ts + 4 .. p : ~ Closes(source, k)
        BY <3>3, CommentSeen
      <4>2. ts + 4 <= n => n \in ts + 4 .. p
        BY <1>1, <2>1
      <4> QED BY <1>1, <2>1, <4>1, <4>2, SecondOfComment
    <3> QED BY <1>6, <3>1, <3>2, <3>3
  <2>3. Takes(source, ts, te, "SLASH")
    BY <1>1, <2>1, <2>2, SlashAlone
  <2> QED BY <1>1, <1>6, <2>1, <2>3, ReturnReads DEF Kinds
<1> QED BY <1>2, <1>3, <1>4, <1>5, <1>6, <1>7 DEF AtEnd

\* Every step keeps what has been read and what is to come together.
LEMMA StepReading ==
    ASSUME IInv, Reading, Next
    PROVE  Reading'
<1>1. CASE Ask
  <2>1. /\ UNCHANGED <<source, p, cs, ts, te, lines, tokens>> /\ cs = "start"
        /\ ~asked /\ pe' = pe
    BY <1>1 DEF Ask, IInv, Scanning, pe
  <2>2. Here' = Here /\ Over' = Over /\ Seen(source, cs, ts, p)'
    BY <2>1 DEF Here, Over, Seen, WordState
  <2> QED BY <2>1, <2>2 DEF Reading
<1>2. CASE exec
  <2>1. TypeOK /\ Scanning /\ asked /\ ~Refused
    BY <1>2 DEF exec, Begin, Word, Number, Equals, Slash, LineComment, BlockComment,
                Ampersand, AtEnd, Scanning, IInv
  <2>2. p <= pe
    <3>1. PICK r \in 0 .. pe : Counted(r)
      BY DEF IInv
    <3>2. p <= r /\ p \in Int /\ pe \in Int
      BY <2>1, <3>1, SourceType DEF Counted, TypeOK
    <3> QED BY <3>1, <3>2
  <2>3. Reads
    BY <2>1, <2>2 DEF Reads
  <2> QED
    BY <1>2, <2>3, BeginReads, WordReads, NumberReads, EqualsReads, SlashReads,
       LineReads, BlockReads, AmpersandReads, EndReads DEF exec
<1> QED BY <1>1, <1>2 DEF Next

(* The tokens are those of the text, read with the longest match, for      *)
(* every set of texts.                                                     *)
THEOREM TokensAreLongest == Spec => []LongestMatch
<1>1. Init => Reading
  <2> SUFFICES ASSUME Init PROVE Reading
    OBVIOUS
  <2>1. TypeOK
    BY InitInv DEF IInv
  <2>2. /\ source \in Text /\ 0 \in 0 .. Len(source) /\ pe = Len(source)
        /\ tokens = <<>> /\ asked = FALSE /\ p = 0
    BY <2>1, SourceType DEF Init, TypeOK, Text
  <2>3. Rest(source)[0] \in Seq(Token)
    BY <2>2, RestType
  <2>4. Denoted(source) = tokens \o Rest(source)[0]
    BY <2>2, <2>3, ConcatEmptySeq DEF Denoted
  <2> QED BY <2>2, <2>4 DEF Reading, Here, Over
<1>2. IInv /\ Reading /\ [Next]_vars => Reading'
  <2> SUFFICES ASSUME IInv, Reading, UNCHANGED vars PROVE Reading'
    BY StepReading
  <2>1. UNCHANGED <<source, p, cs, ts, asked, tokens>>
    BY DEF vars
  <2> QED BY <2>1 DEF Reading, Here, Over, pe
<1>3. IInv /\ Reading => LongestMatch
  <2> SUFFICES ASSUME IInv, Reading, Refused PROVE
        IF Last(tokens).kind = "EOF" THEN Front(tokens) = Denoted(source)
                                     ELSE IsPrefix(tokens, Denoted(source))
    BY DEF LongestMatch
  <2>1. /\ tokens \in Seq(Token) /\ Len(tokens) \in Nat /\ Len(tokens) > 0
        /\ source \in Text /\ pe = Len(source)
    BY SourceType DEF IInv, TypeOK, Refused, Text
  <2>2. Over <=> Last(tokens).kind = "EOF"
    BY <2>1 DEF Over, Last
  <2>3. CASE Over
    BY <2>2, <2>3 DEF Reading
  <2>4. CASE ~Over
    <3>1. Here \in 0 .. Len(source) /\ Denoted(source) = tokens \o Rest(source)[Here]
      BY <2>1, <2>4 DEF Reading
    <3>2. Rest(source)[Here] \in Seq(Token)
      BY <2>1, <3>1, RestType
    <3>3. \A u \in Seq(Token) : IsPrefix(tokens, tokens \o u)
      BY <2>1 DEF IsPrefix
    <3> QED BY <2>2, <2>4, <3>1, <3>2, <3>3
  <2> QED BY <2>3, <2>4
<1> QED BY <1>1, <1>2, <1>3, Inductive, PTL DEF Spec
=============================================================================
