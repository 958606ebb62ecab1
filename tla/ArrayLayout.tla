------------------------------ MODULE ArrayLayout ------------------------------
(***************************************************************************)
(* What an array initialiser denotes, element by element, and that         *)
(* ArrayAlign gives it to local, to global and to constant arrays.         *)
(***************************************************************************)
EXTENDS ArrayAlign, FiniteSets

Zeros(n) == [k \in 1 .. n |-> 0]

\* Filled up to a multiple of n elements, and up to n of them; what does not
\* go into n elements is a 2.
UpToMultiple(s, n) == s \o Zeros((-Len(s)) % n)
Whole(s, n)        == IF Len(s) <= n THEN s \o Zeros(n - Len(s)) ELSE <<2>>

\* The elements that the first i items of a list spell out, 1 for an expression
\* and 0 for a gap: a brace is one whole sub-array of n elements, which starts
\* at a multiple of n.
Spelling(items, n, inner) ==
    LET spelt[i \in 0 .. Len(items)] ==
          IF i = 0 THEN <<>>
          ELSE IF items[i].brace
          THEN UpToMultiple(spelt[i - 1], n) \o Whole(inner[items[i].items], n)
          ELSE Append(spelt[i - 1], 1)
    IN  spelt

\* Those of a list of depth j in an array of dimensions d.
Spelt(d) ==
    LET spelt[j \in 1 .. Len(d)] ==
          [items \in Lists(Len(d))[j] |->
             Spelling(items, Offsets(d)[j], IF j = Len(d) THEN <<>> ELSE spelt[j + 1])[Len(items)]]
    IN  spelt

\* Nothing in braces is more than the sub-array has room for.
Fits(s, n) == Len(s) <= n /\ \A k \in DOMAIN s : s[k] # 2

\* Expression numbers by offset, 0 for a zero.
Numbered(s) ==
    [k \in DOMAIN s |-> IF s[k] = 1 THEN Cardinality({h \in 1 .. k : s[h] = 1}) ELSE 0]

VARIABLE meant    \* what the initialiser denotes; nothing if it does not fit

LayoutInit ==
    /\ Init
    /\ LET s == Spelt(dims)[1][top.items]
       IN  meant = IF Fits(s, size) THEN Numbered(Whole(s, size)) ELSE <<>>

LayoutNext == Next /\ UNCHANGED meant

LayoutSpec ==
    LayoutInit /\ [][LayoutNext]_<<vars, meant>> /\ WF_<<vars, meant>>(LayoutNext)

-----------------------------------------------------------------------------
(* Properties. *)

\* Calls are as deep as the array at most; offsets are within the array that
\* the initialiser fits.
TypeOK ==
    /\ Len(stack) \in 1 .. Len(dims)
    /\ meant # <<>> => \A i \in DOMAIN result : result[i].offset \in 0 .. size - 1
    /\ it \in 1 .. Len(result) + 1
    /\ Len(expanded) <= size

\* A local array gets, in order, exactly the elements it denotes: nested and
\* flat parts, gaps before and after a brace, empty braces.
LocalRight == (pc = "done" /\ ~global /\ meant # <<>>) => expanded = meant

\* Constant evaluation finds in the list every element that it has, and zero
\* for those it does not have: the list is in the order that the binary search
\* needs, however deep the braces.
LookupRight ==
    (pc = "done" /\ global /\ meant # <<>>) =>
       \A o \in 0 .. size - 1 : clean_up(result, o) = meant[o + 1]

\* The compiler gets through every initialiser that fits.
FittingEnds == (meant # <<>>) ~> (pc = "done")

\* "Perform the array initialzation process, and zero-expand them"
\* (array_align.cpp:47): every initialiser is expanded.
Terminates == <>(pc = "done")

=============================================================================
