--------------------------- MODULE ArrayAlignProofs ---------------------------
(***************************************************************************)
(* Every array gets the elements that its initialiser denotes, for arrays  *)
(* of any dimensions and initialisers of any nesting.                      *)
(***************************************************************************)
EXTENDS ArrayLayout, WellFoundedInduction, FiniteSetTheorems, SequenceTheorems, TLAPS

\* A well-founded relation has minimal elements.
LEMMA MinimalElement ==
    ASSUME NEW R, NEW S, IsWellFoundedOn(R, S), NEW T, T \subseteq S, T # {}
    PROVE  \E x \in T : \A y \in T : ~ (<<y, x>> \in R)
  BY WFMin, ZenonT(60)

\* Being smaller is well-founded on the natural numbers.
LEMMA SmallerIsWellFounded ==
    \E R : /\ IsWellFoundedOn(R, Nat)
           /\ \A x, y \in Nat : x < y => <<x, y>> \in R
<1>1. \A x, y \in Nat : x < y => <<x, y>> \in OpToRel(<, Nat)
  BY Zenon DEF OpToRel
<1> QED BY <1>1, NatLessThanWellFounded, Zenon

\* A set of natural numbers that is not empty has a least element: what stands
\* in for induction, which the provers cannot do.
LEMMA Least ==
    ASSUME NEW T, T \subseteq Nat, T # {}
    PROVE  \E x \in T : \A y \in T : x <= y
<1>1. PICK R : /\ IsWellFoundedOn(R, Nat)
               /\ \A x, y \in Nat : x < y => <<x, y>> \in R
  BY SmallerIsWellFounded, Zenon
<1>2. IsWellFoundedOn(R, Nat)
  BY <1>1
<1>3. \E x \in T : \A y \in T : ~ (<<y, x>> \in R)
  BY <1>2, MinimalElement, ZenonT(60)
<1>4. PICK x \in T : \A y \in T : ~ (<<y, x>> \in R)
  BY <1>3, Zenon
<1>5. ASSUME NEW y \in T PROVE x <= y
  <2>1. x \in Nat /\ y \in Nat /\ ~ (y < x)
    BY <1>1, <1>4, Zenon
  <2> QED BY <2>1
<1> QED BY <1>5, Zenon

Dims == Seq(Nat \ {0}) \ {<<>>}

(* A set of numbers that is bounded has a greatest one.                    *)
LEMMA Greatest ==
    ASSUME NEW n \in Nat, NEW T, T \subseteq 0 .. n, T # {}
    PROVE  \E x \in T : \A y \in T : y <= x
<1> DEFINE U == {n - x : x \in T}
<1>1. U \subseteq Nat /\ U # {}
  <2>1. \A x \in T : n - x \in Nat
    OBVIOUS
  <2> QED BY <2>1, Zenon
<1>2. PICK u \in U : \A w \in U : u <= w
  BY <1>1, Least
<1>3. PICK x \in T : u = n - x
  BY <1>2
<1>4. \A y \in T : n - y \in U
  OBVIOUS
<1>5. \A y \in T : u <= n - y
  BY <1>2, <1>4
<1>6. \A y \in T : y \in 0 .. n
  OBVIOUS
<1> QED BY <1>3, <1>5, <1>6

(* The last index at which something fails, if it fails anywhere: what     *)
(* stands in for induction from the last dimension to the first.           *)
LEMMA LastBad ==
    ASSUME NEW n \in Nat, NEW bad, bad \subseteq 1 .. n, bad # {}
    PROVE  \E k \in bad : k = n \/ (k + 1 \in 1 .. n /\ k + 1 \notin bad)
<1>1. bad \subseteq 0 .. n
  OBVIOUS
<1>2. PICK k \in bad : \A y \in bad : y <= k
  BY <1>1, Greatest
<1>3. k \in 1 .. n /\ ~ (k + 1 <= k)
  OBVIOUS
<1>4. k + 1 \notin bad
  BY <1>2, <1>3
<1>5. k = n \/ k + 1 \in 1 .. n
  BY <1>3
<1> QED BY <1>4, <1>5

(* The first one, from 0.                                                  *)
LEMMA FirstBad ==
    ASSUME NEW n \in Nat, NEW bad, bad \subseteq 0 .. n, bad # {}
    PROVE  \E k \in bad : k = 0 \/ (k - 1 \in 0 .. n /\ k - 1 \notin bad)
<1>1. bad \subseteq Nat
  OBVIOUS
<1>2. PICK k \in bad : \A y \in bad : k <= y
  BY <1>1, Least
<1>3. k \in 0 .. n /\ ~ (k <= k - 1)
  OBVIOUS
<1>4. k - 1 \notin bad
  BY <1>2, <1>3
<1>5. k = 0 \/ k - 1 \in 0 .. n
  BY <1>3
<1> QED BY <1>4, <1>5

-----------------------------------------------------------------------------
(* What the functions that are defined from themselves come to: there is   *)
(* one that satisfies the equation, so the one that is defined does.       *)

OffsetsFrom(d, f, m) ==
    /\ f = [j \in m .. Len(d) |-> f[j]]
    /\ \A j \in m .. Len(d) : f[j] = IF j = Len(d) THEN 1 ELSE f[j + 1] * d[j + 1]

LEMMA SomeOffsets ==
    ASSUME NEW d \in Dims, NEW m \in 1 .. Len(d)
    PROVE  \E f : OffsetsFrom(d, f, m)
<1> DEFINE n == Len(d)
           bad == {k \in 1 .. n : ~ \E f : OffsetsFrom(d, f, k)}
<1>1. n \in Nat
  BY DEF Dims
<1>2. CASE bad = {}
  BY <1>2
<1>3. CASE bad # {}
  <2>1. PICK k \in bad : k = n \/ (k + 1 \in 1 .. n /\ k + 1 \notin bad)
    <3>1. bad \subseteq 1 .. n
      OBVIOUS
    <3> HIDE DEF bad
    <3> QED BY <1>1, <1>3, <3>1, LastBad
  <2>2. CASE k = n
    <3>1. OffsetsFrom(d, [j \in n .. n |-> 1], n)
      BY <1>1 DEF OffsetsFrom
    <3> QED BY <2>1, <2>2, <3>1
  <2>3. CASE k + 1 \in 1 .. n /\ k + 1 \notin bad
    <3>1. PICK f : OffsetsFrom(d, f, k + 1)
      BY <2>3
    <3> DEFINE g == [j \in k .. n |-> IF j = k THEN f[k + 1] * d[k + 1] ELSE f[j]]
    <3>2. g[k] = f[k + 1] * d[k + 1] /\ \A j \in k + 1 .. n : g[j] = f[j]
      BY <1>1, <2>1
    <3>3. g = [j \in k .. n |-> g[j]]
      OBVIOUS
    <3> HIDE DEF g
    <3>4. \A j \in k .. n : g[j] = IF j = n THEN 1 ELSE g[j + 1] * d[j + 1]
      <4> SUFFICES ASSUME NEW j \in k .. n
                   PROVE  g[j] = IF j = n THEN 1 ELSE g[j + 1] * d[j + 1]
        OBVIOUS
      <4>1. CASE j = k
        <5>1. k # n /\ k + 1 \in k + 1 .. n
          BY <1>1, <2>1, <2>3
        <5>2. g[k + 1] = f[k + 1]
          BY <3>2, <5>1
        <5> QED BY <3>2, <4>1, <5>1, <5>2
      <4>2. CASE j # k
        <5>1. j \in k + 1 .. n /\ (j # n => j + 1 \in k + 1 .. n)
          BY <1>1, <2>1, <4>2
        <5>2. f[j] = IF j = n THEN 1 ELSE f[j + 1] * d[j + 1]
          BY <3>1, <5>1 DEF OffsetsFrom
        <5> QED BY <3>2, <5>1, <5>2
      <4> QED BY <4>1, <4>2
    <3>5. OffsetsFrom(d, g, k)
      BY <3>3, <3>4 DEF OffsetsFrom
    <3> QED BY <2>1, <3>5
  <2> QED BY <2>1, <2>2, <2>3
<1> QED BY <1>2, <1>3

\* calculate_offsets() from the last dimension on.
LEMMA OffsetsAre ==
    ASSUME NEW d \in Dims, NEW j \in 1 .. Len(d)
    PROVE  Offsets(d)[j] = IF j = Len(d) THEN 1 ELSE Offsets(d)[j + 1] * d[j + 1]
<1> DEFINE Eq(f) == f = [k \in 1 .. Len(d) |->
                           IF k = Len(d) THEN 1 ELSE f[k + 1] * d[k + 1]]
<1>1. 1 \in 1 .. Len(d)
  BY DEF Dims
<1>2. PICK f : OffsetsFrom(d, f, 1)
  BY <1>1, SomeOffsets
<1>3. Eq(f)
  <2>1. f = [k \in 1 .. Len(d) |-> f[k]]
    BY <1>2 DEF OffsetsFrom
  <2>2. \A k \in 1 .. Len(d) : f[k] = IF k = Len(d) THEN 1 ELSE f[k + 1] * d[k + 1]
    BY <1>2 DEF OffsetsFrom
  <2> QED BY <2>1, <2>2
<1>4. Offsets(d) = CHOOSE g : Eq(g)
  BY DEF Offsets
<1>5. Eq(Offsets(d))
  BY <1>3, <1>4, Zenon
<1> QED BY <1>5

\* Sub-arrays are not empty.
LEMMA OffsetsType ==
    ASSUME NEW d \in Dims, NEW j \in 1 .. Len(d)
    PROVE  Offsets(d)[j] \in Nat \ {0}
<1> DEFINE bad == {k \in 1 .. Len(d) : Offsets(d)[k] \notin Nat \ {0}}
<1>1. Len(d) \in Nat
  BY DEF Dims
<1>2. CASE bad = {}
  BY <1>2
<1>3. CASE bad # {}
  <2>1. PICK k \in bad : k = Len(d) \/ (k + 1 \in 1 .. Len(d) /\ k + 1 \notin bad)
    <3>1. bad \subseteq 1 .. Len(d)
      OBVIOUS
    <3> HIDE DEF bad
    <3> QED BY <1>1, <1>3, <3>1, LastBad
  <2>2. Offsets(d)[k] = IF k = Len(d) THEN 1 ELSE Offsets(d)[k + 1] * d[k + 1]
    BY <2>1, OffsetsAre
  <2>3. k # Len(d)
    BY <2>1, <2>2
  <2>4. Offsets(d)[k + 1] \in Nat \ {0} /\ d[k + 1] \in Nat \ {0}
    BY <2>1, <2>3 DEF Dims
  <2>5. \A x, y \in Nat \ {0} : x * y \in Nat \ {0}
    OBVIOUS
  <2> QED BY <2>1, <2>2, <2>3, <2>4, <2>5
<1> QED BY <1>2, <1>3

\* Lists of depth j, if those of depth j + 1 are f[j + 1].
ListsBefore(n, f, j) ==
    Seq({Expr} \cup (IF j = n THEN {} ELSE [brace : {TRUE}, items : f[j + 1]]))

ListsFrom(n, f, m) ==
    /\ f = [j \in m .. n |-> f[j]]
    /\ \A j \in m .. n : f[j] = ListsBefore(n, f, j)

LEMMA SomeLists ==
    ASSUME NEW n \in Nat, NEW m \in 1 .. n
    PROVE  \E f : ListsFrom(n, f, m)
<1> DEFINE bad == {k \in 1 .. n : ~ \E f : ListsFrom(n, f, k)}
<1>1. n \in Nat
  BY DEF Dims
<1>2. CASE bad = {}
  BY <1>2
<1>3. CASE bad # {}
  <2>1. PICK k \in bad : k = n \/ (k + 1 \in 1 .. n /\ k + 1 \notin bad)
    <3>1. bad \subseteq 1 .. n
      OBVIOUS
    <3> HIDE DEF bad
    <3> QED BY <1>1, <1>3, <3>1, LastBad
  <2>2. CASE k = n
    <3> DEFINE g == [j \in n .. n |-> ListsBefore(n, <<>>, n)]
    <3>1. g = [j \in n .. n |-> g[j]] /\ g[n] = ListsBefore(n, <<>>, n)
      BY <1>1
    <3> HIDE DEF g
    <3>2. ListsBefore(n, <<>>, n) = ListsBefore(n, g, n)
      BY DEF ListsBefore
    <3>3. \A j \in n .. n : j = n
      BY <1>1
    <3>4. ListsFrom(n, g, n)
      BY <3>1, <3>2, <3>3 DEF ListsFrom
    <3> QED BY <2>1, <2>2, <3>4
  <2>3. CASE k # n /\ k + 1 \in 1 .. n /\ k + 1 \notin bad
    <3>1. PICK f : ListsFrom(n, f, k + 1)
      BY <2>3
    <3> DEFINE g == [j \in k .. n |-> IF j = k THEN ListsBefore(n, f, k) ELSE f[j]]
    <3>2. g[k] = ListsBefore(n, f, k) /\ \A j \in k + 1 .. n : g[j] = f[j]
      BY <1>1, <2>1
    <3>3. g = [j \in k .. n |-> g[j]]
      OBVIOUS
    <3> HIDE DEF g
    <3>4. \A j \in k .. n : g[j] = ListsBefore(n, g, j)
      <4> SUFFICES ASSUME NEW j \in k .. n PROVE g[j] = ListsBefore(n, g, j)
        OBVIOUS
      <4>1. j # n => j + 1 \in k + 1 .. n
        BY <1>1, <2>1
      <4>2. j # n => g[j + 1] = f[j + 1]
        BY <3>2, <4>1
      <4>3. ListsBefore(n, g, j) = ListsBefore(n, f, j)
        BY <4>2, Zenon DEF ListsBefore
      <4>4. CASE j = k
        BY <3>2, <4>3, <4>4
      <4>5. CASE j # k
        <5>1. j \in k + 1 .. n
          BY <1>1, <2>1, <4>5
        <5>2. f[j] = ListsBefore(n, f, j)
          BY <3>1, <5>1 DEF ListsFrom
        <5> QED BY <3>2, <4>3, <5>1, <5>2
      <4> QED BY <4>4, <4>5
    <3>5. ListsFrom(n, g, k)
      BY <3>3, <3>4 DEF ListsFrom
    <3> QED BY <2>1, <3>5
  <2> QED BY <2>1, <2>2, <2>3
<1> QED BY <1>2, <1>3

\* What there can be in a list.
LEMMA ListsAre ==
    ASSUME NEW n \in Nat, NEW j \in 1 .. n
    PROVE  Lists(n)[j] = ListsBefore(n, Lists(n), j)
<1> DEFINE Eq(f) == f = [k \in 1 .. n |-> ListsBefore(n, f, k)]
<1>1. 1 \in 1 .. n
  OBVIOUS
<1>2. PICK f : ListsFrom(n, f, 1)
  BY <1>1, SomeLists
<1>3. Eq(f)
  <2>1. f = [k \in 1 .. n |-> f[k]] /\ \A k \in 1 .. n : f[k] = ListsBefore(n, f, k)
    BY <1>2 DEF ListsFrom
  <2> QED BY <2>1
<1>4. Lists(n) = CHOOSE g : Eq(g)
  BY DEF Lists, ListsBefore
<1>5. Eq(Lists(n))
  BY <1>3, <1>4, Zenon
<1> QED BY <1>5

\* What the lists of depth j spell, if those of depth j + 1 spell f[j + 1].
Inner(d, f, j) == IF j = Len(d) THEN <<>> ELSE f[j + 1]
SpeltBefore(d, f, j) ==
    [items \in Lists(Len(d))[j] |->
        Spelling(items, Offsets(d)[j], Inner(d, f, j))[Len(items)]]

SpeltFrom(d, f, m) ==
    /\ f = [j \in m .. Len(d) |-> f[j]]
    /\ \A j \in m .. Len(d) : f[j] = SpeltBefore(d, f, j)

LEMMA SomeSpelt ==
    ASSUME NEW d \in Dims, NEW m \in 1 .. Len(d)
    PROVE  \E f : SpeltFrom(d, f, m)
<1> DEFINE bad == {k \in 1 .. Len(d) : ~ \E f : SpeltFrom(d, f, k)}
<1>1. Len(d) \in Nat
  BY DEF Dims
<1>2. CASE bad = {}
  BY <1>2
<1>3. CASE bad # {}
  <2>1. PICK k \in bad : k = Len(d) \/ (k + 1 \in 1 .. Len(d) /\ k + 1 \notin bad)
    <3>1. bad \subseteq 1 .. Len(d)
      OBVIOUS
    <3> HIDE DEF bad
    <3> QED BY <1>1, <1>3, <3>1, LastBad
  <2>2. CASE k = Len(d)
    <3> DEFINE g == [j \in Len(d) .. Len(d) |-> SpeltBefore(d, <<>>, Len(d))]
    <3>1. g = [j \in Len(d) .. Len(d) |-> g[j]] /\ g[Len(d)] = SpeltBefore(d, <<>>, Len(d))
      BY <1>1
    <3> HIDE DEF g
    <3>2. SpeltBefore(d, <<>>, Len(d)) = SpeltBefore(d, g, Len(d))
      BY DEF SpeltBefore, Inner
    <3>3. \A j \in Len(d) .. Len(d) : j = Len(d)
      BY <1>1
    <3>4. SpeltFrom(d, g, Len(d))
      BY <3>1, <3>2, <3>3 DEF SpeltFrom
    <3> QED BY <2>1, <2>2, <3>4
  <2>3. CASE k # Len(d) /\ k + 1 \in 1 .. Len(d) /\ k + 1 \notin bad
    <3>1. PICK f : SpeltFrom(d, f, k + 1)
      BY <2>3
    <3> DEFINE g == [j \in k .. Len(d) |-> IF j = k THEN SpeltBefore(d, f, k) ELSE f[j]]
    <3>2. g[k] = SpeltBefore(d, f, k) /\ \A j \in k + 1 .. Len(d) : g[j] = f[j]
      BY <1>1, <2>1
    <3>3. g = [j \in k .. Len(d) |-> g[j]]
      OBVIOUS
    <3> HIDE DEF g
    <3>4. \A j \in k .. Len(d) : g[j] = SpeltBefore(d, g, j)
      <4> SUFFICES ASSUME NEW j \in k .. Len(d) PROVE g[j] = SpeltBefore(d, g, j)
        OBVIOUS
      <4>1. j # Len(d) => j + 1 \in k + 1 .. Len(d)
        BY <1>1, <2>1
      <4>2. j # Len(d) => g[j + 1] = f[j + 1]
        BY <3>2, <4>1
      <4>3. SpeltBefore(d, g, j) = SpeltBefore(d, f, j)
        BY <4>2, Zenon DEF SpeltBefore, Inner
      <4>4. CASE j = k
        BY <3>2, <4>3, <4>4
      <4>5. CASE j # k
        <5>1. j \in k + 1 .. Len(d)
          BY <1>1, <2>1, <4>5
        <5>2. f[j] = SpeltBefore(d, f, j)
          BY <3>1, <5>1 DEF SpeltFrom
        <5> QED BY <3>2, <4>3, <5>1, <5>2
      <4> QED BY <4>4, <4>5
    <3>5. SpeltFrom(d, g, k)
      BY <3>3, <3>4 DEF SpeltFrom
    <3> QED BY <2>1, <3>5
  <2> QED BY <2>1, <2>2, <2>3
<1> QED BY <1>2, <1>3

\* What the first items of a list of depth j spell.
Upto(d, j, items) == Spelling(items, Offsets(d)[j], Inner(d, Spelt(d), j))

\* All of them.
LEMMA SpeltIs ==
    ASSUME NEW d \in Dims, NEW j \in 1 .. Len(d), NEW items \in Lists(Len(d))[j]
    PROVE  Spelt(d)[j][items] = Upto(d, j, items)[Len(items)]
<1> DEFINE Eq(f) == f = [k \in 1 .. Len(d) |-> SpeltBefore(d, f, k)]
<1>1. 1 \in 1 .. Len(d)
  BY DEF Dims
<1>2. PICK f : SpeltFrom(d, f, 1)
  BY <1>1, SomeSpelt
<1>3. Eq(f)
  <2>1. /\ f = [k \in 1 .. Len(d) |-> f[k]]
        /\ \A k \in 1 .. Len(d) : f[k] = SpeltBefore(d, f, k)
    BY <1>2 DEF SpeltFrom
  <2> QED BY <2>1
<1>4. Spelt(d) = CHOOSE g : Eq(g)
  BY DEF Spelt, SpeltBefore, Inner
<1>5. Eq(Spelt(d))
  BY <1>3, <1>4, Zenon
<1>6. Spelt(d)[j] = SpeltBefore(d, Spelt(d), j)
  BY <1>5
<1> QED BY <1>6, Zenon DEF SpeltBefore, Upto

\* What item i adds to what those before it spell.
Add(items, n, inner, i, s) ==
    IF items[i].brace THEN UpToMultiple(s, n) \o Whole(inner[items[i].items], n)
                      ELSE Append(s, 1)
After(items, n, inner, f, i) == IF i = 0 THEN <<>> ELSE Add(items, n, inner, i, f[i - 1])

SpellingTo(items, n, inner, f, m) ==
    /\ f = [i \in 0 .. m |-> f[i]]
    /\ \A i \in 0 .. m : f[i] = After(items, n, inner, f, i)

LEMMA SomeSpelling ==
    ASSUME NEW items, Len(items) \in Nat, NEW n, NEW inner, NEW m \in 0 .. Len(items)
    PROVE  \E f : SpellingTo(items, n, inner, f, m)
<1> DEFINE bad == {k \in 0 .. Len(items) : ~ \E f : SpellingTo(items, n, inner, f, k)}
<1>1. CASE bad = {}
  BY <1>1
<1>2. CASE bad # {}
  <2>1. PICK k \in bad : k = 0 \/ (k - 1 \in 0 .. Len(items) /\ k - 1 \notin bad)
    <3>1. bad \subseteq 0 .. Len(items)
      OBVIOUS
    <3> HIDE DEF bad
    <3> QED BY <1>2, <3>1, FirstBad
  <2>2. CASE k = 0
    <3> DEFINE g == [i \in 0 .. 0 |-> <<>>]
    <3>1. g = [i \in 0 .. 0 |-> g[i]] /\ \A i \in 0 .. 0 : i = 0 /\ g[i] = <<>>
      OBVIOUS
    <3> HIDE DEF g
    <3>2. SpellingTo(items, n, inner, g, 0)
      BY <3>1 DEF SpellingTo, After
    <3> QED BY <2>1, <2>2, <3>2
  <2>3. CASE k # 0 /\ k - 1 \in 0 .. Len(items) /\ k - 1 \notin bad
    <3>0. k \in Nat
      BY <2>1
    <3>1. PICK f : SpellingTo(items, n, inner, f, k - 1)
      BY <2>3
    <3> DEFINE g == [i \in 0 .. k |-> IF i = k THEN After(items, n, inner, f, k) ELSE f[i]]
    <3>2. g[k] = After(items, n, inner, f, k) /\ \A i \in 0 .. k - 1 : g[i] = f[i]
      BY <3>0
    <3>3. g = [i \in 0 .. k |-> g[i]]
      OBVIOUS
    <3> HIDE DEF g
    <3>4. \A i \in 0 .. k : g[i] = After(items, n, inner, g, i)
      <4> SUFFICES ASSUME NEW i \in 0 .. k PROVE g[i] = After(items, n, inner, g, i)
        OBVIOUS
      <4>1. i # 0 => i - 1 \in 0 .. k - 1
        BY <3>0
      <4>2. i # 0 => g[i - 1] = f[i - 1]
        BY <3>2, <4>1
      <4>3. After(items, n, inner, g, i) = After(items, n, inner, f, i)
        BY <4>2, Zenon DEF After
      <4>4. CASE i = k
        BY <3>2, <4>3, <4>4
      <4>5. CASE i # k
        <5>1. i \in 0 .. k - 1
          BY <3>0, <4>5
        <5>2. f[i] = After(items, n, inner, f, i)
          BY <3>1, <5>1 DEF SpellingTo
        <5> QED BY <3>2, <4>3, <5>1, <5>2
      <4> QED BY <4>4, <4>5
    <3>5. SpellingTo(items, n, inner, g, k)
      BY <3>3, <3>4 DEF SpellingTo
    <3> QED BY <2>1, <3>5
  <2> QED BY <2>1, <2>2, <2>3
<1> QED BY <1>1, <1>2

\* What the first items spell.
LEMMA SpellingIs ==
    ASSUME NEW items, Len(items) \in Nat, NEW n, NEW inner, NEW i \in 0 .. Len(items)
    PROVE  Spelling(items, n, inner)[i] =
             After(items, n, inner, Spelling(items, n, inner), i)
<1> DEFINE Eq(f) == f = [k \in 0 .. Len(items) |-> After(items, n, inner, f, k)]
<1>1. Len(items) \in 0 .. Len(items)
  OBVIOUS
<1>2. PICK f : SpellingTo(items, n, inner, f, Len(items))
  BY <1>1, SomeSpelling
<1>3. Eq(f)
  <2>1. /\ f = [k \in 0 .. Len(items) |-> f[k]]
        /\ \A k \in 0 .. Len(items) : f[k] = After(items, n, inner, f, k)
    BY <1>2 DEF SpellingTo
  <2> QED BY <2>1
<1>4. Spelling(items, n, inner) = CHOOSE g : Eq(g)
  BY DEF Spelling, After, Add
<1>5. Eq(Spelling(items, n, inner))
  BY <1>3, <1>4, Zenon
<1> QED BY <1>5

-----------------------------------------------------------------------------
(* What is spelt is made of 0, 1 and 2, and grows from item to item.       *)

Marks == Seq(0 .. 2)

\* What a list of depth j consists of.
LEMMA ItemIs ==
    ASSUME NEW n \in Nat, NEW j \in 1 .. n, NEW items \in Lists(n)[j]
    PROVE  /\ \E S : items \in Seq(S)
           /\ Len(items) \in Nat
           /\ \A i \in 1 .. Len(items) : items[i].brace =>
                /\ j # n /\ j + 1 \in 1 .. n
                /\ items[i].items \in Lists(n)[j + 1]
<1> DEFINE B == [brace : {TRUE}, items : Lists(n)[j + 1]]
           S == {Expr} \cup (IF j = n THEN {} ELSE B)
<1>1. items \in Seq(S)
  BY ListsAre DEF ListsBefore
<1>2. ASSUME NEW x \in S, x.brace PROVE j # n /\ x.items \in Lists(n)[j + 1]
  <2>1. ~ Expr.brace
    BY DEF Expr
  <2>2. x # Expr
    BY <1>2, <2>1
  <2>3. x \in B /\ j # n
    BY <2>2
  <2> QED BY <2>3
<1> HIDE DEF S
<1>3. Len(items) \in Nat /\ \A i \in 1 .. Len(items) : items[i] \in S
  BY <1>1
<1>4. j # n => j + 1 \in 1 .. n
  OBVIOUS
<1> QED BY <1>1, <1>2, <1>3, <1>4

\* Filling with zeros.
LEMMA ZerosType ==
    ASSUME NEW n \in Nat
    PROVE  Zeros(n) \in Marks /\ Len(Zeros(n)) = n /\ \A k \in 1 .. n : Zeros(n)[k] = 0
BY DEF Zeros, Marks

LEMMA WholeType ==
    ASSUME NEW s \in Marks, NEW n \in Nat \ {0}
    PROVE  /\ Whole(s, n) \in Marks
           /\ Len(s) <= n => Len(Whole(s, n)) = n
           /\ Len(s) <= n => \A k \in 1 .. n :
                  Whole(s, n)[k] = IF k <= Len(s) THEN s[k] ELSE 0
           /\ ~ (Len(s) <= n) => Whole(s, n) = <<2>>
<1>1. Len(s) \in Nat
  BY DEF Marks
<1>2. CASE Len(s) <= n
  <2>1. n - Len(s) \in Nat
    BY <1>1, <1>2
  <2>2. /\ Zeros(n - Len(s)) \in Marks /\ Len(Zeros(n - Len(s))) = n - Len(s)
        /\ \A k \in 1 .. n - Len(s) : Zeros(n - Len(s))[k] = 0
    BY <2>1, ZerosType
  <2>3. Whole(s, n) = s \o Zeros(n - Len(s))
    BY <1>2 DEF Whole
  <2>4. /\ s \o Zeros(n - Len(s)) \in Marks
        /\ Len(s \o Zeros(n - Len(s))) = Len(s) + (n - Len(s))
        /\ \A k \in 1 .. Len(s) + (n - Len(s)) : (s \o Zeros(n - Len(s)))[k] =
              IF k <= Len(s) THEN s[k] ELSE Zeros(n - Len(s))[k - Len(s)]
    BY <2>2, ConcatProperties DEF Marks
  <2>5. Len(s) + (n - Len(s)) = n
    BY <1>1
  <2>6. \A k \in 1 .. n : ~ (k <= Len(s)) => k - Len(s) \in 1 .. n - Len(s)
    BY <1>1
  <2> QED BY <1>2, <2>2, <2>3, <2>4, <2>5, <2>6
<1>3. CASE ~ (Len(s) <= n)
  <2>1. <<2>> \in Marks
    BY DEF Marks
  <2> QED BY <1>3, <2>1 DEF Whole
<1> QED BY <1>2, <1>3

\* Dividing.
LEMMA Division ==
    ASSUME NEW x \in Int, NEW n \in Nat \ {0}
    PROVE  x = n * (x \div n) + (x % n) /\ x % n \in 0 .. n - 1 /\ x \div n \in Int
OBVIOUS

\* round_up() is what is filled up to.
LEMMA RoundUp ==
    ASSUME NEW x \in Nat, NEW n \in Nat \ {0}
    PROVE  round_up(x, n) = x + ((-x) % n) /\ (-x) % n \in Nat
<1> DEFINE q == x \div n
           r == x % n
           s == (-x) \div n
           t == (-x) % n
<1>1. x = n * q + r /\ r \in 0 .. n - 1 /\ q \in Int
  BY Division
<1>2. -x \in Int
  OBVIOUS
<1>3. -x = n * s + t /\ t \in 0 .. n - 1 /\ s \in Int
  BY Division, <1>2
<1> HIDE DEF q, r, s, t
<1>4. r + t = n * (-(q + s)) /\ r + t \in 0 .. 2 * n - 2
  BY <1>1, <1>3
<1>5. -(q + s) = 0 \/ -(q + s) = 1
  <2> DEFINE k == -(q + s)
  <2>1. k \in Int /\ n * k \in 0 .. 2 * n - 2
    BY <1>1, <1>3, <1>4
  <2> HIDE DEF k
  <2>2. k = 0 \/ k = 1
    BY <2>1
  <2> QED BY <2>2 DEF k
<1>6. r + t = 0 \/ r + t = n
  BY <1>4, <1>5
<1> QED BY <1>1, <1>3, <1>6 DEF round_up, q, r, t

LEMMA UpToMultipleType ==
    ASSUME NEW s \in Marks, NEW n \in Nat \ {0}
    PROVE  /\ UpToMultiple(s, n) \in Marks
           /\ Len(UpToMultiple(s, n)) = round_up(Len(s), n)
           /\ round_up(Len(s), n) \in Nat /\ Len(s) <= round_up(Len(s), n)
           /\ \A k \in 1 .. round_up(Len(s), n) :
                UpToMultiple(s, n)[k] = IF k <= Len(s) THEN s[k] ELSE 0
<1> DEFINE z == (-Len(s)) % n
<1>1. Len(s) \in Nat
  BY DEF Marks
<1>2. z \in Nat /\ round_up(Len(s), n) = Len(s) + z
  BY <1>1, RoundUp
<1>3. UpToMultiple(s, n) = s \o Zeros(z)
  BY DEF UpToMultiple
<1> HIDE DEF z
<1>4. Zeros(z) \in Marks /\ Len(Zeros(z)) = z /\ \A k \in 1 .. z : Zeros(z)[k] = 0
  BY <1>2, ZerosType
<1>5. /\ s \o Zeros(z) \in Marks /\ Len(s \o Zeros(z)) = Len(s) + z
      /\ \A k \in 1 .. Len(s) + z : (s \o Zeros(z))[k] =
            IF k <= Len(s) THEN s[k] ELSE Zeros(z)[k - Len(s)]
  BY <1>4, ConcatProperties DEF Marks
<1>6. \A k \in 1 .. Len(s) + z : ~ (k <= Len(s)) => k - Len(s) \in 1 .. z
  BY <1>1, <1>2
<1> QED BY <1>1, <1>2, <1>3, <1>4, <1>5, <1>6

\* The beginning of t.
Starts(s, t) == Len(s) <= Len(t) /\ \A k \in 1 .. Len(s) : t[k] = s[k]

\* An expression more.
LEMMA AddExpr ==
    ASSUME NEW s \in Marks
    PROVE  /\ Append(s, 1) \in Marks /\ Starts(s, Append(s, 1))
           /\ Len(Append(s, 1)) = Len(s) + 1 /\ Append(s, 1)[Len(s) + 1] = 1
<1>1. 1 \in 0 .. 2
  OBVIOUS
<1> QED BY <1>1, AppendProperties DEF Marks, Starts

\* A brace more.
Braced(s, x, n) == UpToMultiple(s, n) \o Whole(x, n)

LEMMA AddBrace ==
    ASSUME NEW s \in Marks, NEW x \in Marks, NEW n \in Nat \ {0}
    PROVE  LET at == round_up(Len(s), n)
               t  == Braced(s, x, n)
           IN  /\ t \in Marks /\ Starts(s, t) /\ at \in Nat /\ Len(s) <= at
               /\ \A k \in Len(s) + 1 .. at : t[k] = 0
               /\ ~ (Len(x) <= n) => t[at + 1] = 2 /\ Len(t) = at + 1
               /\ Len(x) <= n =>
                    /\ Len(t) = at + n
                    /\ \A k \in 1 .. n : t[at + k] = IF k <= Len(x) THEN x[k] ELSE 0
<1> DEFINE at == round_up(Len(s), n)
           u  == UpToMultiple(s, n)
           v  == Whole(x, n)
           t  == Braced(s, x, n)
<1>1. /\ u \in Marks /\ Len(u) = at /\ at \in Nat /\ Len(s) <= at
      /\ \A k \in 1 .. at : u[k] = IF k <= Len(s) THEN s[k] ELSE 0
  BY UpToMultipleType
<1>2. /\ v \in Marks
      /\ Len(x) <= n => Len(v) = n
      /\ Len(x) <= n => \A k \in 1 .. n : v[k] = IF k <= Len(x) THEN x[k] ELSE 0
      /\ ~ (Len(x) <= n) => v = <<2>>
  BY WholeType
<1> HIDE DEF at, u, v
<1>3. /\ t \in Marks /\ Len(t) = Len(u) + Len(v)
      /\ \A k \in 1 .. Len(u) + Len(v) : t[k] =
            IF k <= Len(u) THEN u[k] ELSE v[k - Len(u)]
  <2> DEFINE c == u \o v
  <2>1. /\ c \in Marks /\ Len(c) = Len(u) + Len(v)
        /\ \A k \in 1 .. Len(u) + Len(v) : c[k] = IF k <= Len(u) THEN u[k] ELSE v[k - Len(u)]
    <3>1. u \in Marks /\ v \in Marks
      BY <1>1, <1>2
    <3> QED BY <3>1, ConcatProperties DEF Marks
  <2>2. t = c
    BY DEF Braced, u, v
  <2> HIDE DEF c, t
  <2> QED BY <2>1, <2>2
<1> HIDE DEF t
<1>4. Len(s) \in Nat /\ Len(v) \in Nat /\ Len(x) \in Nat
  BY <1>2 DEF Marks
<1>5. \A k \in 1 .. at : t[k] = u[k]
  BY <1>1, <1>3, <1>4
<1>6. \A k \in 1 .. Len(v) : t[at + k] = v[k]
  <2>1. ASSUME NEW q \in at + 1 .. at + Len(v) PROVE t[q] = v[q - at]
    <3>1. q \in 1 .. Len(u) + Len(v) /\ ~ (q <= Len(u))
      BY <1>1, <1>4
    <3>2. t[q] = v[q - Len(u)]
      BY <1>3, <3>1
    <3> QED BY <1>1, <3>2
  <2>2. ASSUME NEW k \in 1 .. Len(v), NEW q, q = at + k PROVE t[q] = v[k]
    <3>1. q \in at + 1 .. at + Len(v) /\ q - at = k
      BY <1>1, <1>4, <2>2
    <3> QED BY <2>1, <3>1
  <2> QED BY <2>2
<1>7. Starts(s, t)
  BY <1>1, <1>3, <1>4, <1>5 DEF Starts
<1>8. \A k \in Len(s) + 1 .. at : t[k] = 0
  BY <1>1, <1>4, <1>5
<1>9. ~ (Len(x) <= n) => t[at + 1] = 2 /\ Len(t) = at + 1
  <2> SUFFICES ASSUME ~ (Len(x) <= n) PROVE t[at + 1] = 2 /\ Len(t) = at + 1
    OBVIOUS
  <2>1. v = <<2>>
    BY <1>2
  <2>2. Len(v) = 1 /\ v[1] = 2
    BY <2>1
  <2> QED BY <1>1, <1>3, <1>6, <2>2
<1>10. Len(x) <= n =>
         /\ Len(t) = at + n
         /\ \A k \in 1 .. n : t[at + k] = IF k <= Len(x) THEN x[k] ELSE 0
  BY <1>1, <1>2, <1>3, <1>6
<1> QED BY <1>1, <1>3, <1>7, <1>8, <1>9, <1>10 DEF at, u, v, t

LEMMA BracedType ==
    \A s, x \in Marks : \A n \in Nat \ {0} :
       Braced(s, x, n) \in Marks /\ Starts(s, Braced(s, x, n))
<1> TAKE s, x \in Marks
<1> TAKE n \in Nat \ {0}
<1> QED BY AddBrace

\* What a brace in a list spells.
Sub(d, j, items, i) == Spelt(d)[j + 1][items[i].items]

\* From item to item.
LEMMA UptoStep ==
    ASSUME NEW d \in Dims, NEW j \in 1 .. Len(d), NEW items \in Lists(Len(d))[j]
    PROVE  /\ Upto(d, j, items)[0] = <<>>
           /\ \A i \in 1 .. Len(items) :
                /\ items[i].brace =>
                     Upto(d, j, items)[i] =
                       Braced(Upto(d, j, items)[i - 1], Sub(d, j, items, i), Offsets(d)[j])
                /\ ~ items[i].brace =>
                     Upto(d, j, items)[i] = Append(Upto(d, j, items)[i - 1], 1)
<1>1. Len(d) \in Nat
  BY DEF Dims
<1>2. /\ Len(items) \in Nat
      /\ \A i \in 1 .. Len(items) : items[i].brace => j # Len(d)
  BY <1>1, ItemIs
<1>3. 0 \in 0 .. Len(items) /\ \A i \in 1 .. Len(items) : i \in 0 .. Len(items) /\ i # 0
  BY <1>2
<1>4. \A i \in 0 .. Len(items) :
         Upto(d, j, items)[i] =
           After(items, Offsets(d)[j], Inner(d, Spelt(d), j), Upto(d, j, items), i)
  BY <1>2, SpellingIs DEF Upto
<1>5. Upto(d, j, items)[0] = <<>>
  BY <1>3, <1>4, Zenon DEF After
<1>6. ASSUME NEW i \in 1 .. Len(items)
      PROVE  Upto(d, j, items)[i] =
               Add(items, Offsets(d)[j], Inner(d, Spelt(d), j), i, Upto(d, j, items)[i - 1])
  BY <1>3, <1>4, Zenon DEF After
<1>7. ASSUME NEW i \in 1 .. Len(items), items[i].brace
      PROVE  Inner(d, Spelt(d), j)[items[i].items] = Sub(d, j, items, i)
  BY <1>2, <1>7, Zenon DEF Inner, Sub
<1> QED BY <1>5, <1>6, <1>7, Zenon DEF Add, Braced

\* It is marks, if what the braces in it spell is.
LEMMA UptoMarks ==
    ASSUME NEW d \in Dims, NEW j \in 1 .. Len(d), NEW items \in Lists(Len(d))[j],
           \A i \in 1 .. Len(items) : items[i].brace => Sub(d, j, items, i) \in Marks,
           NEW i \in 0 .. Len(items)
    PROVE  Upto(d, j, items)[i] \in Marks
<1> DEFINE U == Upto(d, j, items)
           bad == {k \in 0 .. Len(items) : U[k] \notin Marks}
<1>1. Len(items) \in Nat
  BY ItemIs DEF Dims
<1>2. CASE bad = {}
  BY <1>2
<1>3. CASE bad # {}
  <2>1. PICK k \in bad : k = 0 \/ (k - 1 \in 0 .. Len(items) /\ k - 1 \notin bad)
    <3>1. bad \subseteq 0 .. Len(items)
      OBVIOUS
    <3> HIDE DEF bad
    <3> QED BY <1>1, <1>3, <3>1, FirstBad
  <2>2. k # 0
    <3>1. U[0] = <<>> /\ <<>> \in Marks
      BY UptoStep DEF Marks
    <3> QED BY <2>1, <3>1
  <2>3. k \in 1 .. Len(items) /\ U[k - 1] \in Marks
    BY <1>1, <2>1, <2>2
  <2>4. Offsets(d)[j] \in Nat \ {0}
    BY OffsetsType
  <2>5. CASE items[k].brace
    <3>1. U[k] = Braced(U[k - 1], Sub(d, j, items, k), Offsets(d)[j])
      BY <2>3, <2>5, UptoStep
    <3>2. Sub(d, j, items, k) \in Marks
      BY <2>3, <2>5
    <3> HIDE DEF U
    <3>3. U[k] \in Marks
      BY <2>3, <2>4, <3>1, <3>2, BracedType
    <3> QED BY <2>1, <3>3
  <2>6. CASE ~ items[k].brace
    <3>1. U[k] = Append(U[k - 1], 1)
      BY <2>3, <2>6, UptoStep
    <3> HIDE DEF U
    <3>2. U[k] \in Marks
      BY <2>3, <3>1, AddExpr
    <3> QED BY <2>1, <3>2
  <2> QED BY <2>5, <2>6
<1> QED BY <1>2, <1>3

\* Every list spells marks.
LEMMA SpeltMarks ==
    ASSUME NEW d \in Dims, NEW j \in 1 .. Len(d), NEW items \in Lists(Len(d))[j]
    PROVE  Spelt(d)[j][items] \in Marks
<1> DEFINE n == Len(d)
           Good(k) == \A s \in Lists(n)[k] : Spelt(d)[k][s] \in Marks
           bad == {k \in 1 .. n : ~ Good(k)}
<1>1. n \in Nat
  BY DEF Dims
<1>2. CASE bad = {}
  BY <1>2
<1>3. CASE bad # {}
  <2>1. PICK k \in bad : k = n \/ (k + 1 \in 1 .. n /\ k + 1 \notin bad)
    <3>1. bad \subseteq 1 .. n
      OBVIOUS
    <3> HIDE DEF bad
    <3> QED BY <1>1, <1>3, <3>1, LastBad
  <2>2. PICK s \in Lists(n)[k] : Spelt(d)[k][s] \notin Marks
    BY <2>1
  <2>3. k \in 1 .. n /\ (k # n => Good(k + 1))
    BY <2>1
  <2>4. ASSUME NEW i \in 1 .. Len(s), s[i].brace PROVE Sub(d, k, s, i) \in Marks
    <3>1. k # n /\ s[i].items \in Lists(n)[k + 1]
      BY <1>1, <2>3, <2>4, ItemIs
    <3> QED BY <2>3, <3>1 DEF Sub
  <2>5. Len(s) \in Nat /\ Len(s) \in 0 .. Len(s)
    BY <1>1, <2>3, ItemIs
  <2> HIDE DEF Good, bad
  <2>6. Upto(d, k, s)[Len(s)] \in Marks
    BY <2>3, <2>4, <2>5, UptoMarks
  <2>7. Spelt(d)[k][s] = Upto(d, k, s)[Len(s)]
    BY <2>3, SpeltIs
  <2> QED BY <2>2, <2>6, <2>7
<1> QED BY <1>2, <1>3

\* From item to item, with types.
LEMMA UptoIs ==
    ASSUME NEW d \in Dims, NEW j \in 1 .. Len(d), NEW items \in Lists(Len(d))[j]
    PROVE  /\ Len(items) \in Nat
           /\ \A i \in 0 .. Len(items) : Upto(d, j, items)[i] \in Marks
           /\ \A i \in 1 .. Len(items) : items[i].brace => Sub(d, j, items, i) \in Marks
<1>1. Len(d) \in Nat
  BY DEF Dims
<1>2. /\ Len(items) \in Nat
      /\ \A i \in 1 .. Len(items) : items[i].brace =>
            j + 1 \in 1 .. Len(d) /\ items[i].items \in Lists(Len(d))[j + 1]
  BY <1>1, ItemIs
<1>3. \A i \in 1 .. Len(items) : items[i].brace => Sub(d, j, items, i) \in Marks
  BY <1>2, SpeltMarks DEF Sub
<1> QED BY <1>2, <1>3, UptoMarks

\* Being a beginning goes on.
LEMMA StartsThrough ==
    ASSUME NEW s \in Marks, NEW t \in Marks, NEW u \in Marks, Starts(s, t), Starts(t, u)
    PROVE  Starts(s, u)
<1>1. Len(s) \in Nat /\ Len(t) \in Nat /\ Len(u) \in Nat
  BY DEF Marks
<1> QED BY <1>1 DEF Starts

\* The first items spell the beginning of what all of them spell.
LEMMA UptoStarts ==
    ASSUME NEW d \in Dims, NEW j \in 1 .. Len(d), NEW items \in Lists(Len(d))[j],
           NEW i \in 0 .. Len(items)
    PROVE  Starts(Upto(d, j, items)[i], Spelt(d)[j][items])
<1> DEFINE U == Upto(d, j, items)
           n == Len(items)
           bad == {k \in 0 .. n : ~ Starts(U[k], U[n])}
<1>1. /\ n \in Nat /\ \A k \in 0 .. n : U[k] \in Marks
      /\ \A k \in 1 .. n : items[k].brace => Sub(d, j, items, k) \in Marks
  BY UptoIs
<1>2. Offsets(d)[j] \in Nat \ {0}
  BY OffsetsType
<1>3. ASSUME NEW k \in 1 .. n PROVE Starts(U[k - 1], U[k])
  <2>1. U[k - 1] \in Marks
    BY <1>1
  <2>2. CASE items[k].brace
    <3>1. U[k] = Braced(U[k - 1], Sub(d, j, items, k), Offsets(d)[j])
      BY <2>2, UptoStep
    <3>2. Sub(d, j, items, k) \in Marks
      BY <1>1, <2>2
    <3> HIDE DEF U
    <3> QED BY <1>2, <2>1, <3>1, <3>2, BracedType
  <2>3. CASE ~ items[k].brace
    <3>1. U[k] = Append(U[k - 1], 1)
      BY <2>3, UptoStep
    <3> HIDE DEF U
    <3> QED BY <2>1, <3>1, AddExpr
  <2> QED BY <2>2, <2>3
<1>4. Spelt(d)[j][items] = U[n] /\ i \in 0 .. n
  BY SpeltIs
<1> HIDE DEF U, n
<1>5. CASE bad = {}
  BY <1>4, <1>5 DEF U
<1>6. CASE bad # {}
  <2>1. bad \subseteq 0 .. n
    OBVIOUS
  <2>2. PICK k \in bad : \A y \in bad : y <= k
    BY <1>1, <1>6, <2>1, Greatest
  <2>3. k # n
    <3>1. Starts(U[n], U[n])
      BY <1>1 DEF Starts, Marks
    <3> QED BY <2>2, <3>1
  <2>4. k \in 0 .. n /\ k + 1 \in 1 .. n /\ k + 1 \in 0 .. n /\ k + 1 - 1 = k
    BY <1>1, <2>2, <2>3
  <2>5. k + 1 \notin bad
    BY <2>2, <2>4
  <2>6. Starts(U[k + 1], U[n]) /\ Starts(U[k], U[k + 1])
    <3>1. Starts(U[k + 1 - 1], U[k + 1])
      BY <1>3, <2>4
    <3> QED BY <2>4, <2>5, <3>1
  <2>7. U[k] \in Marks /\ U[k + 1] \in Marks /\ U[n] \in Marks
    BY <1>1, <2>4
  <2> QED BY <2>2, <2>6, <2>7, StartsThrough
<1> QED BY <1>5, <1>6

-----------------------------------------------------------------------------
(* The invariant.  While the initialiser is gone through, w[l] is the list *)
(* that call l was given and i[l] how far it is in it.                     *)

Pieces(n) == UNION {Lists(n)[j] : j \in 1 .. n}
Frames(n) == [items : Pieces(n), base : Nat, current : Nat]

Types ==
    /\ dims \in Dims /\ global \in BOOLEAN /\ pc \in {"align", "expand", "done"}
    /\ stack \in Seq(Frames(Len(dims))) /\ Len(stack) \in 1 .. Len(dims)
    /\ result \in Seq([offset : Nat, exp : Nat])
    /\ expanded \in Seq(Nat) /\ Len(expanded) <= size
    /\ it \in 1 .. Len(result) + 1
    /\ pc = "align" => expanded = <<>> /\ it = 1
    /\ pc = "done" /\ ~global => Len(expanded) = size

\* What is left to do in each call, and which brace the next one is for.
Nested(w, i) ==
    /\ \A l \in 1 .. Len(stack) :
         /\ w[l] \in Lists(Len(dims))[l] /\ i[l] \in 0 .. Len(w[l])
         /\ stack[l].items = SubSeq(w[l], i[l] + 1, Len(w[l]))
    /\ \A l \in 1 .. Len(stack) - 1 :
         /\ i[l] # 0 /\ w[l][i[l]].brace /\ w[l + 1] = w[l][i[l]].items
         /\ stack[l + 1].base = stack[l].base + stack[l].current

\* The elements of the array, as the initialiser denotes them.
Meant(all) ==
    all \in Seq(0 .. 1) /\ Len(all) = size /\ meant = Numbered(all)

\* The r elements of the array from b on are s and zeros.
Placed(all, b, s, r) ==
    /\ Len(s) <= r /\ b + r <= Len(all)
    /\ \A k \in 1 .. r : all[b + k] = IF k <= Len(s) THEN s[k] ELSE 0

Room(l) == IF l = 1 THEN size ELSE offsets[l - 1]

\* Each call's part of the array, and where it is in it.
Placing(w, i, all) ==
    /\ \A l \in 1 .. Len(stack) :
          Placed(all, stack[l].base, Spelt(dims)[l][w[l]], Room(l))
    /\ top.current = Len(Upto(dims, Len(stack), w[Len(stack)])[i[Len(stack)]])
    /\ \A l \in 1 .. Len(stack) - 1 :
          stack[l].current = round_up(Len(Upto(dims, l, w[l])[i[l] - 1]), offsets[l])

Ones(all, h) == {k \in 1 .. h : all[k] = 1}

\* The list has the expressions among the first h elements, in their order.
Listed(list, all, h) ==
    /\ Len(list) = Cardinality(Ones(all, h))
    /\ \A k \in 1 .. Len(list) :
          /\ list[k].offset < h /\ all[list[k].offset + 1] = 1
          /\ list[k].exp = Cardinality(Ones(all, list[k].offset + 1))
    /\ \A k, l \in 1 .. Len(list) : k < l => list[k].offset < list[l].offset
    /\ \A x \in 1 .. h : all[x] = 1 => \E k \in 1 .. Len(list) : list[k].offset = x - 1

Here == top.base + top.current

\* What has been filled, and what of the list is still to come.
Filling ==
    /\ \A k \in 1 .. Len(expanded) : expanded[k] = meant[k]
    /\ \A k \in 1 .. it - 1 : result[k].offset < Len(expanded)
    /\ \A k \in it .. Len(result) : Len(expanded) <= result[k].offset

Alignment(w, i) ==
    /\ Nested(w, i)
    /\ meant # <<>> =>
         \E all : Meant(all) /\ Placing(w, i, all) /\ Listed(result, all, Here)

IInv ==
    /\ Types
    /\ pc = "align" => \E w, i : Alignment(w, i)
    /\ pc # "align" /\ meant # <<>> =>
         \E all : Meant(all) /\ Listed(result, all, size) /\ Filling

-----------------------------------------------------------------------------

\* The array is as large as its first dimension says.
LEMMA SizeType ==
    ASSUME Types
    PROVE  /\ size \in Nat \ {0} /\ Len(dims) \in Nat /\ 1 \in 1 .. Len(dims)
           /\ offsets = Offsets(dims)
           /\ \A l \in 1 .. Len(dims) : offsets[l] \in Nat \ {0}
<1>1. dims \in Dims /\ Len(dims) \in Nat /\ 1 \in 1 .. Len(dims)
  BY DEF Types, Dims
<1>2. \A l \in 1 .. Len(dims) : offsets[l] \in Nat \ {0}
  BY <1>1, OffsetsType DEF offsets
<1>3. dims[1] \in Nat \ {0}
  BY <1>1 DEF Dims
<1>4. \A x, y \in Nat \ {0} : x * y \in Nat \ {0}
  OBVIOUS
<1> QED BY <1>1, <1>2, <1>3, <1>4 DEF size, offsets

\* What is left of a list of which i items have been taken.
LEMMA RestOfList ==
    ASSUME NEW S, NEW s \in Seq(S), NEW i \in 0 .. Len(s)
    PROVE  LET r == SubSeq(s, i + 1, Len(s))
           IN  /\ r = <<>> <=> i = Len(s)
               /\ r # <<>> => /\ Head(r) = s[i + 1]
                              /\ Tail(r) = SubSeq(s, i + 2, Len(s))
                              /\ i + 1 \in 1 .. Len(s)
<1> DEFINE r == SubSeq(s, i + 1, Len(s))
<1>1. Len(s) \in Nat /\ i \in Nat /\ i <= Len(s)
  OBVIOUS
<1>2. CASE i = Len(s)
  <2>1. i + 1 \in Int /\ Len(s) \in Int /\ Len(s) < i + 1
    BY <1>1, <1>2
  <2>2. r = <<>>
    BY <2>1, SubSeqEmpty
  <2> QED BY <1>2, <2>2
<1>3. CASE i # Len(s)
  <2>1. i + 1 \in 1 .. Len(s) /\ Len(s) \in i + 1 .. Len(s)
    BY <1>1, <1>3
  <2>2. Head(r) = s[i + 1] /\ Tail(r) = SubSeq(s, i + 1 + 1, Len(s))
    BY <2>1, HeadTailOfSubSeq
  <2>3. Len(r) = Len(s) - i /\ Len(r) > 0
    BY <1>1, <1>3
  <2>4. r # <<>>
    <3> HIDE DEF r
    <3>1. Len(<<>>) = 0
      BY EmptySeq
    <3> QED BY <2>3, <3>1
  <2>5. i + 1 + 1 = i + 2
    BY <1>1
  <2> QED BY <1>3, <2>1, <2>2, <2>4, <2>5
<1> QED BY <1>2, <1>3

\* What is left of a list of depth j is one, and so is what is left of that.
LEMMA PieceType ==
    ASSUME NEW n \in Nat, NEW j \in 1 .. n, NEW s \in Lists(n)[j], NEW i \in 0 .. Len(s)
    PROVE  SubSeq(s, i + 1, Len(s)) \in Lists(n)[j] /\ SubSeq(s, i + 1, Len(s)) \in Pieces(n)
<1> DEFINE B == {Expr} \cup (IF j = n THEN {} ELSE [brace : {TRUE}, items : Lists(n)[j + 1]])
<1>1. Lists(n)[j] = Seq(B)
  BY ListsAre DEF ListsBefore
<1> HIDE DEF B
<1>2. s \in Seq(B) /\ i + 1 \in Int /\ Len(s) \in Int
  BY <1>1
<1>3. \A k \in i + 1 .. Len(s) : s[k] \in B
  BY <1>2
<1>4. SubSeq(s, i + 1, Len(s)) \in Seq(B)
  BY <1>2, <1>3, SubSeqProperties
<1> QED BY <1>1, <1>4 DEF Pieces

\* The stack without its top, with another call on top, and with one more.
LEMMA FrontIs ==
    ASSUME NEW S, NEW s \in Seq(S), Len(s) \in Nat \ {0}
    PROVE  /\ Front(s) \in Seq(S) /\ Len(Front(s)) = Len(s) - 1
           /\ \A k \in 1 .. Len(s) - 1 : Front(s)[k] = s[k]
<1> DEFINE n == Len(s)
           f == Front(s)
<1>1. f = SubSeq(s, 1, n - 1)
  BY DEF Front
<1>2. n - 1 \in Int /\ 1 \in Int /\ \A k \in 1 .. n - 1 : s[k] \in S
  OBVIOUS
<1>3. /\ f \in Seq(S) /\ Len(f) = IF 1 <= n - 1 THEN n - 1 - 1 + 1 ELSE 0
      /\ \A k \in 1 .. n - 1 - 1 + 1 : f[k] = s[1 + k - 1]
  BY <1>1, <1>2, SubSeqProperties
<1>4. n - 1 - 1 + 1 = n - 1 /\ \A k \in 1 .. n - 1 : 1 + k - 1 = k
  BY <1>2
<1>5. 1 <= n - 1 \/ n - 1 = 0
  <2>1. n \in Nat \ {0}
    OBVIOUS
  <2> HIDE DEF n
  <2> QED BY <2>1
<1> QED BY <1>3, <1>4, <1>5

LEMMA Replaced ==
    ASSUME NEW S, NEW s \in Seq(S), Len(s) \in Nat \ {0}, NEW x \in S
    PROVE  /\ Append(Front(s), x) \in Seq(S)
           /\ Len(Append(Front(s), x)) = Len(s) /\ Append(Front(s), x)[Len(s)] = x
           /\ \A k \in 1 .. Len(s) - 1 : Append(Front(s), x)[k] = s[k]
<1> DEFINE n == Len(s)
           f == Front(s)
<1>1. f \in Seq(S) /\ Len(f) = n - 1 /\ (\A k \in 1 .. n - 1 : f[k] = s[k]) /\ n \in Nat \ {0}
  BY FrontIs
<1> HIDE DEF f, n
<1>2. /\ Append(f, x) \in Seq(S) /\ Len(Append(f, x)) = Len(f) + 1
      /\ \A k \in 1 .. Len(f) : Append(f, x)[k] = f[k]
      /\ Append(f, x)[Len(f) + 1] = x
  BY <1>1, AppendProperties
<1>3. Len(f) + 1 = n
  BY <1>1
<1> QED BY <1>1, <1>2, <1>3 DEF n, f

LEMMA Pushed ==
    ASSUME NEW S, NEW s \in Seq(S), Len(s) \in Nat \ {0}, NEW x \in S, NEW y \in S
    PROVE  /\ Front(s) \o <<x, y>> \in Seq(S)
           /\ Len(Front(s) \o <<x, y>>) = Len(s) + 1
           /\ (Front(s) \o <<x, y>>)[Len(s)] = x
           /\ (Front(s) \o <<x, y>>)[Len(s) + 1] = y
           /\ \A k \in 1 .. Len(s) - 1 : (Front(s) \o <<x, y>>)[k] = s[k]
<1> DEFINE n == Len(s)
           f == Front(s)
           t == <<x, y>>
<1>1. f \in Seq(S) /\ Len(f) = n - 1 /\ (\A k \in 1 .. n - 1 : f[k] = s[k]) /\ n \in Nat \ {0}
  BY FrontIs
<1>2. t \in Seq(S) /\ Len(t) = 2 /\ t[1] = x /\ t[2] = y
  OBVIOUS
<1> HIDE DEF f, n, t
<1>3. /\ f \o t \in Seq(S) /\ Len(f \o t) = n + 1
      /\ \A k \in 1 .. n + 1 : (f \o t)[k] = IF k <= n - 1 THEN f[k] ELSE t[k - (n - 1)]
  <2>1. /\ f \o t \in Seq(S) /\ Len(f \o t) = Len(f) + Len(t)
        /\ \A k \in 1 .. Len(f) + Len(t) :
              (f \o t)[k] = IF k <= Len(f) THEN f[k] ELSE t[k - Len(f)]
    BY <1>1, <1>2, ConcatProperties
  <2>2. Len(f) + Len(t) = n + 1
    BY <1>1, <1>2
  <2> QED BY <1>1, <2>1, <2>2
<1>4. (f \o t)[n] = x /\ (f \o t)[n + 1] = y
  <2>1. ASSUME NEW k \in 1 .. n + 1, NEW j \in 1 .. 2, k = n - 1 + j
        PROVE  (f \o t)[k] = t[j]
    <3>1. ~ (k <= n - 1) /\ k - (n - 1) = j
      BY <1>1, <2>1
    <3> QED BY <1>3, <3>1
  <2>2. n \in 1 .. n + 1 /\ 1 \in 1 .. 2 /\ n = n - 1 + 1
    BY <1>1
  <2>3. n + 1 \in 1 .. n + 1 /\ 2 \in 1 .. 2 /\ n + 1 = n - 1 + 2
    BY <1>1
  <2>4. (f \o t)[n] = t[1] /\ (f \o t)[n + 1] = t[2]
    BY <2>1, <2>2, <2>3, Zenon
  <2> QED BY <1>2, <2>4
<1>5. \A k \in 1 .. n - 1 : (f \o t)[k] = s[k]
  <2>1. \A k \in 1 .. n - 1 : k \in 1 .. n + 1 /\ k <= n - 1
    BY <1>1
  <2> QED BY <1>1, <1>3, <2>1
<1> QED BY <1>3, <1>4, <1>5 DEF n, f, t

\* The call that is running.
LEMMA Running ==
    ASSUME Types, NEW w, NEW i, Nested(w, i)
    PROVE  LET n == Len(dims)
               m == Len(stack)
           IN  /\ n \in Nat /\ m \in 1 .. n /\ m \in Nat \ {0} /\ m \in 1 .. m
               /\ top = stack[m] /\ top.base \in Nat /\ top.current \in Nat
               /\ w[m] \in Lists(n)[m] /\ Len(w[m]) \in Nat /\ i[m] \in 0 .. Len(w[m])
               /\ top.items = SubSeq(w[m], i[m] + 1, Len(w[m]))
               /\ top.items = <<>> <=> i[m] = Len(w[m])
               /\ top.items # <<>> =>
                    /\ i[m] + 1 \in 1 .. Len(w[m])
                    /\ Head(top.items) = w[m][i[m] + 1]
                    /\ Tail(top.items) = SubSeq(w[m], i[m] + 2, Len(w[m]))
                    /\ Tail(top.items) \in Pieces(n)
<1> DEFINE n == Len(dims)
           m == Len(stack)
<1>1. n \in Nat /\ m \in 1 .. n
  BY DEF Types, Dims
<1>2. m \in Nat \ {0} /\ m \in 1 .. m
  BY <1>1
<1>3. top = stack[m] /\ stack[m] \in Frames(n)
  BY <1>2 DEF top, Last, Types
<1>4. top.base \in Nat /\ top.current \in Nat
  BY <1>3 DEF Frames
<1>5. /\ w[m] \in Lists(n)[m] /\ i[m] \in 0 .. Len(w[m])
      /\ top.items = SubSeq(w[m], i[m] + 1, Len(w[m]))
  BY <1>2, <1>3 DEF Nested
<1>6. Len(w[m]) \in Nat /\ \E S : w[m] \in Seq(S)
  BY <1>1, <1>5, ItemIs
<1> DEFINE s == w[m]
           k == i[m]
           rest == SubSeq(s, k + 1, Len(s))
<1>7. /\ rest = <<>> <=> k = Len(s)
      /\ rest # <<>> => Head(rest) = s[k + 1] /\ Tail(rest) = SubSeq(s, k + 2, Len(s))
                        /\ k + 1 \in 1 .. Len(s)
  <2>1. PICK S : s \in Seq(S)
    BY <1>6
  <2>2. k \in 0 .. Len(s)
    BY <1>5
  <2> HIDE DEF s, k
  <2> QED BY <2>1, <2>2, RestOfList
<1>8. k + 1 \in 1 .. Len(s) => SubSeq(s, k + 2, Len(s)) \in Pieces(n)
  <2> SUFFICES ASSUME k + 1 \in 1 .. Len(s) PROVE SubSeq(s, k + 2, Len(s)) \in Pieces(n)
    OBVIOUS
  <2>1. k + 1 \in 0 .. Len(s) /\ k + 1 + 1 = k + 2
    BY <1>5, <1>6
  <2>2. s \in Lists(n)[m]
    BY <1>5
  <2> HIDE DEF s, k, n, m
  <2>3. SubSeq(s, k + 1 + 1, Len(s)) \in Pieces(n)
    BY <1>1, <2>1, <2>2, PieceType
  <2> QED BY <2>1, <2>3
<1> QED BY <1>1, <1>2, <1>3, <1>4, <1>5, <1>6, <1>7, <1>8, Zenon

-----------------------------------------------------------------------------
(* Each action keeps the types, and what the calls have been given.        *)

\* Another expression has been taken, a brace is opened.
Taken(i, m) == [l \in 1 .. m |-> IF l = m THEN i[l] + 1 ELSE i[l]]
Given(w, i, m) ==
    [l \in 1 .. m + 1 |-> IF l = m + 1 THEN w[m][i[m] + 1].items ELSE w[l]]
Begun(i, m) ==
    [l \in 1 .. m + 1 |-> IF l = m + 1 THEN 0 ELSE IF l = m THEN i[l] + 1 ELSE i[l]]

LEMMA TakeExprNested ==
    ASSUME Types, NEW w, NEW i, Nested(w, i), TakeExpr, NEW m, m = Len(stack)
    PROVE  /\ Types' /\ Nested(w, Taken(i, m))'
           /\ result' = Append(result, [offset |-> Here, exp |-> Len(result) + 1])
           /\ Len(stack') = m /\ i[m] + 1 \in 1 .. Len(w[m]) /\ ~ w[m][i[m] + 1].brace
           /\ \A l \in 1 .. m - 1 : stack'[l] = stack[l]
           /\ stack'[m].base = top.base /\ stack'[m].current = top.current + 1
<1> DEFINE n == Len(dims)
           j == Taken(i, m)
           x == [items |-> Tail(top.items), base |-> top.base, current |-> top.current + 1]
           S == Frames(n)
<1>1. /\ pc = "align" /\ top.items # <<>> /\ ~ Head(top.items).brace
      /\ result' = Append(result, [offset |-> top.base + top.current, exp |-> Len(result) + 1])
      /\ stack' = Append(Front(stack), x)
      /\ UNCHANGED <<dims, global, expanded, it, pushes, pc>>
  BY DEF TakeExpr, Aligning
<1>2. /\ n \in Nat /\ m \in 1 .. n /\ m \in Nat \ {0} /\ m \in 1 .. m
      /\ top = stack[m] /\ top.base \in Nat /\ top.current \in Nat
      /\ w[m] \in Lists(n)[m] /\ Len(w[m]) \in Nat /\ i[m] \in 0 .. Len(w[m])
      /\ i[m] + 1 \in 1 .. Len(w[m])
      /\ Head(top.items) = w[m][i[m] + 1]
      /\ Tail(top.items) = SubSeq(w[m], i[m] + 2, Len(w[m]))
      /\ Tail(top.items) \in Pieces(n)
  BY <1>1, Running
<1>3. x \in S /\ stack \in Seq(S)
  <2>1. x \in S
    BY <1>2 DEF Frames
  <2>2. stack \in Seq(S)
    BY DEF Types
  <2> QED BY <2>1, <2>2
<1>4. /\ stack' \in Seq(S) /\ Len(stack') = m /\ stack'[m] = x
      /\ \A k \in 1 .. m - 1 : stack'[k] = stack[k]
  <2>1. Len(stack) \in Nat \ {0}
    BY <1>2
  <2> HIDE DEF x, S
  <2> QED BY <1>1, <1>3, <2>1, Replaced
<1>5. Types'
  <2>1. [offset |-> top.base + top.current, exp |-> Len(result) + 1] \in [offset : Nat, exp : Nat]
    <3>1. Len(result) + 1 \in Nat
      BY DEF Types
    <3>2. top.base + top.current \in Nat
      BY <1>2, SMTT(60)
    <3> QED BY <3>1, <3>2
  <2>2. result \in Seq([offset : Nat, exp : Nat])
    BY DEF Types
  <2>3. result' \in Seq([offset : Nat, exp : Nat]) /\ Len(result') = Len(result) + 1
    BY <1>1, <2>1, <2>2, AppendProperties
  <2>4. size' = size
    BY <1>1 DEF size, offsets
  <2>5. it \in 1 .. Len(result) + 1 /\ Len(result) \in Nat
    BY <2>2 DEF Types
  <2> HIDE DEF x
  <2> QED BY <1>1, <1>2, <1>4, <2>3, <2>4, <2>5 DEF Types
<1>6. Nested(w, j)'
  <2>1. j[m] = i[m] + 1 /\ \A l \in 1 .. m - 1 : j[l] = i[l]
    BY <1>2 DEF Taken
  <2>2. \A l \in 1 .. m : l = m \/ l \in 1 .. m - 1
    BY <1>2
  <2>3. x.items = SubSeq(w[m], j[m] + 1, Len(w[m])) /\ x.base = stack[m].base
    <3>1. j[m] + 1 = i[m] + 2
      BY <1>2, <2>1
    <3> QED BY <1>2, <3>1
  <2>4. j[m] \in 0 .. Len(w[m])
    BY <1>2, <2>1
  <2> HIDE DEF j, x
  <2>5. \A l \in 1 .. m :
         /\ w[l] \in Lists(n)[l] /\ j[l] \in 0 .. Len(w[l])
         /\ stack'[l].items = SubSeq(w[l], j[l] + 1, Len(w[l]))
         /\ stack'[l].base = stack[l].base
    <3> TAKE l \in 1 .. m
    <3>1. CASE l = m
      BY <1>2, <1>4, <2>3, <2>4, <3>1
    <3>2. CASE l \in 1 .. m - 1
      <4>1. j[l] = i[l] /\ stack'[l] = stack[l]
        BY <1>4, <2>1, <3>2
      <4> QED BY <4>1 DEF Nested
    <3> QED BY <2>2, <3>1, <3>2
  <2>6. \A l \in 1 .. m - 1 :
         /\ j[l] # 0 /\ w[l][j[l]].brace /\ w[l + 1] = w[l][j[l]].items
         /\ stack'[l + 1].base = stack'[l].base + stack'[l].current
    <3> TAKE l \in 1 .. m - 1
    <3>1. j[l] = i[l] /\ stack'[l] = stack[l] /\ l + 1 \in 1 .. m
      BY <1>2, <1>4, <2>1
    <3>2. stack'[l + 1].base = stack[l + 1].base
      BY <2>5, <3>1
    <3> QED BY <3>1, <3>2 DEF Nested
  <2> QED BY <1>1, <1>4, <2>5, <2>6 DEF Nested
<1>7. ~ w[m][i[m] + 1].brace
  BY <1>1, <1>2, Zenon
<1>8. result' = Append(result, [offset |-> Here, exp |-> Len(result) + 1])
  BY <1>1 DEF Here
<1>9. stack'[m].base = top.base /\ stack'[m].current = top.current + 1
  BY <1>4
<1> QED BY <1>2, <1>4, <1>5, <1>6, <1>7, <1>8, <1>9

LEMMA CloseBraceNested ==
    ASSUME Types, NEW w, NEW i, Nested(w, i), CloseBrace, NEW m, m = Len(stack)
    PROVE  /\ Types' /\ Nested(w, i)' /\ result' = result
           /\ m - 1 \in 1 .. m /\ Len(stack') = m - 1 /\ i[m] = Len(w[m])
           /\ \A l \in 1 .. m - 2 : stack'[l] = stack[l]
           /\ stack'[m - 1].base = stack[m - 1].base
           /\ stack'[m - 1].current = stack[m - 1].current + offsets[m - 1]
<1> DEFINE n == Len(dims)
           outer == Front(stack)
           x == [outer[Len(outer)] EXCEPT !.current = @ + offsets[Len(outer)]]
           S == Frames(n)
<1>1. /\ pc = "align" /\ top.items = <<>> /\ m > 1
      /\ stack' = [outer EXCEPT ![Len(outer)] = x]
      /\ UNCHANGED <<dims, global, result, expanded, it, pushes, pc>>
  BY DEF CloseBrace, Aligning
<1>2. n \in Nat /\ m \in 1 .. n /\ m \in Nat \ {0} /\ i[m] = Len(w[m])
  BY <1>1, Running
<1>3. m - 1 \in 1 .. m /\ m - 1 \in 1 .. m - 1 /\ m - 1 \in 1 .. n
  BY <1>1, <1>2
<1>4. stack \in Seq(S) /\ Len(stack) \in Nat \ {0}
  BY <1>2 DEF Types
<1>5. outer \in Seq(S) /\ Len(outer) = m - 1 /\ \A k \in 1 .. m - 1 : outer[k] = stack[k]
  <2> HIDE DEF S
  <2> QED BY <1>4, FrontIs
<1>6. offsets[m - 1] \in Nat
  BY <1>3, SizeType
<1> HIDE DEF outer
<1>7. outer[m - 1] \in S
  BY <1>3, <1>5
<1>8. /\ x \in S /\ x.base = stack[m - 1].base /\ x.items = stack[m - 1].items
      /\ x.current = stack[m - 1].current + offsets[m - 1]
  <2>1. outer[m - 1] = stack[m - 1]
    BY <1>3, <1>5
  <2> QED BY <1>5, <1>6, <1>7, <2>1, SMTT(60) DEF Frames
<1> HIDE DEF x, S
<1>9. /\ stack' \in Seq(S) /\ Len(stack') = m - 1
      /\ \A k \in 1 .. m - 1 : stack'[k] = IF k = m - 1 THEN x ELSE outer[k]
  <2>1. m - 1 \in 1 .. Len(outer)
    BY <1>3, <1>5
  <2>2. stack' = [outer EXCEPT ![m - 1] = x]
    BY <1>1, <1>5
  <2> QED BY <1>5, <1>8, <2>1, <2>2, ExceptSeq
<1>10. /\ stack'[m - 1] = x
       /\ \A k \in 1 .. m - 2 : k \in 1 .. m - 1 /\ stack'[k] = stack[k]
  <2>1. \A k \in 1 .. m - 2 : k \in 1 .. m - 1 /\ k # m - 1
    BY <1>2
  <2> QED BY <1>3, <1>5, <1>9, <2>1
<1>11. Types'
  <2>1. size' = size
    BY <1>1 DEF size, offsets
  <2>2. m - 1 \in 1 .. Len(dims)
    BY <1>3
  <2> QED BY <1>1, <1>9, <2>1, <2>2 DEF Types, S
<1>12. Nested(w, i)'
  <2>1. \A l \in 1 .. m - 1 : /\ stack'[l].items = stack[l].items
                             /\ stack'[l].base = stack[l].base /\ l \in 1 .. m
    <3> TAKE l \in 1 .. m - 1
    <3>1. l = m - 1 \/ l \in 1 .. m - 2
      BY <1>2
    <3>2. l \in 1 .. m
      BY <1>2
    <3> QED BY <1>8, <1>10, <3>1, <3>2
  <2>2. \A l \in 1 .. m - 1 - 1 : /\ stack'[l] = stack[l] /\ l + 1 \in 1 .. m - 1
                                 /\ l \in 1 .. m - 1
    <3> TAKE l \in 1 .. m - 1 - 1
    <3>1. l \in 1 .. m - 2 /\ l + 1 \in 1 .. m - 1
      BY <1>2
    <3> QED BY <1>10, <3>1
  <2>3. \A l \in 1 .. m - 1 :
         /\ w[l] \in Lists(n)[l] /\ i[l] \in 0 .. Len(w[l])
         /\ stack'[l].items = SubSeq(w[l], i[l] + 1, Len(w[l]))
    BY <2>1 DEF Nested
  <2>4. \A l \in 1 .. m - 1 - 1 :
         /\ i[l] # 0 /\ w[l][i[l]].brace /\ w[l + 1] = w[l][i[l]].items
         /\ stack'[l + 1].base = stack'[l].base + stack'[l].current
    BY <2>1, <2>2 DEF Nested
  <2> QED BY <1>1, <1>9, <2>3, <2>4 DEF Nested
<1> QED BY <1>1, <1>2, <1>3, <1>8, <1>9, <1>10, <1>11, <1>12

LEMMA OpenBraceNested ==
    ASSUME Types, NEW w, NEW i, Nested(w, i), OpenBrace, NEW m, m = Len(stack)
    PROVE  LET at == round_up(top.current, offsets[m])
           IN  /\ Types' /\ Nested(Given(w, i, m), Begun(i, m))' /\ result' = result
               /\ Len(stack') = m + 1 /\ m + 1 \in 1 .. Len(dims)
               /\ i[m] + 1 \in 1 .. Len(w[m]) /\ w[m][i[m] + 1].brace
               /\ \A l \in 1 .. m - 1 : stack'[l] = stack[l]
               /\ stack'[m].base = top.base /\ stack'[m].current = at
               /\ stack'[m + 1].base = top.base + at /\ stack'[m + 1].current = 0
<1> DEFINE n == Len(dims)
           S == Frames(n)
           at == round_up(top.current, offsets[m])
           s == w[m]
           k == i[m] + 1
           x == [items |-> Tail(top.items), base |-> top.base, current |-> at]
           y == [items |-> Head(top.items).items, base |-> top.base + at, current |-> 0]
<1>1. /\ pc = "align" /\ top.items # <<>> /\ Head(top.items).brace
      /\ stack' = Front(stack) \o <<x, y>>
      /\ UNCHANGED <<dims, global, result, expanded, it, pushes, pc>>
  BY DEF OpenBrace, Aligning
<1>2. /\ n \in Nat /\ m \in 1 .. n /\ m \in Nat \ {0} /\ m \in 1 .. m
      /\ top = stack[m] /\ top.base \in Nat /\ top.current \in Nat
      /\ s \in Lists(n)[m] /\ Len(s) \in Nat /\ i[m] \in 0 .. Len(s)
      /\ k \in 1 .. Len(s) /\ Head(top.items) = s[k]
      /\ Tail(top.items) = SubSeq(s, i[m] + 2, Len(s))
      /\ Tail(top.items) \in Pieces(n)
  BY <1>1, Running
<1>3. at \in Nat
  <2>1. offsets[m] \in Nat \ {0}
    BY <1>2, SizeType
  <2>2. \A a \in Nat, b \in Nat \ {0} : round_up(a, b) \in Nat
    <3> TAKE a \in Nat, b \in Nat \ {0}
    <3>1. round_up(a, b) = a + ((-a) % b) /\ (-a) % b \in Nat
      BY RoundUp
    <3> QED BY <3>1
  <2> QED BY <1>2, <2>1, <2>2
<1>4. m + 1 \in 1 .. n /\ s[k].items \in Lists(n)[m + 1] /\ s[k].brace
  <2>1. s[k].brace
    BY <1>1, <1>2
  <2> HIDE DEF n, s, k
  <2>2. \A q \in 1 .. Len(s) : s[q].brace => m + 1 \in 1 .. n /\ s[q].items \in Lists(n)[m + 1]
    BY <1>2, ItemIs
  <2> QED BY <1>2, <2>1, <2>2
<1>5. s[k].items \in Pieces(n) /\ s[k].items = SubSeq(s[k].items, 1, Len(s[k].items))
      /\ Len(s[k].items) \in Nat
  <2> HIDE DEF n, s, k
  <2>1. \E T : s[k].items \in Seq(T)
    <3>1. \A q \in 1 .. n : \A r \in Lists(n)[q] : \E T : r \in Seq(T)
      BY <1>2, ItemIs, Zenon
    <3> QED BY <1>4, <3>1, Zenon
  <2>2. Len(s[k].items) \in Nat
    BY <2>1
  <2>3. s[k].items = SubSeq(s[k].items, 1, Len(s[k].items))
    BY <2>1, SubSeqFull
  <2> QED BY <1>4, <2>2, <2>3 DEF Pieces
<1> HIDE DEF at
<1>6. x \in S /\ y \in S
  <2>1. x \in S
    BY <1>2, <1>3 DEF Frames
  <2>2. Head(top.items).items \in Pieces(n) /\ top.base + at \in Nat
    <3>1. Head(top.items).items = s[k].items
      BY <1>2, Zenon
    <3>2. Head(top.items).items \in Pieces(n)
      BY <1>5, <3>1, Zenon
    <3>3. top.base + at \in Nat
      BY <1>2, <1>3, SMTT(60)
    <3> QED BY <3>2, <3>3, Zenon
  <2>3. y \in S
    BY <2>2 DEF Frames
  <2> QED BY <2>1, <2>3
<1>7. stack \in Seq(S) /\ Len(stack) \in Nat \ {0}
  BY <1>2 DEF Types
<1>8. /\ x.items = SubSeq(s, k + 1, Len(s)) /\ x.base = top.base /\ x.current = at
      /\ y.items = s[k].items /\ y.base = top.base + at /\ y.current = 0
  <2>1. i[m] + 2 = k + 1
    BY <1>2
  <2> QED BY <1>2, <2>1
<1> HIDE DEF x, y, S
<1>9. /\ stack' \in Seq(S) /\ Len(stack') = m + 1 /\ stack'[m] = x /\ stack'[m + 1] = y
      /\ \A l \in 1 .. m - 1 : stack'[l] = stack[l]
  <2>1. /\ Front(stack) \o <<x, y>> \in Seq(S)
        /\ Len(Front(stack) \o <<x, y>>) = Len(stack) + 1
        /\ (Front(stack) \o <<x, y>>)[Len(stack)] = x
        /\ (Front(stack) \o <<x, y>>)[Len(stack) + 1] = y
        /\ \A q \in 1 .. Len(stack) - 1 : (Front(stack) \o <<x, y>>)[q] = stack[q]
    BY <1>6, <1>7, Pushed
  <2> QED BY <1>1, <2>1
<1>10. Types'
  <2>1. size' = size
    BY <1>1 DEF size, offsets
  <2> QED BY <1>1, <1>4, <1>9, <2>1 DEF Types, S
<1> DEFINE v == Given(w, i, m)
           j == Begun(i, m)
<1>11. Nested(v, j)'
  <2>1. /\ v[m + 1] = s[k].items /\ j[m + 1] = 0 /\ v[m] = s /\ j[m] = k
        /\ \A l \in 1 .. m - 1 : v[l] = w[l] /\ j[l] = i[l]
    <3>1. m \in 1 .. m + 1 /\ m + 1 \in 1 .. m + 1 /\ m # m + 1
          /\ \A l \in 1 .. m - 1 : l \in 1 .. m + 1 /\ l # m /\ l # m + 1
      <4>1. m \in Nat \ {0}
        BY <1>2
      <4> HIDE DEF v, j, s, k, n
      <4> QED BY <4>1
    <3> QED BY <3>1 DEF Given, Begun
  <2> HIDE DEF v, j, s, k, n
  <2>2. \A l \in 1 .. m + 1 :
         /\ v[l] \in Lists(n)[l] /\ j[l] \in 0 .. Len(v[l])
         /\ stack'[l].items = SubSeq(v[l], j[l] + 1, Len(v[l]))
    <3> TAKE l \in 1 .. m + 1
    <3>1. l = m + 1 \/ l = m \/ l \in 1 .. m - 1
      BY <1>2
    <3>2. CASE l = m + 1
      BY <1>4, <1>5, <1>8, <1>9, <2>1, <3>2
    <3>3. CASE l = m
      <4>1. k \in 0 .. Len(s)
        BY <1>2
      <4> QED BY <1>2, <1>8, <1>9, <2>1, <3>3, <4>1
    <3>4. CASE l \in 1 .. m - 1
      <4>1. l \in 1 .. Len(stack)
        BY <1>2, <3>4
      <4>2. w[l] \in Lists(n)[l] /\ i[l] \in 0 .. Len(w[l])
            /\ stack[l].items = SubSeq(w[l], i[l] + 1, Len(w[l]))
        BY <4>1 DEF Nested, n
      <4> QED BY <1>9, <2>1, <3>4, <4>2
    <3> QED BY <3>1, <3>2, <3>3, <3>4
  <2>3. \A l \in 1 .. m + 1 - 1 :
         /\ j[l] # 0 /\ v[l][j[l]].brace /\ v[l + 1] = v[l][j[l]].items
         /\ stack'[l + 1].base = stack'[l].base + stack'[l].current
    <3> TAKE l \in 1 .. m + 1 - 1
    <3>1. l = m \/ l \in 1 .. m - 1
      BY <1>2
    <3>2. CASE l = m
      BY <1>2, <1>4, <1>8, <1>9, <2>1, <3>2, SMTT(60)
    <3>3. CASE l \in 1 .. m - 1
      <4>1. l \in 1 .. Len(stack) - 1 /\ (l + 1 = m \/ l + 1 \in 1 .. m - 1)
        BY <1>2, <3>3
      <4>2. /\ i[l] # 0 /\ w[l][i[l]].brace /\ w[l + 1] = w[l][i[l]].items
            /\ stack[l + 1].base = stack[l].base + stack[l].current
        BY <4>1 DEF Nested
      <4>3. stack'[l] = stack[l] /\ v[l] = w[l] /\ j[l] = i[l]
        BY <1>9, <2>1, <3>3
      <4>4. v[l + 1] = w[l + 1] /\ stack'[l + 1].base = stack[l + 1].base
        <5>1. CASE l + 1 = m
          BY <1>2, <1>8, <1>9, <2>1, <5>1 DEF s
        <5>2. CASE l + 1 \in 1 .. m - 1
          BY <1>9, <2>1, <5>2
        <5> QED BY <4>1, <5>1, <5>2
      <4> QED BY <4>2, <4>3, <4>4
    <3> QED BY <3>1, <3>2, <3>3
  <2>4. Len(stack') = m + 1 /\ n' = n
    BY <1>1, <1>9 DEF n
  <2> QED BY <2>2, <2>3, <2>4 DEF Nested, n
<1> QED BY <1>1, <1>2, <1>4, <1>8, <1>9, <1>10, <1>11 DEF at

-----------------------------------------------------------------------------
(* Going through the array.                                                *)

Entries == [offset : Nat, exp : Nat]

LEMMA EntryType ==
    ASSUME NEW list \in Seq(Entries), NEW k \in 1 .. Len(list)
    PROVE  list[k].offset \in Nat /\ list[k].exp \in Nat
<1>1. list[k] \in Entries
  OBVIOUS
<1> QED BY <1>1 DEF Entries

LEMMA OnesType ==
    ASSUME NEW all, NEW h \in Nat
    PROVE  IsFiniteSet(Ones(all, h)) /\ Cardinality(Ones(all, h)) \in Nat
<1>1. IsFiniteSet(1 .. h)
  BY FS_Interval
<1>2. Ones(all, h) \subseteq 1 .. h
  BY DEF Ones
<1>3. IsFiniteSet(Ones(all, h))
  BY <1>1, <1>2, FS_Subset
<1> QED BY <1>3, FS_CardinalityType

\* Gaps have no entries.
LEMMA ListedOver ==
    ASSUME NEW list \in Seq(Entries), NEW all, NEW h \in Nat, NEW g \in Nat, h <= g,
           \A k \in h + 1 .. g : all[k] = 0, Listed(list, all, h)
    PROVE  Listed(list, all, g)
<1>1. \A k \in 1 .. g : k \in 1 .. h \/ all[k] = 0
  OBVIOUS
<1>2. \A k \in 1 .. h : k \in 1 .. g
  OBVIOUS
<1>3. Ones(all, g) = Ones(all, h)
  BY <1>1, <1>2 DEF Ones
<1>4. \A k \in 1 .. Len(list) : list[k].offset \in Nat
  BY EntryType
<1>5. \A k \in 1 .. Len(list) : list[k].offset < g
  BY <1>4 DEF Listed
<1>6. \A x \in 1 .. g : all[x] = 1 => \E k \in 1 .. Len(list) : list[k].offset = x - 1
  BY <1>1 DEF Listed
<1> QED BY <1>3, <1>5, <1>6 DEF Listed

\* An expression has one.
LEMMA ListedMore ==
    ASSUME NEW list \in Seq(Entries), NEW all, NEW h \in Nat, all[h + 1] = 1,
           Listed(list, all, h)
    PROVE  Listed(Append(list, [offset |-> h, exp |-> Len(list) + 1]), all, h + 1)
<1> DEFINE e == [offset |-> h, exp |-> Len(list) + 1]
           new == Append(list, e)
           n == Len(list)
<1>1. n \in Nat /\ e \in Entries /\ e.offset = h /\ e.exp = n + 1
  <2>1. n \in Nat
    OBVIOUS
  <2>2. n + 1 \in Nat
    BY <2>1
  <2> QED BY <2>1, <2>2 DEF Entries
<1> HIDE DEF e
<1>2. new \in Seq(Entries) /\ Len(new) = n + 1 /\ new[n + 1] = e
      /\ \A k \in 1 .. n : new[k] = list[k]
  BY <1>1, AppendProperties
<1> HIDE DEF new
<1>3. Ones(all, h + 1) = Ones(all, h) \cup {h + 1} /\ h + 1 \notin Ones(all, h)
  <2>1. \A k : k \in 1 .. h + 1 <=> k \in 1 .. h \/ k = h + 1
    OBVIOUS
  <2>2. h + 1 \notin 1 .. h
    OBVIOUS
  <2> QED BY <2>1, <2>2 DEF Ones
<1>4. Cardinality(Ones(all, h + 1)) = Cardinality(Ones(all, h)) + 1
  BY <1>3, OnesType, FS_AddElement
<1>5. n = Cardinality(Ones(all, h))
  BY DEF Listed
<1> HIDE DEF n
<1>6. \A k \in 1 .. n + 1 : k \in 1 .. n \/ k = n + 1
  BY <1>1
<1>7. \A k \in 1 .. n : k \in 1 .. n + 1 /\ list[k].offset \in Nat /\ list[k].offset < h
  <2>1. \A k \in 1 .. n : list[k].offset \in Nat
    BY EntryType DEF n
  <2>2. \A k \in 1 .. n : list[k].offset < h
    BY DEF Listed, n
  <2>3. \A k \in 1 .. n : k \in 1 .. n + 1
    BY <1>1
  <2> QED BY <2>1, <2>2, <2>3
<1>8. \A k \in 1 .. n + 1 :
        /\ new[k].offset < h + 1 /\ all[new[k].offset + 1] = 1
        /\ new[k].exp = Cardinality(Ones(all, new[k].offset + 1))
  <2> TAKE k \in 1 .. n + 1
  <2>1. CASE k \in 1 .. n
    <3>1. new[k] = list[k] /\ list[k].offset < h + 1
      BY <1>2, <1>7, <2>1
    <3>2. /\ all[list[k].offset + 1] = 1
          /\ list[k].exp = Cardinality(Ones(all, list[k].offset + 1))
      BY <2>1 DEF Listed, n
    <3> QED BY <3>1, <3>2
  <2>2. CASE k = n + 1
    <3>1. new[k] = e /\ e.offset = h /\ e.exp = Cardinality(Ones(all, h + 1)) /\ h < h + 1
      BY <1>1, <1>2, <1>4, <1>5, <2>2
    <3> QED BY <3>1
  <2> QED BY <1>6, <2>1, <2>2
<1>9. \A k, l \in 1 .. n + 1 : k < l => new[k].offset < new[l].offset
  <2> TAKE k, l \in 1 .. n + 1
  <2>1. CASE l \in 1 .. n
    <3>1. k < l => k \in 1 .. n
      BY <1>1, <2>1
    <3>2. k \in 1 .. n /\ k < l => list[k].offset < list[l].offset
      BY <2>1 DEF Listed, n
    <3> QED BY <1>2, <2>1, <3>1, <3>2
  <2>2. CASE l = n + 1
    <3>1. k < l => k \in 1 .. n
      BY <1>1, <2>2
    <3>2. new[l].offset = h
      BY <1>1, <1>2, <2>2
    <3>3. k \in 1 .. n => new[k].offset < h
      BY <1>2, <1>7
    <3> QED BY <3>1, <3>2, <3>3
  <2> QED BY <1>6, <2>1, <2>2
<1>10. \A x \in 1 .. h + 1 : all[x] = 1 => \E k \in 1 .. n + 1 : new[k].offset = x - 1
  <2> TAKE x \in 1 .. h + 1
  <2> SUFFICES ASSUME all[x] = 1 PROVE \E k \in 1 .. n + 1 : new[k].offset = x - 1
    OBVIOUS
  <2>1. CASE x \in 1 .. h
    <3>1. PICK k \in 1 .. n : list[k].offset = x - 1
      BY <2>1 DEF Listed, n
    <3> QED BY <1>2, <1>7, <3>1
  <2>2. CASE x = h + 1
    <3>1. n + 1 \in 1 .. n + 1 /\ new[n + 1].offset = x - 1
      BY <1>1, <1>2, <2>2
    <3> QED BY <3>1
  <2> QED BY <2>1, <2>2
<1> QED BY <1>2, <1>4, <1>5, <1>8, <1>9, <1>10 DEF Listed, new, e, n

\* A call and its part of the array.
LEMMA Part ==
    ASSUME Types, NEW w, NEW i, Nested(w, i), NEW all, Meant(all), Placing(w, i, all),
           NEW l \in 1 .. Len(stack)
    PROVE  /\ dims \in Dims /\ l \in 1 .. Len(dims) /\ w[l] \in Lists(Len(dims))[l]
           /\ i[l] \in 0 .. Len(w[l]) /\ Len(w[l]) \in Nat
           /\ stack[l].base \in Nat /\ stack[l].current \in Nat
           /\ offsets[l] = Offsets(dims)[l] /\ offsets[l] \in Nat \ {0}
           /\ Spelt(dims)[l][w[l]] \in Marks
           /\ \A k \in 0 .. Len(w[l]) : /\ Upto(dims, l, w[l])[k] \in Marks
                                        /\ Starts(Upto(dims, l, w[l])[k], Spelt(dims)[l][w[l]])
           /\ Room(l) \in Nat /\ Len(all) \in Nat /\ \A k \in 1 .. Len(all) : all[k] \in 0 .. 1
           /\ Placed(all, stack[l].base, Spelt(dims)[l][w[l]], Room(l))
<1>1. dims \in Dims /\ l \in 1 .. Len(dims)
  BY DEF Types
<1>2. w[l] \in Lists(Len(dims))[l] /\ i[l] \in 0 .. Len(w[l])
  BY DEF Nested
<1>3. stack[l].base \in Nat /\ stack[l].current \in Nat
  <2>1. stack[l] \in Frames(Len(dims))
    BY DEF Types
  <2> QED BY <2>1 DEF Frames
<1>4. offsets[l] = Offsets(dims)[l] /\ offsets[l] \in Nat \ {0}
  BY <1>1, SizeType
<1>5. Len(w[l]) \in Nat /\ \A k \in 0 .. Len(w[l]) : Upto(dims, l, w[l])[k] \in Marks
  BY <1>1, <1>2, UptoIs
<1>6. \A k \in 0 .. Len(w[l]) : Starts(Upto(dims, l, w[l])[k], Spelt(dims)[l][w[l]])
  BY <1>1, <1>2, UptoStarts
<1>7. Spelt(dims)[l][w[l]] \in Marks
  BY <1>1, <1>2, SpeltMarks
<1>8. Room(l) \in Nat
  <2>1. l = 1 \/ l - 1 \in 1 .. Len(dims)
    BY <1>1
  <2> QED BY <2>1, SizeType DEF Room
<1>9. Len(all) \in Nat /\ \A k \in 1 .. Len(all) : all[k] \in 0 .. 1
  BY DEF Meant
<1> QED BY <1>1, <1>2, <1>3, <1>4, <1>5, <1>6, <1>7, <1>8, <1>9 DEF Placing

\* What begins what is placed is there.
LEMMA StartPlaced ==
    ASSUME NEW all, NEW b \in Nat, NEW s \in Marks, NEW t \in Marks, NEW r \in Nat,
           Starts(s, t), Placed(all, b, t, r)
    PROVE  /\ Len(s) \in Nat /\ Len(s) <= r
           /\ \A k \in 1 .. Len(s) : all[b + k] = s[k]
<1>1. Len(s) \in Nat /\ Len(t) \in Nat /\ Len(s) <= Len(t) /\ Len(t) <= r
  BY DEF Marks, Starts, Placed
<1>2. \A k \in 1 .. Len(s) : k \in 1 .. r /\ k <= Len(t)
  BY <1>1
<1> QED BY <1>1, <1>2 DEF Starts, Placed

LEMMA TakeExprPlacing ==
    ASSUME Types, NEW w, NEW i, Nested(w, i), TakeExpr, UNCHANGED meant,
           NEW m, m = Len(stack), NEW all, Meant(all), Placing(w, i, all),
           Listed(result, all, Here)
    PROVE  /\ Meant(all)' /\ Placing(w, Taken(i, m), all)' /\ Listed(result', all, Here')
<1> DEFINE j == Taken(i, m)
           U == Upto(dims, m, w[m])
           k == i[m] + 1
<1>1. /\ UNCHANGED <<dims, global, expanded, it, pushes, pc>>
      /\ result' = Append(result, [offset |-> Here, exp |-> Len(result) + 1])
      /\ Len(stack') = m /\ k \in 1 .. Len(w[m]) /\ ~ w[m][k].brace
      /\ \A l \in 1 .. m - 1 : stack'[l] = stack[l]
      /\ stack'[m].base = top.base /\ stack'[m].current = top.current + 1
  <2>1. UNCHANGED <<dims, global, expanded, it, pushes, pc>>
    BY DEF TakeExpr, Aligning
  <2>2. /\ result' = Append(result, [offset |-> Here, exp |-> Len(result) + 1])
        /\ Len(stack') = m /\ i[m] + 1 \in 1 .. Len(w[m]) /\ ~ w[m][i[m] + 1].brace
        /\ \A l \in 1 .. m - 1 : stack'[l] = stack[l]
        /\ stack'[m].base = top.base /\ stack'[m].current = top.current + 1
    BY TakeExprNested
  <2> QED BY <2>1, <2>2
<1>2. /\ m \in Nat \ {0} /\ m \in 1 .. m /\ m \in 1 .. Len(stack)
      /\ top = stack[m] /\ top.base \in Nat /\ top.current \in Nat
      /\ i[m] \in 0 .. Len(w[m]) /\ Len(w[m]) \in Nat
  BY Running
<1>3. U[k] = Append(U[i[m]], 1) /\ U[i[m]] \in Marks /\ U[k] \in Marks
      /\ Starts(U[k], Spelt(dims)[m][w[m]])
  <2>1. dims \in Dims /\ m \in 1 .. Len(dims) /\ w[m] \in Lists(Len(dims))[m]
        /\ \A q \in 0 .. Len(w[m]) : U[q] \in Marks /\ Starts(U[q], Spelt(dims)[m][w[m]])
    BY <1>2, Part
  <2>2. ~ w[m][k].brace
    BY <1>1
  <2>3. k - 1 = i[m] /\ k \in 0 .. Len(w[m])
    BY <1>1, <1>2
  <2>4. U[k] = Append(U[k - 1], 1)
    BY <1>1, <2>1, <2>2, UptoStep
  <2> QED BY <1>2, <2>1, <2>3, <2>4
<1>4. top.current = Len(U[i[m]])
  BY DEF Placing
<1> HIDE DEF U
<1>5. Len(U[k]) = top.current + 1 /\ U[k][top.current + 1] = 1
  BY <1>3, <1>4, AddExpr
<1>6. all[Here + 1] = 1
  <2>1. /\ Spelt(dims)[m][w[m]] \in Marks /\ Room(m) \in Nat
        /\ Placed(all, top.base, Spelt(dims)[m][w[m]], Room(m))
    BY <1>2, Part
  <2>2. \A q \in 1 .. Len(U[k]) : all[top.base + q] = U[k][q]
    <3>1. \A b, r \in Nat : \A s, t \in Marks :
            Starts(s, t) /\ Placed(all, b, t, r) => \A q \in 1 .. Len(s) : all[b + q] = s[q]
      BY StartPlaced
    <3> HIDE DEF k, j
    <3>2. /\ top.base \in Nat /\ Room(m) \in Nat
          /\ U[k] \in Marks /\ Spelt(dims)[m][w[m]] \in Marks
          /\ Starts(U[k], Spelt(dims)[m][w[m]])
          /\ Placed(all, top.base, Spelt(dims)[m][w[m]], Room(m))
      BY <1>2, <1>3, <2>1
    <3> QED BY <3>1, <3>2
  <2>3. top.current + 1 \in 1 .. Len(U[k]) /\ top.base + (top.current + 1) = Here + 1
    BY <1>2, <1>5, SMTT(60) DEF Here
  <2> QED BY <1>5, <2>2, <2>3
<1>7. Listed(result', all, Here + 1)
  <2>1. result \in Seq(Entries) /\ Here \in Nat
    <3>1. result \in Seq(Entries)
      BY DEF Types, Entries
    <3>2. Here \in Nat
      BY <1>2 DEF Here
    <3> QED BY <3>1, <3>2
  <2> QED BY <1>1, <1>6, <2>1, ListedMore
<1>8. Here' = Here + 1 /\ stack'[m].base = stack[m].base /\ stack'[m].current = Len(U[k])
      /\ top' = stack'[m]
  <2>1. top' = stack'[m]
    BY <1>1 DEF top, Last
  <2>2. Here' = top.base + (top.current + 1)
    BY <1>1, <2>1 DEF Here
  <2>3. Here' = Here + 1
    BY <1>2, <2>2 DEF Here
  <2> QED BY <1>1, <1>2, <1>5, <2>1, <2>3
<1>9. j[m] = k /\ \A l \in 1 .. m - 1 : j[l] = i[l]
  BY <1>2 DEF Taken
<1>10. size' = size /\ offsets' = offsets
  BY <1>1 DEF size, offsets
<1> HIDE DEF j
<1>11. Placing(w, j, all)'
  <2>1. \A l \in 1 .. m :
          Placed(all, stack'[l].base, Spelt(dims)[l][w[l]], Room(l))
    <3> TAKE l \in 1 .. m
    <3>1. stack'[l].base = stack[l].base
      <4>1. l = m \/ l \in 1 .. m - 1
        BY <1>2
      <4> QED BY <1>1, <1>8, <4>1
    <3> QED BY <3>1 DEF Placing
  <2>2. \A l \in 1 .. m - 1 :
          stack'[l].current = round_up(Len(Upto(dims, l, w[l])[j[l] - 1]), offsets[l])
    BY <1>1, <1>9 DEF Placing
  <2>3. \A l : Room(l)' = Room(l)
    BY <1>10 DEF Room
  <2>4. top'.current = Len(Upto(dims, m, w[m])[j[m]])
    BY <1>8, <1>9 DEF U
  <2> QED BY <1>1, <1>10, <2>1, <2>2, <2>3, <2>4 DEF Placing
<1>12. Meant(all)'
  BY <1>10 DEF Meant
<1> QED BY <1>7, <1>8, <1>11, <1>12 DEF j

\* A brace that fits is a sub-array, and the gap before it is a gap.
LEMMA BraceFits ==
    ASSUME NEW all, NEW b \in Nat, NEW s \in Marks, NEW x \in Marks, NEW t \in Marks,
           NEW r \in Nat, NEW n \in Nat \ {0}, Len(all) \in Nat,
           \A k \in 1 .. Len(all) : all[k] \in 0 .. 1, Placed(all, b, t, r),
           Starts(Braced(s, x, n), t)
    PROVE  LET at == round_up(Len(s), n)
           IN  /\ at \in Nat /\ Len(s) <= at /\ Len(s) \in Nat
               /\ \A k \in b + Len(s) + 1 .. b + at : all[k] = 0
               /\ Placed(all, b + at, x, n)
               /\ Len(Braced(s, x, n)) = at + n
<1> DEFINE at == round_up(Len(s), n)
           u == Braced(s, x, n)
<1>1. /\ u \in Marks /\ at \in Nat /\ Len(s) <= at
      /\ \A k \in Len(s) + 1 .. at : u[k] = 0
      /\ ~ (Len(x) <= n) => u[at + 1] = 2 /\ Len(u) = at + 1
      /\ Len(x) <= n =>
           /\ Len(u) = at + n
           /\ \A k \in 1 .. n : u[at + k] = IF k <= Len(x) THEN x[k] ELSE 0
  <2>1. /\ Braced(s, x, n) \in Marks /\ round_up(Len(s), n) \in Nat
        /\ Len(s) <= round_up(Len(s), n)
        /\ \A k \in Len(s) + 1 .. round_up(Len(s), n) : Braced(s, x, n)[k] = 0
    BY AddBrace
  <2>2. ~ (Len(x) <= n) => /\ Braced(s, x, n)[round_up(Len(s), n) + 1] = 2
                          /\ Len(Braced(s, x, n)) = round_up(Len(s), n) + 1
    BY AddBrace
  <2>3. Len(x) <= n =>
          /\ Len(Braced(s, x, n)) = round_up(Len(s), n) + n
          /\ \A k \in 1 .. n : Braced(s, x, n)[round_up(Len(s), n) + k] =
                                IF k <= Len(x) THEN x[k] ELSE 0
    BY AddBrace
  <2> QED BY <2>1, <2>2, <2>3, Zenon
<1>2. Starts(u, t)
  OBVIOUS
<1> HIDE DEF at, u
<1>3. Len(u) \in Nat /\ Len(u) <= r /\ (\A k \in 1 .. Len(u) : all[b + k] = u[k])
  BY <1>1, <1>2, StartPlaced
<1>4. Len(s) \in Nat /\ Len(x) \in Nat /\ b + r <= Len(all)
  BY DEF Marks, Placed
<1>5. Len(x) <= n
  <2> SUFFICES ASSUME ~ (Len(x) <= n) PROVE FALSE
    OBVIOUS
  <2>1. Len(u) = at + 1 /\ u[at + 1] = 2 /\ at + 1 \in 1 .. Len(u)
    BY <1>1
  <2>2. all[b + (at + 1)] = 2
    BY <1>3, <2>1
  <2>3. b + (at + 1) \in 1 .. Len(all)
    BY <1>1, <1>3, <1>4, <2>1
  <2>4. all[b + (at + 1)] \in 0 .. 1
    BY <2>3
  <2> QED BY <2>2, <2>4
<1>6. Len(u) = at + n /\ \A k \in 1 .. n : u[at + k] = IF k <= Len(x) THEN x[k] ELSE 0
  BY <1>1, <1>5
<1>7. ASSUME NEW k \in b + Len(s) + 1 .. b + at PROVE all[k] = 0
  <2>1. k - b \in 1 .. Len(u) /\ k - b \in Len(s) + 1 .. at /\ b + (k - b) = k
    BY <1>1, <1>4, <1>6
  <2>2. all[b + (k - b)] = u[k - b] /\ u[k - b] = 0
    BY <1>1, <1>3, <2>1
  <2> QED BY <2>1, <2>2
<1>8. Placed(all, b + at, x, n)
  <2>1. ASSUME NEW k \in 1 .. n PROVE all[b + at + k] = IF k <= Len(x) THEN x[k] ELSE 0
    <3>1. at + k \in 1 .. Len(u) /\ b + (at + k) = b + at + k
      BY <1>1, <1>6
    <3>2. all[b + (at + k)] = u[at + k]
      BY <1>3, <3>1
    <3> QED BY <1>6, <3>1, <3>2
  <2>2. b + at + n <= Len(all)
    BY <1>1, <1>3, <1>4, <1>6
  <2> QED BY <1>5, <2>1, <2>2 DEF Placed
<1> QED BY <1>1, <1>4, <1>6, <1>7, <1>8 DEF at, u

LEMMA OpenBracePlacing ==
    ASSUME Types, NEW w, NEW i, Nested(w, i), OpenBrace, UNCHANGED meant,
           NEW m, m = Len(stack), NEW all, Meant(all), Placing(w, i, all),
           Listed(result, all, Here)
    PROVE  /\ Meant(all)' /\ Placing(Given(w, i, m), Begun(i, m), all)'
           /\ Listed(result', all, Here')
<1> DEFINE v == Given(w, i, m)
           j == Begun(i, m)
           U == Upto(dims, m, w[m])
           k == i[m] + 1
           n == offsets[m]
           at == round_up(top.current, n)
           t == Spelt(dims)[m][w[m]]
           x == Spelt(dims)[m + 1][w[m][k].items]
<1>1. /\ UNCHANGED <<dims, global, expanded, it, pushes, pc>>
      /\ result' = result /\ Len(stack') = m + 1 /\ m + 1 \in 1 .. Len(dims)
      /\ k \in 1 .. Len(w[m]) /\ w[m][k].brace
      /\ \A l \in 1 .. m - 1 : stack'[l] = stack[l]
      /\ stack'[m].base = top.base /\ stack'[m].current = at
      /\ stack'[m + 1].base = top.base + at /\ stack'[m + 1].current = 0
  <2>1. UNCHANGED <<dims, global, expanded, it, pushes, pc>>
    BY DEF OpenBrace, Aligning
  <2>2. /\ result' = result /\ Len(stack') = m + 1 /\ m + 1 \in 1 .. Len(dims)
        /\ i[m] + 1 \in 1 .. Len(w[m]) /\ w[m][i[m] + 1].brace
        /\ \A l \in 1 .. m - 1 : stack'[l] = stack[l]
        /\ stack'[m].base = top.base
        /\ stack'[m].current = round_up(top.current, offsets[m])
        /\ stack'[m + 1].base = top.base + round_up(top.current, offsets[m])
        /\ stack'[m + 1].current = 0
    BY OpenBraceNested
  <2> QED BY <2>1, <2>2
<1>2. /\ m \in Nat \ {0} /\ m \in 1 .. m /\ m \in 1 .. Len(stack)
      /\ top = stack[m] /\ top.base \in Nat /\ top.current \in Nat
      /\ i[m] \in 0 .. Len(w[m]) /\ Len(w[m]) \in Nat
  BY Running
<1>3. /\ dims \in Dims /\ m \in 1 .. Len(dims) /\ w[m] \in Lists(Len(dims))[m]
      /\ n = Offsets(dims)[m] /\ n \in Nat \ {0} /\ t \in Marks /\ Room(m) \in Nat
      /\ \A q \in 0 .. Len(w[m]) : U[q] \in Marks /\ Starts(U[q], t)
      /\ Len(all) \in Nat /\ \A q \in 1 .. Len(all) : all[q] \in 0 .. 1
      /\ Placed(all, top.base, t, Room(m))
  BY <1>2, Part
<1>4. /\ U[k] = Braced(U[i[m]], x, n)
      /\ U[i[m]] \in Marks /\ x \in Marks /\ Starts(U[k], t)
  <2>1. k - 1 = i[m] /\ k \in 0 .. Len(w[m])
    BY <1>1, <1>2
  <2>2. U[k] = Braced(U[k - 1], x, n)
    <3>1. \A q \in 1 .. Len(w[m]) : w[m][q].brace =>
            Upto(dims, m, w[m])[q] =
              Braced(Upto(dims, m, w[m])[q - 1], Sub(dims, m, w[m], q), Offsets(dims)[m])
      BY <1>3, UptoStep
    <3>2. Sub(dims, m, w[m], k) = x
      BY DEF Sub
    <3> HIDE DEF x, k, n
    <3> QED BY <1>1, <1>3, <3>1, <3>2
  <2>3. x \in Marks
    BY <1>1, <1>3, UptoIs DEF Sub
  <2> QED BY <1>2, <1>3, <2>1, <2>2, <2>3
<1>5. top.current = Len(U[i[m]])
  BY DEF Placing
<1> HIDE DEF U, x, t, n, k
<1>6. /\ at \in Nat /\ top.current <= at
      /\ \A q \in top.base + top.current + 1 .. top.base + at : all[q] = 0
      /\ Placed(all, top.base + at, x, n)
  <2> DEFINE s == U[i[m]]
             b == top.base
             r == Room(m)
  <2>1. /\ b \in Nat /\ s \in Marks /\ x \in Marks /\ t \in Marks /\ r \in Nat /\ n \in Nat \ {0}
        /\ Len(all) \in Nat /\ (\A q \in 1 .. Len(all) : all[q] \in 0 .. 1)
        /\ Placed(all, b, t, r) /\ Starts(Braced(s, x, n), t)
    BY <1>2, <1>3, <1>4
  <2> HIDE DEF s, b, r
  <2>2. /\ round_up(Len(s), n) \in Nat /\ Len(s) <= round_up(Len(s), n)
        /\ \A q \in b + Len(s) + 1 .. b + round_up(Len(s), n) : all[q] = 0
        /\ Placed(all, b + round_up(Len(s), n), x, n)
    BY <2>1, BraceFits
  <2> QED BY <1>5, <2>2 DEF s, b
<1> HIDE DEF at
<1>7. Here' = top.base + at /\ top' = stack'[m + 1]
  <2>1. top' = stack'[m + 1]
    BY <1>1 DEF top, Last
  <2>2. Here' = top.base + at + 0
    BY <1>1, <2>1 DEF Here
  <2> QED BY <1>2, <1>6, <2>1, <2>2
<1>8. Listed(result', all, Here')
  <2>1. result \in Seq(Entries)
    BY DEF Types, Entries
  <2>2. Here \in Nat /\ Here' \in Nat /\ Here <= Here'
    BY <1>2, <1>6, <1>7 DEF Here
  <2>3. \A q \in Here + 1 .. Here' : all[q] = 0
    BY <1>6, <1>7 DEF Here
  <2>4. \A g \in Nat : Here <= g /\ (\A q \in Here + 1 .. g : all[q] = 0) => Listed(result, all, g)
    BY <2>1, <2>2, ListedOver
  <2> QED BY <1>1, <2>2, <2>3, <2>4
<1>9. /\ v[m + 1] = w[m][k].items /\ j[m + 1] = 0 /\ v[m] = w[m] /\ j[m] = k
      /\ \A l \in 1 .. m - 1 : v[l] = w[l] /\ j[l] = i[l]
  <2>1. m \in 1 .. m + 1 /\ m + 1 \in 1 .. m + 1 /\ m # m + 1
        /\ \A l \in 1 .. m - 1 : l \in 1 .. m + 1 /\ l # m /\ l # m + 1
    BY <1>2
  <2> QED BY <2>1 DEF Given, Begun, k
<1>10. size' = size /\ offsets' = offsets
  BY <1>1 DEF size, offsets
<1> HIDE DEF j, v
<1>11. \A l : Room(l)' = Room(l)
  BY <1>10 DEF Room
<1>12. \A l \in 1 .. m + 1 : Placed(all, stack'[l].base, Spelt(dims)[l][v[l]], Room(l))
  <2> TAKE l \in 1 .. m + 1
  <2>1. l = m + 1 \/ l = m \/ l \in 1 .. m - 1
    BY <1>2
  <2>2. CASE l = m + 1
    <3>1. Room(m + 1) = n
      <4>1. m + 1 # 1 /\ m + 1 - 1 = m
        BY <1>2
      <4> QED BY <4>1 DEF Room, n
    <3> QED BY <1>1, <1>6, <1>9, <2>2, <3>1 DEF x
  <2>3. CASE l = m
    BY <1>1, <1>3, <1>9, <2>3 DEF t
  <2>4. CASE l \in 1 .. m - 1
    <3>1. l \in 1 .. Len(stack)
      BY <1>2, <2>4
    <3> QED BY <1>1, <1>9, <2>4, <3>1 DEF Placing
  <2> QED BY <2>1, <2>2, <2>3, <2>4
<1>13. \A l \in 1 .. m + 1 - 1 :
         stack'[l].current = round_up(Len(Upto(dims, l, v[l])[j[l] - 1]), offsets[l])
  <2> TAKE l \in 1 .. m + 1 - 1
  <2>1. l = m \/ l \in 1 .. m - 1
    BY <1>2
  <2>2. CASE l = m
    <3>1. k - 1 = i[m]
      BY <1>2 DEF k
    <3>2. at = round_up(Len(U[k - 1]), n)
      BY <1>5, <3>1 DEF at
    <3> QED BY <1>1, <1>9, <2>2, <3>2 DEF U, n
  <2>3. CASE l \in 1 .. m - 1
    <3>1. l \in 1 .. Len(stack) - 1
      BY <2>3
    <3>2. stack[l].current = round_up(Len(Upto(dims, l, w[l])[i[l] - 1]), offsets[l])
      BY <3>1 DEF Placing
    <3> QED BY <1>1, <1>9, <2>3, <3>2
  <2> QED BY <2>1, <2>2, <2>3
<1>14. top'.current = Len(Upto(dims, m + 1, v[m + 1])[j[m + 1]])
  <2>1. v[m + 1] \in Lists(Len(dims))[m + 1]
    <3>1. \A q \in 1 .. Len(w[m]) : w[m][q].brace => w[m][q].items \in Lists(Len(dims))[m + 1]
      <4>1. Len(dims) \in Nat
        BY <1>3 DEF Dims
      <4> QED BY <1>3, <4>1, ItemIs
    <3> QED BY <1>1, <1>9, <3>1
  <2>2. Upto(dims, m + 1, v[m + 1])[0] = <<>>
    <3>1. dims \in Dims /\ m + 1 \in 1 .. Len(dims)
      BY <1>1, <1>3
    <3>2. \A q \in 1 .. Len(dims) : \A s \in Lists(Len(dims))[q] : Upto(dims, q, s)[0] = <<>>
      BY <3>1, UptoStep
    <3> QED BY <2>1, <3>1, <3>2
  <2>3. Len(<<>>) = 0
    BY EmptySeq
  <2> QED BY <1>1, <1>7, <1>9, <2>2, <2>3
<1>15. Placing(v, j, all)'
  BY <1>1, <1>10, <1>11, <1>12, <1>13, <1>14 DEF Placing
<1>16. Meant(all)'
  BY <1>10 DEF Meant
<1> QED BY <1>8, <1>15, <1>16 DEF v, j

\* A call that has come to its end: what it has not gone through is a gap.
LEMMA Ended ==
    ASSUME Types, NEW w, NEW i, Nested(w, i), NEW m, m = Len(stack), i[m] = Len(w[m]),
           NEW all, Meant(all), Placing(w, i, all), Listed(result, all, Here)
    PROVE  Listed(result, all, top.base + Room(m)) /\ top.base + Room(m) \in Nat
<1> DEFINE t == Spelt(dims)[m][w[m]]
           b == top.base
           r == Room(m)
<1>1. /\ m \in 1 .. Len(stack) /\ top = stack[m] /\ top.base \in Nat /\ top.current \in Nat
  BY Running
<1>2. /\ dims \in Dims /\ m \in 1 .. Len(dims) /\ w[m] \in Lists(Len(dims))[m]
      /\ t \in Marks /\ r \in Nat /\ Placed(all, b, t, r)
  BY <1>1, Part
<1>3. top.current = Len(t)
  <2>1. Spelt(dims)[m][w[m]] = Upto(dims, m, w[m])[Len(w[m])]
    BY <1>2, SpeltIs
  <2> QED BY <2>1 DEF Placing
<1>4. b \in Nat
  BY <1>1
<1> HIDE DEF t, b, r
<1>5. Len(t) \in Nat /\ Len(t) <= r /\ \A k \in 1 .. r : all[b + k] = IF k <= Len(t) THEN t[k] ELSE 0
  BY <1>2 DEF Marks, Placed
<1>6. \A q \in b + Len(t) + 1 .. b + r : all[q] = 0
  <2> TAKE q \in b + Len(t) + 1 .. b + r
  <2>1. q - b \in 1 .. r /\ ~ (q - b <= Len(t)) /\ b + (q - b) = q
    BY <1>2, <1>4, <1>5
  <2>2. all[b + (q - b)] = 0
    BY <1>5, <2>1
  <2> QED BY <2>1, <2>2
<1>7. Here = b + Len(t) /\ Here \in Nat /\ b + r \in Nat /\ Here <= b + r
  BY <1>2, <1>3, <1>4, <1>5, SMTT(60) DEF Here, b
<1>8. result \in Seq(Entries)
  BY DEF Types, Entries
<1>9. \A g \in Nat : Here <= g /\ (\A q \in Here + 1 .. g : all[q] = 0) => Listed(result, all, g)
  BY <1>7, <1>8, ListedOver
<1> QED BY <1>6, <1>7, <1>9 DEF b, r

LEMMA CloseBracePlacing ==
    ASSUME Types, NEW w, NEW i, Nested(w, i), CloseBrace, UNCHANGED meant,
           NEW m, m = Len(stack), NEW all, Meant(all), Placing(w, i, all),
           Listed(result, all, Here)
    PROVE  /\ Meant(all)' /\ Placing(w, i, all)' /\ Listed(result', all, Here')
<1>0. /\ result' = result /\ Len(stack') = m - 1 /\ i[m] = Len(w[m]) /\ m - 1 \in 1 .. m
      /\ \A q \in 1 .. m - 2 : stack'[q] = stack[q]
      /\ stack'[m - 1].base = stack[m - 1].base
      /\ stack'[m - 1].current = stack[m - 1].current + offsets[m - 1]
  <2>1. result' = result /\ Len(stack') = m - 1 /\ i[m] = Len(w[m]) /\ m - 1 \in 1 .. m
    BY CloseBraceNested
  <2>2. \A q \in 1 .. m - 2 : stack'[q] = stack[q]
    BY CloseBraceNested
  <2>3. /\ stack'[m - 1].base = stack[m - 1].base
        /\ stack'[m - 1].current = stack[m - 1].current + offsets[m - 1]
    BY CloseBraceNested
  <2> QED BY <2>1, <2>2, <2>3
<1> DEFINE l == m - 1
           U == Upto(dims, l, w[l])
           k == i[l]
           n == offsets[l]
           x == Spelt(dims)[m][w[m]]
<1>1. /\ UNCHANGED <<dims, global, expanded, it, pushes, pc>>
      /\ result' = result /\ Len(stack') = l /\ i[m] = Len(w[m]) /\ l \in 1 .. m
      /\ \A q \in 1 .. m - 2 : stack'[q] = stack[q]
      /\ stack'[l].base = stack[l].base /\ stack'[l].current = stack[l].current + n
  <2>1. UNCHANGED <<dims, global, expanded, it, pushes, pc>>
    BY DEF CloseBrace, Aligning
  <2> QED BY <1>0, <2>1
<1>2. /\ m \in Nat \ {0} /\ m \in 1 .. Len(stack) /\ top = stack[m]
  BY Running
<1>3. l \in 1 .. Len(stack) /\ l \in 1 .. Len(stack) - 1 /\ l + 1 = m /\ m # 1
  BY <1>1, <1>2
<1>4. /\ dims \in Dims /\ l \in 1 .. Len(dims) /\ w[l] \in Lists(Len(dims))[l]
      /\ k \in 0 .. Len(w[l]) /\ Len(w[l]) \in Nat
      /\ stack[l].base \in Nat /\ stack[l].current \in Nat
      /\ n = Offsets(dims)[l] /\ n \in Nat \ {0}
      /\ \A q \in 0 .. Len(w[l]) : U[q] \in Marks
  BY <1>3, Part
<1>5. /\ k # 0 /\ w[l][k].brace /\ w[m] = w[l][k].items
      /\ stack[m].base = stack[l].base + stack[l].current
  BY <1>3 DEF Nested
<1>6. stack[l].current = round_up(Len(U[k - 1]), n)
  BY <1>3 DEF Placing
<1>7. Len(x) <= n /\ x \in Marks
  <2>1. Placed(all, stack[m].base, Spelt(dims)[m][w[m]], Room(m)) /\ x \in Marks
    BY <1>2, Part
  <2>2. Room(m) = n
    BY <1>3 DEF Room
  <2> QED BY <2>1, <2>2 DEF Placed
<1>8. Len(U[k]) = stack[l].current + n
  <2>1. k \in 1 .. Len(w[l]) /\ k - 1 \in 0 .. Len(w[l])
    BY <1>4, <1>5, SMTT(60)
  <2>2. \A q \in 1 .. Len(w[l]) : w[l][q].brace =>
          Upto(dims, l, w[l])[q] =
            Braced(Upto(dims, l, w[l])[q - 1], Sub(dims, l, w[l], q), Offsets(dims)[l])
    BY <1>4, UptoStep, SMTT(60)
  <2>3. Sub(dims, l, w[l], k) = x
    BY <1>3, <1>5 DEF Sub
  <2>4. U[k] = Braced(U[k - 1], x, n)
    <3> HIDE DEF x, k, n, l
    <3> QED BY <1>4, <1>5, <2>1, <2>2, <2>3
  <2>5. U[k - 1] \in Marks
    BY <1>4, <2>1
  <2> HIDE DEF x, k, n, l, U
  <2>6. \A s, y \in Marks : Len(y) <= n => Len(Braced(s, y, n)) = round_up(Len(s), n) + n
    <3> TAKE s, y \in Marks
    <3> HAVE Len(y) <= n
    <3>1. n \in Nat \ {0}
      BY <1>4
    <3> QED BY <3>1, AddBrace
  <2> QED BY <1>6, <1>7, <2>4, <2>5, <2>6
<1> HIDE DEF U, x, n, k
<1>9. top' = stack'[l] /\ Here' = stack[m].base + n
  <2>1. top' = stack'[l]
    BY <1>1 DEF top, Last
  <2>2. Here' = stack[l].base + (stack[l].current + n)
    BY <1>1, <2>1 DEF Here
  <2> QED BY <1>4, <1>5, <2>1, <2>2
<1>10. Listed(result', all, Here')
  <2>1. Listed(result, all, top.base + Room(m))
    BY <1>1, Ended
  <2>2. Room(m) = n
    BY <1>3 DEF Room, n
  <2> QED BY <1>1, <1>2, <1>9, <2>1, <2>2
<1>11. size' = size /\ offsets' = offsets
  BY <1>1 DEF size, offsets
<1>12. \A q : Room(q)' = Room(q)
  BY <1>11 DEF Room
<1>13. \A q \in 1 .. l : Placed(all, stack'[q].base, Spelt(dims)[q][w[q]], Room(q))
  <2> TAKE q \in 1 .. l
  <2>1. q \in 1 .. Len(stack) /\ (q = l \/ q \in 1 .. m - 2)
    BY <1>2
  <2>2. stack'[q].base = stack[q].base
    BY <1>1, <2>1
  <2> QED BY <2>1, <2>2 DEF Placing
<1>14. \A q \in 1 .. l - 1 :
         stack'[q].current = round_up(Len(Upto(dims, q, w[q])[i[q] - 1]), offsets[q])
  <2> TAKE q \in 1 .. l - 1
  <2>1. q \in 1 .. Len(stack) - 1 /\ q \in 1 .. m - 2
    BY <1>2
  <2>2. stack[q].current = round_up(Len(Upto(dims, q, w[q])[i[q] - 1]), offsets[q])
    BY <2>1 DEF Placing
  <2> QED BY <1>1, <2>1, <2>2
<1>15. top'.current = Len(Upto(dims, l, w[l])[i[l]])
  BY <1>1, <1>8, <1>9 DEF U, k
<1> HIDE DEF l
<1>16. Placing(w, i, all)'
  BY <1>1, <1>11, <1>12, <1>13, <1>14, <1>15 DEF Placing
<1>17. Meant(all)'
  BY <1>11 DEF Meant
<1> QED BY <1>10, <1>16, <1>17

-----------------------------------------------------------------------------
(* Filling the gaps.                                                       *)

\* The number of an expression is how many there are up to it.
LEMMA MeantIs ==
    ASSUME NEW all, Meant(all), Types
    PROVE  /\ size \in Nat \ {0} /\ Len(all) = size /\ meant \in Seq(Nat) /\ Len(meant) = size
           /\ \A k \in 1 .. size : /\ all[k] \in 0 .. 1
                                   /\ meant[k] = IF all[k] = 1 THEN Cardinality(Ones(all, k)) ELSE 0
<1>1. size \in Nat \ {0}
  BY SizeType
<1>2. all \in Seq(0 .. 1) /\ Len(all) = size /\ meant = Numbered(all)
  BY DEF Meant
<1> DEFINE e(k) == IF all[k] = 1 THEN Cardinality(Ones(all, k)) ELSE 0
<1>3. DOMAIN all = 1 .. size /\ \A k \in 1 .. size : all[k] \in 0 .. 1
  BY <1>1, <1>2
<1>4. meant = [k \in 1 .. size |-> e(k)]
  BY <1>2, <1>3 DEF Numbered, Ones
<1>5. \A k \in 1 .. size : e(k) \in Nat
  BY OnesType
<1> HIDE DEF e
<1>6. meant \in Seq(Nat) /\ Len(meant) = size /\ \A k \in 1 .. size : meant[k] = e(k)
  BY <1>1, <1>4, <1>5
<1> QED BY <1>1, <1>2, <1>3, <1>6 DEF e

LEMMA FillTypes ==
    ASSUME Types, Fill
    PROVE  LET n    == Len(expanded)
               here == it <= Len(result) /\ result[it].offset = n
               v    == IF here THEN result[it].exp ELSE 0
           IN  /\ Types' /\ n \in Nat /\ v \in Nat
               /\ expanded' \in Seq(Nat) /\ Len(expanded') = n + 1 /\ expanded'[n + 1] = v
               /\ \A k \in 1 .. n : expanded'[k] = expanded[k]
               /\ it \in 1 .. Len(result) + 1 /\ Len(result) \in Nat /\ result \in Seq(Entries)
<1> DEFINE n == Len(expanded)
           here == it <= Len(result) /\ result[it].offset = n
           v == IF here THEN result[it].exp ELSE 0
<1>1. /\ pc = "expand" /\ n < size /\ expanded' = Append(expanded, v)
      /\ it' = IF here THEN it + 1 ELSE it
      /\ UNCHANGED <<dims, global, stack, result, pc, pushes>>
  BY DEF Fill, Expanding
<1>2. size' = size /\ size \in Nat \ {0}
  BY <1>1, SizeType DEF size, offsets
<1>3. expanded \in Seq(Nat) /\ n \in Nat /\ it \in 1 .. Len(result) + 1 /\ Len(result) \in Nat
      /\ result \in Seq(Entries)
  <2>1. expanded \in Seq(Nat) /\ it \in 1 .. Len(result) + 1
    BY DEF Types
  <2>2. result \in Seq(Entries)
    BY DEF Types, Entries
  <2> QED BY <2>1, <2>2
<1>4. \A k \in 1 .. Len(result) : result[k].offset \in Nat /\ result[k].exp \in Nat
  BY <1>3, EntryType
<1>5. v \in Nat
  BY <1>3, <1>4
<1>6. it' \in 1 .. Len(result) + 1
  BY <1>1, <1>3
<1> HIDE DEF v, n, here
<1>7. /\ expanded' \in Seq(Nat) /\ Len(expanded') = n + 1 /\ expanded'[n + 1] = v
      /\ \A k \in 1 .. n : expanded'[k] = expanded[k]
  BY <1>1, <1>3, <1>5, AppendProperties DEF n
<1>8. Types'
  BY <1>1, <1>2, <1>3, <1>6, <1>7 DEF Types
<1> QED BY <1>3, <1>5, <1>7, <1>8 DEF n, v, here

\* An element more.
LEMMA FillFilling ==
    ASSUME Types, Fill, UNCHANGED meant, NEW all, Meant(all), Listed(result, all, size), Filling
    PROVE  Meant(all)' /\ Listed(result, all, size)' /\ Filling'
<1> DEFINE n == Len(expanded)
           p == n + 1
           here == it <= Len(result) /\ result[it].offset = n
           v == IF here THEN result[it].exp ELSE 0
<1>1. /\ pc = "expand" /\ n < size /\ expanded' = Append(expanded, v)
      /\ it' = IF here THEN it + 1 ELSE it
      /\ UNCHANGED <<dims, global, stack, result, pc, pushes>>
  BY DEF Fill, Expanding
<1>2. size' = size /\ size \in Nat \ {0} /\ Len(all) = size
      /\ \A k \in 1 .. size : /\ all[k] \in 0 .. 1
                              /\ meant[k] = IF all[k] = 1 THEN Cardinality(Ones(all, k)) ELSE 0
  BY <1>1, MeantIs DEF size, offsets
<1>3. /\ n \in Nat /\ v \in Nat /\ it \in 1 .. Len(result) + 1 /\ Len(result) \in Nat
      /\ Len(expanded') = n + 1 /\ expanded'[n + 1] = v
      /\ \A k \in 1 .. n : expanded'[k] = expanded[k]
  BY FillTypes
<1>4. \A k \in 1 .. Len(result) : result[k].offset \in Nat
  <2>1. result \in Seq(Entries)
    BY FillTypes
  <2> QED BY <2>1, EntryType
<1> HIDE DEF v, n, here
<1>5. p \in 1 .. size
  BY <1>1, <1>2, <1>3
<1>6. v = meant[p] /\ (\A k \in 1 .. it' - 1 : result[k].offset < p)
       /\ \A k \in it' .. Len(result) : p <= result[k].offset
  <2>1. \A k, l \in 1 .. Len(result) : k < l => result[k].offset < result[l].offset
    BY DEF Listed
  <2>2. /\ \A k \in 1 .. it - 1 : result[k].offset < n
        /\ \A k \in it .. Len(result) : n <= result[k].offset
    BY DEF Filling, n
  <2>3. \A k \in it .. Len(result) : k \in 1 .. Len(result)
    BY <1>3
  <2>4. \A k \in 1 .. it - 1 : k \in 1 .. Len(result)
    BY <1>3
  <2>5. CASE here
    <3>1. it \in 1 .. Len(result) /\ result[it].offset = n /\ v = result[it].exp /\ it' = it + 1
      BY <1>1, <1>3, <2>5 DEF here, v
    <3>2. v = meant[p]
      <4>1. all[result[it].offset + 1] = 1
            /\ result[it].exp = Cardinality(Ones(all, result[it].offset + 1))
        BY <3>1 DEF Listed
      <4> QED BY <1>2, <1>5, <3>1, <4>1
    <3>3. \A k \in 1 .. it' - 1 : result[k].offset < p
      <4> TAKE k \in 1 .. it' - 1
      <4>1. k \in 1 .. it - 1 \/ k = it
        BY <1>3, <3>1
      <4> QED BY <1>3, <1>4, <2>2, <2>4, <3>1, <4>1
    <3>4. \A k \in it' .. Len(result) : p <= result[k].offset
      <4> TAKE k \in it' .. Len(result)
      <4>1. k \in 1 .. Len(result) /\ it < k
        BY <1>3, <3>1
      <4>2. n < result[k].offset /\ result[k].offset \in Nat
        BY <1>4, <2>1, <3>1, <4>1
      <4> QED BY <1>3, <4>2
    <3> QED BY <3>2, <3>3, <3>4
  <2>6. CASE ~ here
    <3>1. v = 0 /\ it' = it
      BY <1>1, <2>6 DEF v
    <3>2. \A k \in it .. Len(result) : n < result[k].offset
      <4> TAKE k \in it .. Len(result)
      <4>1. k \in 1 .. Len(result) /\ it \in 1 .. Len(result) /\ it \in it .. Len(result)
        BY <1>3
      <4>2. n < result[it].offset
        BY <1>3, <1>4, <2>2, <2>6, <4>1 DEF here
      <4>3. k = it \/ it < k
        BY <1>3
      <4>4. it < k => result[it].offset < result[k].offset
        BY <2>1, <4>1
      <4>5. result[it].offset \in Nat /\ result[k].offset \in Nat
        BY <1>4, <4>1
      <4> QED BY <1>3, <4>2, <4>3, <4>4, <4>5
    <3>3. all[p] # 1
      <4> SUFFICES ASSUME all[p] = 1 PROVE FALSE
        OBVIOUS
      <4>1. PICK k \in 1 .. Len(result) : result[k].offset = p - 1
        BY <1>5 DEF Listed
      <4>2. result[k].offset = n
        BY <1>3, <4>1
      <4>3. k \in 1 .. it - 1 \/ k \in it .. Len(result)
        BY <1>3
      <4> QED BY <1>3, <2>2, <3>2, <4>2, <4>3
    <3>4. v = meant[p]
      BY <1>2, <1>5, <3>1, <3>3
    <3>5. \A k \in 1 .. it - 1 : result[k].offset < p
      BY <1>3, <1>4, <2>2, <2>4
    <3>6. \A k \in it .. Len(result) : p <= result[k].offset
      BY <1>3, <1>4, <2>3, <3>2
    <3> QED BY <3>1, <3>4, <3>5, <3>6
  <2> QED BY <2>5, <2>6
<1>7. \A k \in 1 .. n + 1 : expanded'[k] = meant[k]
  <2> TAKE k \in 1 .. n + 1
  <2>1. k \in 1 .. n \/ k = n + 1
    BY <1>3
  <2>2. CASE k \in 1 .. n
    <3>1. expanded[k] = meant[k]
      BY <2>2 DEF Filling, n
    <3> QED BY <1>3, <2>2, <3>1
  <2> QED BY <1>3, <1>6, <2>1, <2>2
<1>8. Filling'
  BY <1>1, <1>3, <1>6, <1>7 DEF Filling
<1>9. Meant(all)'
  BY <1>2 DEF Meant
<1>10. Listed(result, all, size)'
  BY <1>1, <1>2
<1> QED BY <1>8, <1>9, <1>10

\* The first place to fill is the first of the array.
LEMMA AlignedFilling ==
    ASSUME Types, Aligned, UNCHANGED meant, NEW w, NEW i, Nested(w, i),
           NEW all, Meant(all), Placing(w, i, all), Listed(result, all, Here)
    PROVE  Meant(all)' /\ Listed(result, all, size)' /\ Filling'
<1>1. /\ pc = "align" /\ top.items = <<>> /\ Len(stack) = 1
      /\ UNCHANGED <<dims, global, stack, result, expanded, it, pushes>>
  BY DEF Aligned, Aligning
<1>2. size' = size /\ size \in Nat \ {0} /\ Len(all) = size
  BY <1>1, MeantIs DEF size, offsets
<1>3. expanded = <<>> /\ it = 1 /\ Len(expanded) = 0
  BY <1>1, EmptySeq DEF Types
<1>4. Room(1) = size
  BY DEF Room
<1>5. top.base = 0
  <2>1. top.base \in Nat /\ top = stack[1] /\ 1 \in 1 .. Len(stack)
    BY <1>1, Running
  <2>2. Placed(all, stack[1].base, Spelt(dims)[1][w[1]], Room(1))
    BY <2>1 DEF Placing
  <2>3. top.base + size <= size
    BY <1>2, <1>4, <2>1, <2>2 DEF Placed
  <2> QED BY <1>2, <2>1, <2>3
<1>6. Listed(result, all, size)
  <2>1. i[1] = Len(w[1])
    <3>1. \A m : m = Len(stack) => i[m] = Len(w[m])
      BY <1>1, Running
    <3> QED BY <1>1, <3>1
  <2>2. \A m : m = Len(stack) /\ i[m] = Len(w[m]) => Listed(result, all, top.base + Room(m))
    BY Ended
  <2>3. Listed(result, all, top.base + Room(1))
    BY <1>1, <2>1, <2>2
  <2>4. 0 + size = size
    BY <1>2
  <2> QED BY <1>4, <1>5, <2>3, <2>4
<1>7. \A k \in 1 .. Len(result) : result[k].offset \in Nat
  <2>1. result \in Seq(Entries)
    BY DEF Types, Entries
  <2> QED BY <2>1, EntryType
<1>8. Filling'
  <2>1. 1 .. 0 = {} /\ 1 - 1 = 0
    OBVIOUS
  <2>2. \A k \in 1 .. Len(result) : 0 <= result[k].offset
    BY <1>7
  <2> QED BY <1>1, <1>3, <2>1, <2>2 DEF Filling
<1> QED BY <1>1, <1>2, <1>6, <1>8 DEF Meant

-----------------------------------------------------------------------------
(* The invariant holds at first and is kept.                               *)

\* Marks that have no 2.
LEMMA NoTwo ==
    ASSUME NEW s \in Marks, \A k \in 1 .. Len(s) : s[k] \in 0 .. 1
    PROVE  s \in Seq(0 .. 1)
<1>1. s \in [1 .. Len(s) -> 0 .. 2] /\ Len(s) \in Nat
  BY LenProperties DEF Marks
<1>2. s \in [1 .. Len(s) -> 0 .. 1]
  BY <1>1
<1> QED BY <1>1, <1>2, SeqDef

LEMMA Begins == LayoutInit => IInv
<1> SUFFICES ASSUME LayoutInit PROVE IInv
  OBVIOUS
<1>1. PICK in \in Input :
        /\ dims = in.dims
        /\ stack = <<[items |-> in.items, base |-> 0, current |-> 0]>>
  BY DEF LayoutInit, Init
<1>2. global \in BOOLEAN /\ result = <<>> /\ pc = "align" /\ expanded = <<>> /\ it = 1
  BY DEF LayoutInit, Init
<1> DEFINE items == in.items
           n == Len(dims)
           x == [items |-> items, base |-> 0, current |-> 0]
           w == [l \in 1 .. 1 |-> items]
           i == [l \in 1 .. 1 |-> 0]
           s == Spelt(dims)[1][items]
           all == Whole(s, size)
<1>3. dims \in Dims /\ n \in Nat /\ 1 \in 1 .. n /\ items \in Lists(n)[1]
  <2>1. in.dims \in Seq(Nat \ {0}) /\ in.dims # <<>> /\ in.items \in Lists(Len(in.dims))[1]
    BY InputAssumption
  <2>2. dims \in Dims
    BY <1>1, <2>1 DEF Dims
  <2>3. n \in Nat /\ 1 \in 1 .. n
    BY <2>2 DEF Dims
  <2> QED BY <1>1, <2>1, <2>2, <2>3
<1>4. \A q \in Lists(n)[1] : Len(q) \in Nat /\ \E S : q \in Seq(S)
  BY <1>3, ItemIs
<1>5. Len(items) \in Nat /\ items = SubSeq(items, 1, Len(items))
  <2>1. PICK S : items \in Seq(S)
    BY <1>3, <1>4
  <2> QED BY <1>3, <1>4, <2>1, SubSeqFull
<1> HIDE DEF items
<1>6. stack = <<x>> /\ Len(stack) = 1 /\ stack[1] = x /\ top = x
  BY <1>1 DEF top, Last, items
<1>7. x \in Frames(n) /\ x.items = items /\ x.base = 0 /\ x.current = 0
  BY <1>3 DEF Frames, Pieces
<1> HIDE DEF x
<1>8. Types
  <2>1. stack \in Seq(Frames(n))
    BY <1>6, <1>7
  <2>2. result \in Seq([offset : Nat, exp : Nat]) /\ Len(result) = 0
    BY <1>2, EmptySeq
  <2>3. expanded \in Seq(Nat) /\ Len(expanded) = 0
    BY <1>2, EmptySeq
  <2>4. size \in Nat
    <3>1. Offsets(dims)[1] \in Nat \ {0} /\ dims[1] \in Nat \ {0}
      BY <1>3, OffsetsType DEF Dims
    <3>2. \A a, b \in Nat \ {0} : a * b \in Nat
      OBVIOUS
    <3> QED BY <3>1, <3>2 DEF size, offsets
  <2>5. it \in 1 .. Len(result) + 1
    BY <1>2, <2>2
  <2> QED BY <1>2, <1>3, <1>6, <2>1, <2>2, <2>3, <2>4, <2>5 DEF Types
<1>9. w[1] = items /\ i[1] = 0
  OBVIOUS
<1> HIDE DEF w, i
<1>10. Nested(w, i)
  <2>1. \A l \in 1 .. Len(stack) : l = 1
    BY <1>6
  <2>2. 0 \in 0 .. Len(items) /\ 0 + 1 = 1
    BY <1>5
  <2>3. 1 .. Len(stack) - 1 = {}
    BY <1>6
  <2> QED BY <1>3, <1>5, <1>6, <1>7, <1>9, <2>1, <2>2, <2>3 DEF Nested
<1>11. ASSUME meant # <<>> PROVE Meant(all) /\ Placing(w, i, all) /\ Listed(result, all, Here)
  <2>1. s \in Marks /\ size \in Nat \ {0}
    BY <1>3, <1>8, SizeType, SpeltMarks
  <2>2. Fits(s, size) /\ meant = Numbered(all)
    BY <1>6, <1>7, <1>11 DEF LayoutInit
  <2> HIDE DEF s
  <2>3. Len(s) \in Nat /\ Len(s) <= size /\ \A k \in 1 .. Len(s) : s[k] \in 0 .. 1
    <3>1. Len(s) \in Nat /\ DOMAIN s = 1 .. Len(s) /\ \A k \in 1 .. Len(s) : s[k] \in 0 .. 2
      BY <2>1 DEF Marks
    <3>2. Len(s) <= size /\ \A k \in DOMAIN s : s[k] # 2
      BY <2>2 DEF Fits
    <3> QED BY <3>1, <3>2
  <2>4. /\ all \in Marks /\ Len(all) = size
        /\ \A k \in 1 .. size : all[k] = IF k <= Len(s) THEN s[k] ELSE 0
    BY <2>1, <2>3, WholeType
  <2> HIDE DEF all
  <2>5. all \in Seq(0 .. 1)
    <3>1. \A k \in 1 .. Len(all) : all[k] \in 0 .. 1
      BY <2>1, <2>3, <2>4
    <3> QED BY <2>4, <3>1, NoTwo
  <2>6. Meant(all)
    BY <2>2, <2>4, <2>5 DEF Meant
  <2>7. Placed(all, 0, s, size)
    <3>1. \A k \in 1 .. size : 0 + k = k
      BY <2>1
    <3>2. 0 + size <= Len(all)
      BY <2>1, <2>4
    <3> QED BY <2>3, <2>4, <3>1, <3>2 DEF Placed
  <2>8. Placing(w, i, all)
    <3>1. \A l \in 1 .. Len(stack) : l = 1
      BY <1>6
    <3>2. 1 .. Len(stack) - 1 = {}
      BY <1>6
    <3>3. Room(1) = size
      BY DEF Room
    <3>4. Len(Upto(dims, 1, items)[0]) = 0
      BY <1>3, UptoStep, EmptySeq
    <3>5. Placed(all, stack[1].base, Spelt(dims)[1][w[1]], Room(1))
      BY <1>6, <1>7, <1>9, <2>7, <3>3 DEF s
    <3>6. top.current = Len(Upto(dims, Len(stack), w[Len(stack)])[i[Len(stack)]])
      BY <1>6, <1>7, <1>9, <3>4
    <3> QED BY <3>1, <3>2, <3>5, <3>6 DEF Placing
  <2>9. Here = 0
    BY <1>6, <1>7 DEF Here
  <2>10. Len(result) = 0 /\ Cardinality(Ones(all, 0)) = 0
    <3>1. Ones(all, 0) = {}
      BY DEF Ones
    <3> QED BY <1>2, <3>1, EmptySeq, FS_EmptySet
  <2>11. Listed(result, all, Here)
    BY <2>9, <2>10 DEF Listed
  <2> QED BY <2>6, <2>8, <2>11
<1>12. Alignment(w, i)
  BY <1>10, <1>11 DEF Alignment
<1> QED BY <1>2, <1>8, <1>12 DEF IInv

LEMMA Steps == IInv /\ [LayoutNext]_<<vars, meant>> => IInv'
<1> SUFFICES ASSUME IInv, [LayoutNext]_<<vars, meant>> PROVE IInv'
  OBVIOUS
<1>1. Types
  BY DEF IInv
<1>2. CASE UNCHANGED <<vars, meant>>
  <2>1. UNCHANGED <<dims, global, stack, result, pc, expanded, it, meant>>
    BY <1>2 DEF vars
  <2>2. Types'
    BY <1>1, <2>1 DEF Types, size, offsets
  <2>3. size' = size /\ offsets' = offsets /\ top' = top /\ Here' = Here
    BY <2>1 DEF size, offsets, top, Here
  <2>4. \A l : Room(l)' = Room(l)
    BY <2>3 DEF Room
  <2>5. \A w, i, all : Nested(w, i)' = Nested(w, i) /\ Placing(w, i, all)' = Placing(w, i, all)
    BY <2>1, <2>3, <2>4 DEF Nested, Placing
  <2>6. \A all : Meant(all)' = Meant(all)
    BY <2>1, <2>3 DEF Meant
  <2>7. Filling' = Filling
    BY <2>1 DEF Filling
  <2>8. \A w, i : Alignment(w, i) => Alignment(w, i)'
    BY <2>1, <2>3, <2>5, <2>6 DEF Alignment
  <2> QED BY <2>1, <2>2, <2>3, <2>6, <2>7, <2>8 DEF IInv
<1>3. CASE TakeExpr /\ UNCHANGED meant
  <2>1. pc = "align" /\ pc' = "align"
    BY <1>3 DEF TakeExpr, Aligning
  <2>2. PICK w, i : Alignment(w, i)
    BY <2>1 DEF IInv
  <2>3. PICK m : m = Len(stack)
    OBVIOUS
  <2>4. Types' /\ Nested(w, Taken(i, m))'
    BY <1>1, <1>3, <2>2, <2>3, TakeExprNested DEF Alignment
  <2>5. ASSUME meant' # <<>>
        PROVE  \E all : /\ Meant(all)' /\ Placing(w, Taken(i, m), all)'
                        /\ Listed(result', all, Here')
    <3>1. PICK all : Meant(all) /\ Placing(w, i, all) /\ Listed(result, all, Here)
      BY <1>3, <2>2, <2>5 DEF Alignment
    <3> QED BY <1>1, <1>3, <2>2, <2>3, <3>1, TakeExprPlacing DEF Alignment
  <2>6. Alignment(w, Taken(i, m))'
    BY <2>4, <2>5 DEF Alignment
  <2> QED BY <2>1, <2>4, <2>6 DEF IInv
<1>4. CASE OpenBrace /\ UNCHANGED meant
  <2>1. pc = "align" /\ pc' = "align"
    BY <1>4 DEF OpenBrace, Aligning
  <2>2. PICK w, i : Alignment(w, i)
    BY <2>1 DEF IInv
  <2>3. PICK m : m = Len(stack)
    OBVIOUS
  <2>4. Types' /\ Nested(Given(w, i, m), Begun(i, m))'
    BY <1>1, <1>4, <2>2, <2>3, OpenBraceNested DEF Alignment
  <2>5. ASSUME meant' # <<>>
        PROVE  \E all : /\ Meant(all)' /\ Placing(Given(w, i, m), Begun(i, m), all)'
                        /\ Listed(result', all, Here')
    <3>1. PICK all : Meant(all) /\ Placing(w, i, all) /\ Listed(result, all, Here)
      BY <1>4, <2>2, <2>5 DEF Alignment
    <3> QED BY <1>1, <1>4, <2>2, <2>3, <3>1, OpenBracePlacing DEF Alignment
  <2>6. Alignment(Given(w, i, m), Begun(i, m))'
    BY <2>4, <2>5 DEF Alignment
  <2> QED BY <2>1, <2>4, <2>6 DEF IInv
<1>5. CASE CloseBrace /\ UNCHANGED meant
  <2>1. pc = "align" /\ pc' = "align"
    BY <1>5 DEF CloseBrace, Aligning
  <2>2. PICK w, i : Alignment(w, i)
    BY <2>1 DEF IInv
  <2>3. PICK m : m = Len(stack)
    OBVIOUS
  <2>4. Types' /\ Nested(w, i)'
    BY <1>1, <1>5, <2>2, <2>3, CloseBraceNested DEF Alignment
  <2>5. ASSUME meant' # <<>>
        PROVE  \E all : Meant(all)' /\ Placing(w, i, all)' /\ Listed(result', all, Here')
    <3>1. PICK all : Meant(all) /\ Placing(w, i, all) /\ Listed(result, all, Here)
      BY <1>5, <2>2, <2>5 DEF Alignment
    <3> QED BY <1>1, <1>5, <2>2, <2>3, <3>1, CloseBracePlacing DEF Alignment
  <2>6. Alignment(w, i)'
    BY <2>4, <2>5 DEF Alignment
  <2> QED BY <2>1, <2>4, <2>6 DEF IInv
<1>6. CASE Aligned /\ UNCHANGED meant
  <2>1. /\ pc = "align" /\ pc' = IF global THEN "done" ELSE "expand"
        /\ UNCHANGED <<dims, global, stack, result, expanded, it, pushes>>
    BY <1>6 DEF Aligned, Aligning
  <2>2. PICK w, i : Alignment(w, i)
    BY <2>1 DEF IInv
  <2>3. Types'
    BY <1>1, <2>1 DEF Types, size, offsets
  <2>4. ASSUME meant' # <<>>
        PROVE  \E all : Meant(all)' /\ Listed(result, all, size)' /\ Filling'
    <3>1. PICK all : Meant(all) /\ Placing(w, i, all) /\ Listed(result, all, Here)
      BY <1>6, <2>2, <2>4 DEF Alignment
    <3> QED BY <1>1, <1>6, <2>2, <3>1, AlignedFilling DEF Alignment
  <2>5. pc' # "align"
    BY <2>1
  <2> QED BY <2>3, <2>4, <2>5 DEF IInv
<1>7. CASE Fill /\ UNCHANGED meant
  <2>1. pc = "expand" /\ pc' = "expand"
    BY <1>7 DEF Fill, Expanding
  <2>2. Types'
    BY <1>1, <1>7, FillTypes
  <2>3. ASSUME meant' # <<>>
        PROVE  \E all : Meant(all)' /\ Listed(result, all, size)' /\ Filling'
    <3>1. PICK all : Meant(all) /\ Listed(result, all, size) /\ Filling
      BY <1>7, <2>1, <2>3 DEF IInv
    <3> QED BY <1>1, <1>7, <3>1, FillFilling
  <2> QED BY <2>1, <2>2, <2>3 DEF IInv
<1>8. CASE Leftover /\ UNCHANGED meant
  <2>1. /\ pc = "expand" /\ pc' = "expand"
        /\ UNCHANGED <<dims, global, stack, result, expanded, it, meant>>
    BY <1>8 DEF Leftover, Expanding
  <2> QED BY <2>1 DEF IInv, Types, Meant, Filling, size, offsets
<1>9. CASE Expanded /\ UNCHANGED meant
  <2>1. /\ pc = "expand" /\ pc' = "done" /\ Len(expanded) = size
        /\ UNCHANGED <<dims, global, stack, result, expanded, it, meant>>
    BY <1>9 DEF Expanded, Expanding
  <2> QED BY <2>1 DEF IInv, Types, Meant, Filling, size, offsets
<1> QED BY <1>2, <1>3, <1>4, <1>5, <1>6, <1>7, <1>8, <1>9 DEF LayoutNext, Next

\* The offsets that are given so far are within the array.
LEMMA OffsetsFit ==
    ASSUME IInv, meant # <<>>, NEW k \in DOMAIN result
    PROVE  result[k].offset \in 0 .. size - 1
<1>1. Types
  BY DEF IInv
<1>2. size \in Nat \ {0}
  BY <1>1, SizeType
<1>3. k \in 1 .. Len(result) /\ result[k].offset \in Nat
  <2>1. result \in Seq(Entries)
    BY <1>1 DEF Types, Entries
  <2>2. k \in 1 .. Len(result)
    BY <2>1
  <2> QED BY <2>1, <2>2, EntryType
<1>4. \E h \in Nat : h <= size /\ result[k].offset < h
  <2>1. CASE pc = "align"
    <3>1. PICK w, i : Alignment(w, i)
      BY <2>1 DEF IInv
    <3>2. Nested(w, i)
      BY <3>1 DEF Alignment
    <3>3. PICK all : Meant(all) /\ Placing(w, i, all) /\ Listed(result, all, Here)
      BY <3>1 DEF Alignment
    <3> DEFINE m == Len(stack)
               U == Upto(dims, m, w[m])
               t == Spelt(dims)[m][w[m]]
    <3>4. /\ m \in 1 .. Len(stack) /\ top = stack[m] /\ top.base \in Nat /\ top.current \in Nat
          /\ i[m] \in 0 .. Len(w[m])
      BY <1>1, <3>2, Running
    <3>5. /\ t \in Marks /\ U[i[m]] \in Marks /\ Starts(U[i[m]], t)
          /\ Room(m) \in Nat /\ Placed(all, top.base, t, Room(m))
      BY <1>1, <3>2, <3>3, <3>4, Part
    <3>6. top.current = Len(U[i[m]])
      BY <3>3 DEF Placing
    <3>7. Len(all) = size
      BY <3>3 DEF Meant
    <3>8. result[k].offset < Here
      BY <1>3, <3>3 DEF Listed
    <3> HIDE DEF t, U, m
    <3>9. Len(t) \in Nat /\ Len(U[i[m]]) <= Len(t) /\ Len(t) <= Room(m)
          /\ top.base + Room(m) <= Len(all)
      BY <3>5 DEF Marks, Starts, Placed
    <3>10. Here \in Nat /\ Here <= size
      BY <1>2, <3>4, <3>5, <3>6, <3>7, <3>9, SMTT(60) DEF Here
    <3> QED BY <3>8, <3>10
  <2>2. CASE pc # "align"
    <3>1. PICK all : Listed(result, all, size)
      BY <2>2 DEF IInv
    <3>2. result[k].offset < size
      BY <1>3, <3>1 DEF Listed
    <3> QED BY <1>2, <3>2
  <2> QED BY <2>1, <2>2
<1> QED BY <1>2, <1>3, <1>4

LEMMA TypesHold == IInv => TypeOK
<1> SUFFICES ASSUME IInv PROVE TypeOK
  OBVIOUS
<1>1. Types
  BY DEF IInv
<1>2. meant # <<>> => \A k \in DOMAIN result : result[k].offset \in 0 .. size - 1
  BY OffsetsFit
<1> QED BY <1>1, <1>2 DEF TypeOK, Types

LEMMA Filled == IInv => LocalRight
<1> SUFFICES ASSUME IInv, pc = "done", ~global, meant # <<>> PROVE expanded = meant
  BY DEF LocalRight
<1>1. Types /\ pc # "align"
  BY DEF IInv
<1>2. PICK all : Meant(all) /\ Filling
  BY <1>1 DEF IInv
<1>3. meant \in Seq(Nat) /\ Len(meant) = size
  BY <1>1, <1>2, MeantIs
<1>4. expanded \in Seq(Nat) /\ Len(expanded) = size
  BY <1>1 DEF Types
<1>5. \A k \in 1 .. Len(expanded) : expanded[k] = meant[k]
  BY <1>2 DEF Filling
<1> QED BY <1>3, <1>4, <1>5, SeqEqual

-----------------------------------------------------------------------------
(* The binary search.                                                      *)

Parts(list) ==
    {x \in (1 .. Len(list) + 1) \X (0 .. Len(list)) : x[1] + x[2] <= Len(list) + 1}

\* What it does with a part, if s is what it finds in the smaller ones.
SearchBefore(list, o, s, x) ==
    IF x[2] = 0 THEN x[1]
    ELSE IF list[x[1] + (x[2] \div 2)].offset < o
    THEN s[<<x[1] + (x[2] \div 2) + 1, x[2] - (x[2] \div 2) - 1>>]
    ELSE s[<<x[1], x[2] \div 2>>]

\* Place p, or the end of the part that is nearer to it.
Clamp(p, x) == IF p < x[1] THEN x[1] ELSE IF x[1] + x[2] < p THEN x[1] + x[2] ELSE p

\* The first place where the offsets are not below o.
Splits(list, o, p) ==
    p \in 1 .. Len(list) + 1 /\ \A k \in 1 .. Len(list) : list[k].offset < o <=> k < p

LEMMA SomeSplit ==
    ASSUME NEW list \in Seq(Entries), NEW o \in Nat,
           \A k, l \in 1 .. Len(list) : k < l => list[k].offset < list[l].offset
    PROVE  \E p : Splits(list, o, p)
<1> DEFINE n == Len(list)
           T == {p \in 1 .. n + 1 : p = n + 1 \/ ~ (list[p].offset < o)}
<1>1. n \in Nat
  OBVIOUS
<1>2. n + 1 \in T /\ T \subseteq Nat
  BY <1>1
<1>3. PICK p \in T : \A q \in T : p <= q
  BY <1>2, Least, Zenon
<1>4. p \in 1 .. n + 1 /\ (p = n + 1 \/ ~ (list[p].offset < o))
  OBVIOUS
<1>5. \A k \in 1 .. n : list[k].offset \in Nat
  BY EntryType
<1>6. \A k \in 1 .. n : k < p => list[k].offset < o
  <2> TAKE k \in 1 .. n
  <2> HAVE k < p
  <2>1. k \notin T
    BY <1>1, <1>3, <1>4
  <2> QED BY <1>1, <2>1
<1>7. \A k \in 1 .. n : p <= k => ~ (list[k].offset < o)
  <2> TAKE k \in 1 .. n
  <2> HAVE p <= k
  <2>1. p \in 1 .. n /\ ~ (list[p].offset < o)
    BY <1>1, <1>4
  <2>2. p = k \/ list[p].offset < list[k].offset
    BY <1>1, <2>1
  <2>3. list[p].offset \in Nat /\ list[k].offset \in Nat
    BY <1>5, <2>1
  <2> QED BY <2>1, <2>2, <2>3
<1>8. \A k \in 1 .. n : k < p \/ p <= k
  BY <1>1, <1>4
<1> QED BY <1>1, <1>4, <1>6, <1>7, <1>8 DEF Splits

LEMMA Halving ==
    ASSUME NEW list \in Seq(Entries), NEW o \in Nat, NEW p, Splits(list, o, p),
           NEW x \in Parts(list), NEW s,
           \A y \in Parts(list) : y[2] < x[2] => s[y] = Clamp(p, y)
    PROVE  SearchBefore(list, o, s, x) = Clamp(p, x)
<1> DEFINE f == x[1]
           n == x[2]
           half == n \div 2
           mid == f + half
           above == <<mid + 1, n - half - 1>>
           below == <<f, half>>
           N == Len(list)
<1>1. N \in Nat /\ f \in 1 .. N + 1 /\ n \in 0 .. N /\ f + n <= N + 1
  BY DEF Parts
<1>2. p \in 1 .. N + 1
  BY DEF Splits
<1>3. CASE n = 0
  <2>1. SearchBefore(list, o, s, x) = f
    BY <1>3 DEF SearchBefore
  <2>2. Clamp(p, x) = f
    BY <1>1, <1>2, <1>3 DEF Clamp
  <2> QED BY <2>1, <2>2
<1>4. CASE n # 0
  <2>1. half \in 0 .. n - 1
    <3>1. \A a \in Nat \ {0} : a \div 2 \in 0 .. a - 1
      OBVIOUS
    <3> QED BY <1>1, <1>4, <3>1
  <2>2. SearchBefore(list, o, s, x) =
          IF list[mid].offset < o THEN s[above] ELSE s[below]
    BY <1>4 DEF SearchBefore
  <2>3. /\ above[1] = mid + 1 /\ above[2] = n - half - 1
        /\ below[1] = f /\ below[2] = half
    OBVIOUS
  <2>4. mid = f + half /\ above = <<mid + 1, n - half - 1>> /\ below = <<f, half>>
    OBVIOUS
  <2> HIDE DEF half, f, n, mid, above, below, N
  <2>5. mid \in 1 .. N
    BY <1>1, <1>4, <2>1, <2>4
  <2>6. above \in Parts(list) /\ above[2] < n /\ above[1] + above[2] = f + n
    <3>1. mid + 1 \in 1 .. N + 1 /\ n - half - 1 \in 0 .. N
      BY <1>1, <2>1, <2>5
    <3>2. mid + 1 + (n - half - 1) = f + n /\ n - half - 1 < n
      BY <1>1, <2>1, <2>4
    <3> QED BY <1>1, <2>3, <2>4, <3>1, <3>2 DEF Parts, N
  <2>7. below \in Parts(list) /\ below[2] < n
    <3>1. half \in 0 .. N /\ f + half <= N + 1 /\ half < n
      BY <1>1, <2>1
    <3> QED BY <1>1, <2>3, <2>4, <3>1 DEF Parts, N
  <2>8. list[mid].offset < o <=> mid < p
    BY <2>5 DEF Splits, N
  <2>9. s[above] = Clamp(p, above) /\ s[below] = Clamp(p, below)
    BY <2>6, <2>7 DEF n
  <2>10. Clamp(p, x) = IF p < f THEN f ELSE IF f + n < p THEN f + n ELSE p
    BY DEF Clamp, f, n
  <2>11. CASE mid < p
    <3>1. Clamp(p, above) = IF f + n < p THEN f + n ELSE p
      BY <1>1, <1>2, <2>3, <2>5, <2>6, <2>11 DEF Clamp
    <3>2. ~ (p < f)
      BY <1>1, <1>2, <2>1, <2>4, <2>11
    <3> QED BY <2>2, <2>8, <2>9, <2>10, <2>11, <3>1, <3>2
  <2>12. CASE ~ (mid < p)
    <3>1. Clamp(p, below) = IF p < f THEN f ELSE p
      BY <1>1, <1>2, <2>1, <2>3, <2>4, <2>12 DEF Clamp
    <3>2. ~ (f + n < p)
      BY <1>1, <1>2, <2>1, <2>4, <2>12
    <3> QED BY <2>2, <2>8, <2>9, <2>10, <2>12, <3>1, <3>2
  <2> QED BY <2>11, <2>12
<1> QED BY <1>3, <1>4

LEMMA LowerBound ==
    ASSUME NEW list \in Seq(Entries), NEW o \in Nat, NEW p, Splits(list, o, p)
    PROVE  lower_bound(list, o) = p
<1> DEFINE P == Parts(list)
           N == Len(list)
           Eq(s) == s = [x \in P |-> SearchBefore(list, o, s, x)]
           search == CHOOSE s : Eq(s)
           g == [x \in P |-> Clamp(p, x)]
<1>1. lower_bound(list, o) = search[<<1, N>>]
  BY DEF lower_bound, SearchBefore, Parts
<1>2. Eq(g)
  <2>1. \A x \in P : SearchBefore(list, o, g, x) = Clamp(p, x)
    <3> TAKE x \in P
    <3>1. \A y \in P : g[y] = Clamp(p, y)
      OBVIOUS
    <3> HIDE DEF g
    <3> QED BY <3>1, Halving
  <2> QED BY <2>1
<1>3. Eq(search)
  BY <1>2, Zenon
<1> HIDE DEF search, g
<1>4. \A x \in P : search[x] = SearchBefore(list, o, search, x)
  BY <1>3
<1>5. N \in Nat /\ \A x \in P : x[2] \in Nat
  BY DEF Parts
<1> DEFINE bad == {n \in Nat : \E x \in P : x[2] = n /\ search[x] # Clamp(p, x)}
<1>6. bad = {}
  <2> SUFFICES ASSUME bad # {} PROVE FALSE
    OBVIOUS
  <2>1. bad \subseteq Nat
    OBVIOUS
  <2>2. PICK n \in bad : \A q \in bad : n <= q
    <3> HIDE DEF bad
    <3> QED BY <2>1, Least
  <2>3. PICK x \in P : x[2] = n /\ search[x] # Clamp(p, x)
    OBVIOUS
  <2>4. \A y \in P : y[2] < x[2] => search[y] = Clamp(p, y)
    <3> TAKE y \in P
    <3> HAVE y[2] < x[2]
    <3>1. y[2] \in Nat /\ n \in Nat /\ ~ (n <= y[2])
      BY <1>5, <2>3
    <3>2. y[2] \notin bad
      BY <2>2, <3>1
    <3> QED BY <3>1, <3>2
  <2>5. SearchBefore(list, o, search, x) = Clamp(p, x)
    BY <2>4, Halving
  <2> QED BY <1>4, <2>3, <2>5
<1>7. <<1, N>> \in P /\ <<1, N>>[1] = 1 /\ <<1, N>>[2] = N
  BY <1>5 DEF Parts
<1>8. search[<<1, N>>] = Clamp(p, <<1, N>>)
  BY <1>5, <1>6, <1>7
<1>9. p \in 1 .. N + 1
  BY DEF Splits
<1>10. Clamp(p, <<1, N>>) = p
  BY <1>5, <1>7, <1>9 DEF Clamp
<1> QED BY <1>1, <1>8, <1>10

LEMMA LookedUp == IInv => LookupRight
<1> SUFFICES ASSUME IInv, pc = "done", global, meant # <<>>, NEW o \in 0 .. size - 1
             PROVE  clean_up(result, o) = meant[o + 1]
  BY DEF LookupRight
<1>1. Types /\ pc # "align"
  BY DEF IInv
<1>2. PICK all : Meant(all) /\ Listed(result, all, size)
  BY <1>1 DEF IInv
<1>3. /\ size \in Nat \ {0}
      /\ \A k \in 1 .. size :
           meant[k] = IF all[k] = 1 THEN Cardinality(Ones(all, k)) ELSE 0
  BY <1>1, <1>2, MeantIs
<1>4. result \in Seq(Entries) /\ Len(result) \in Nat
  BY <1>1 DEF Types, Entries
<1>5. o \in Nat /\ o + 1 \in 1 .. size /\ o + 1 - 1 = o
  BY <1>3
<1>6. \A k, l \in 1 .. Len(result) : k < l => result[k].offset < result[l].offset
  BY <1>2 DEF Listed
<1>7. PICK p : Splits(result, o, p)
  BY <1>4, <1>5, <1>6, SomeSplit
<1>8. lower_bound(result, o) = p /\ p \in 1 .. Len(result) + 1
  BY <1>4, <1>5, <1>7, LowerBound DEF Splits
<1>9. CASE \E k \in 1 .. Len(result) : result[k].offset = o
  <2>1. PICK k \in 1 .. Len(result) : result[k].offset = o
    BY <1>9
  <2>2. k = p
    <3>1. ~ (k < p)
      BY <1>5, <1>7, <2>1 DEF Splits
    <3>2. ~ (p < k)
      <4> SUFFICES ASSUME p < k PROVE FALSE
        OBVIOUS
      <4>1. p \in 1 .. Len(result)
        BY <1>4, <1>8
      <4>2. result[p].offset < o
        BY <1>6, <2>1, <4>1
      <4>3. p < p
        BY <1>7, <4>1, <4>2 DEF Splits
      <4> QED BY <1>8, <4>3
    <3> QED BY <1>4, <1>8, <3>1, <3>2
  <2>3. clean_up(result, o) = result[k].exp
    BY <1>4, <1>8, <2>1, <2>2 DEF clean_up
  <2>4. all[o + 1] = 1 /\ result[k].exp = Cardinality(Ones(all, o + 1))
    BY <1>2, <2>1 DEF Listed
  <2> QED BY <1>3, <1>5, <2>3, <2>4
<1>10. CASE ~ \E k \in 1 .. Len(result) : result[k].offset = o
  <2>1. clean_up(result, o) = 0
    <3>1. p > Len(result) \/ p \in 1 .. Len(result)
      BY <1>4, <1>8
    <3> QED BY <1>8, <1>10, <3>1 DEF clean_up
  <2>2. all[o + 1] # 1
    BY <1>2, <1>5, <1>10 DEF Listed
  <2> QED BY <1>3, <1>5, <2>1, <2>2
<1> QED BY <1>9, <1>10

-----------------------------------------------------------------------------
(* The theorems.                                                           *)

\* Every state of every compilation has the invariant: the braces that are
\* open, the part of the array that each is for, and the list of those before.
THEOREM Inductive == LayoutSpec => []IInv
<1>1. LayoutInit => IInv
  BY Begins
<1>2. IInv /\ [LayoutNext]_<<vars, meant>> => IInv'
  BY Steps
<1> QED BY <1>1, <1>2, PTL DEF LayoutSpec

\* _array_align() goes no deeper than the array has dimensions, and puts no
\* element outside of the array that an initialiser fits.
THEOREM TypeCorrect == LayoutSpec => []TypeOK
<1>1. IInv => TypeOK
  BY TypesHold
<1> QED BY <1>1, Inductive, PTL

\* array_align_expand() makes of the list exactly the elements that the
\* initialiser denotes.
THEOREM LocalsAreRight == LayoutSpec => []LocalRight
<1>1. IInv => LocalRight
  BY Filled
<1> QED BY <1>1, Inductive, PTL

\* clean_up() finds in the list, which is in order, every element that the
\* initialiser denotes and a zero for every gap.
THEOREM LookupsAreRight == LayoutSpec => []LookupRight
<1>1. IInv => LookupRight
  BY LookedUp
<1> QED BY <1>1, Inductive, PTL
=============================================================================
