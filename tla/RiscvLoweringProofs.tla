------------------------- MODULE RiscvLoweringProofs -------------------------
(***************************************************************************)
(* The lowering to RISC-V is right for words and immediates of any width,  *)
(* frames of any size and functions of any length.                         *)
(*                                                                         *)
(* The passes work instruction by instruction (LowerConcat), and lowered,  *)
(* each instruction has the effect that it would have if every immediate   *)
(* fitted, but for the scratch register (AddiDoes, LwDoes, SwDoes,         *)
(* OperateDoes).  So the code of a unit does what the unit means           *)
(* (UnitDoes), and processors that agree with Dashie's go on agreeing      *)
(* (UnitAlters, AlterAgrees), which gives the invariant.                   *)
(***************************************************************************)
EXTENDS RiscvLowering, WellFoundedInduction, SequenceTheorems, TLAPS

\* A well-founded relation has minimal elements.
LEMMA MinimalElement ==
    ASSUME NEW R, NEW S, IsWellFoundedOn(R, S), NEW T, T \subseteq S, T # {}
    PROVE  \E x \in T : \A y \in T : ~ (<<y, x>> \in R)
  BY WFMin, ZenonT(60)

\* Being smaller is well-founded on the natural numbers.
LEMMA SmallerIsWellFounded ==
    \E R : /\ IsWellFoundedOn(R, Nat)
           /\ \A x, y \in Nat : x < y => <<x, y>> \in R
<1>1. \A x, y \in Nat : x < y => <<x, y>> \in OpToRel(<, Nat)
  BY Zenon DEF OpToRel
<1> QED BY <1>1, NatLessThanWellFounded, Zenon

\* A set of natural numbers that is not empty has a least element: what stands
\* in for induction, which the provers cannot do.
LEMMA Least ==
    ASSUME NEW T, T \subseteq Nat, T # {}
    PROVE  \E x \in T : \A y \in T : x <= y
<1>1. PICK R : /\ IsWellFoundedOn(R, Nat)
               /\ \A x, y \in Nat : x < y => <<x, y>> \in R
  BY SmallerIsWellFounded, Zenon
<1>2. IsWellFoundedOn(R, Nat)
  BY <1>1
<1>3. \E x \in T : \A y \in T : ~ (<<y, x>> \in R)
  BY <1>2, MinimalElement, ZenonT(60)
<1>4. PICK x \in T : \A y \in T : ~ (<<y, x>> \in R)
  BY <1>3, Zenon
<1>5. ASSUME NEW y \in T PROVE x <= y
  <2>1. x \in Nat /\ y \in Nat /\ ~ (y < x)
    BY <1>1, <1>4, Zenon
  <2> QED BY <2>1
<1> QED BY <1>5, Zenon

-----------------------------------------------------------------------------
(* Flattening a sequence of sequences.                                     *)

(* f[i] is the concatenation of the first i sequences.                     *)
Joins(f, ss, S) ==
    /\ f \in [1 .. Len(ss) -> Seq(S)]
    /\ f[1] = ss[1]
    /\ \A i \in 2 .. Len(ss) : f[i] = f[i - 1] \o ss[i]

Alike(n, f, g) == \A i \in 1 .. n : f[i] = g[i]

(* Joins has at most one solution.                                         *)
LEMMA JoinsUnique ==
    ASSUME NEW S, NEW ss \in Seq(Seq(S)), NEW tt \in Seq(Seq(S)),
           NEW f, NEW g, Joins(f, ss, S), Joins(g, tt, S),
           Len(ss) <= Len(tt), Alike(Len(ss), ss, tt)
    PROVE  Alike(Len(ss), f, g)
<1> DEFINE Bad == {i \in 1 .. Len(ss) : f[i] # g[i]}
<1>1. Len(ss) \in Nat /\ Len(tt) \in Nat
  OBVIOUS
<1>2. SUFFICES ASSUME Bad # {} PROVE FALSE
  BY DEF Alike
<1>3. Bad \subseteq Nat
  BY <1>1
<1>4. PICK i \in Bad : \A j \in Bad : i <= j
  BY <1>2, <1>3, Least
<1>5. i \in 1 .. Len(ss) /\ f[i] # g[i]
  OBVIOUS
<1>6. i # 1
  <2>1. f[1] = ss[1] /\ g[1] = tt[1]
    BY DEF Joins
  <2>2. i = 1 => ss[1] = tt[1]
    BY <1>5 DEF Alike
  <2> QED BY <1>5, <2>1, <2>2
<1>7. i - 1 \in 1 .. Len(ss) /\ i \in 2 .. Len(ss) /\ i \in 2 .. Len(tt) /\ ~(i <= i - 1)
  BY <1>1, <1>5, <1>6
<1>8. f[i - 1] = g[i - 1]
  BY <1>4, <1>7
<1>9. f[i] = f[i - 1] \o ss[i] /\ g[i] = g[i - 1] \o tt[i]
  BY <1>7 DEF Joins
<1>10. ss[i] = tt[i]
  BY <1>5 DEF Alike
<1> QED BY <1>5, <1>8, <1>9, <1>10

(* Joins has a solution.                                                   *)
LEMMA JoinsExists ==
    ASSUME NEW S, NEW ss \in Seq(Seq(S)), ss # <<>>
    PROVE  \E f : Joins(f, ss, S)
<1> DEFINE Upto(n, f) == /\ f \in [1 .. n -> Seq(S)] /\ f[1] = ss[1]
                         /\ \A i \in 2 .. n : f[i] = f[i - 1] \o ss[i]
           Bad == {n \in 1 .. Len(ss) : ~\E f : Upto(n, f)}
<1>1. Len(ss) \in Nat /\ Len(ss) # 0 /\ \A i \in 1 .. Len(ss) : ss[i] \in Seq(S)
  OBVIOUS
<1>2. Upto(1, [i \in 1 .. 1 |-> ss[1]])
  BY <1>1
<1>3. Bad = {}
  <2>1. SUFFICES ASSUME Bad # {} PROVE FALSE
    OBVIOUS
  <2>2. Bad \subseteq Nat
    <3> HIDE DEF Upto
    <3> QED BY <1>1
  <2>3. PICK n \in Bad : \A j \in Bad : n <= j
    BY <2>1, <2>2, Least
  <2>4. n \in 1 .. Len(ss) /\ ~\E f : Upto(n, f)
    OBVIOUS
  <2>5. n # 1
    BY <1>2, <2>4
  <2>6. n - 1 \in 1 .. Len(ss) /\ n \in 2 .. Len(ss) /\ ~(n <= n - 1)
    BY <1>1, <2>4, <2>5
  <2>7. PICK f : Upto(n - 1, f)
    BY <2>3, <2>6
  <2> DEFINE g == [i \in 1 .. n |-> IF i = n THEN f[n - 1] \o ss[n] ELSE f[i]]
  <2>8. f[n - 1] \in Seq(S) /\ ss[n] \in Seq(S) /\ f[n - 1] \o ss[n] \in Seq(S)
    BY <1>1, <2>6, <2>7, ConcatProperties
  <2>9. g \in [1 .. n -> Seq(S)] /\ g[1] = ss[1]
    BY <2>6, <2>7, <2>8
  <2>10. ASSUME NEW i \in 2 .. n PROVE g[i] = g[i - 1] \o ss[i]
    <3>1. CASE i = n
      <4>1. n \in 1 .. n /\ n - 1 \in 1 .. n /\ n - 1 # n
        BY <2>6
      <4> QED BY <3>1, <4>1
    <3>2. CASE i # n
      <4>1. i \in 2 .. n - 1 /\ i \in 1 .. n /\ i - 1 \in 1 .. n /\ i - 1 # n
        BY <2>6, <3>2
      <4> QED BY <2>7, <3>2, <4>1
    <3> QED BY <3>1, <3>2
  <2>11. Upto(n, g)
    BY <2>9, <2>10
  <2> HIDE DEF g, Upto
  <2> QED BY <2>4, <2>11
<1>4. Len(ss) \notin Bad /\ Len(ss) \in 1 .. Len(ss)
  <2> HIDE DEF Bad
  <2> QED BY <1>1, <1>3
<1>5. PICK f : Upto(Len(ss), f)
  BY <1>4
<1> QED BY <1>5 DEF Joins

(* What FlattenSeq of the library computes.                                *)
LEMMA FlattenJoins ==
    ASSUME NEW S, NEW ss \in Seq(Seq(S)), ss # <<>>
    PROVE  \E f : Joins(f, ss, S) /\ FlattenSeq(ss) = f[Len(ss)]
<1> DEFINE Solves(f) == f = [i \in 1 .. Len(ss) |-> IF i = 1 THEN ss[i] ELSE f[i - 1] \o ss[i]]
           flat == CHOOSE f : Solves(f)
<1>1. Len(ss) \in Nat /\ Len(ss) # 0 /\ \A i \in 1 .. Len(ss) : ss[i] \in Seq(S)
  OBVIOUS
<1>2. PICK f : Joins(f, ss, S)
  BY JoinsExists
<1>3. Solves(f)
  <2>1. f = [i \in 1 .. Len(ss) |-> f[i]]
    BY <1>2 DEF Joins
  <2>2. ASSUME NEW i \in 1 .. Len(ss)
        PROVE  f[i] = IF i = 1 THEN ss[i] ELSE f[i - 1] \o ss[i]
    <3>1. i = 1 \/ i \in 2 .. Len(ss)
      BY <1>1
    <3> QED BY <1>2, <3>1 DEF Joins
  <2> QED BY <2>1, <2>2
<1>4. FlattenSeq(ss) = flat[Len(ss)]
  BY <1>1 DEF FlattenSeq
<1> QED
  <2>1. Solves(flat)
    BY <1>3
  <2>2. \A i \in 1 .. Len(ss) : flat[i] = f[i]
    <3> DEFINE Bad == {i \in 1 .. Len(ss) : flat[i] # f[i]}
    <3>1. SUFFICES ASSUME Bad # {} PROVE FALSE
      OBVIOUS
    <3> HIDE DEF flat
    <3>2. Bad \subseteq Nat
      BY <1>1
    <3>3. PICK i \in Bad : \A j \in Bad : i <= j
      BY <3>1, <3>2, Least
    <3>4. i \in 1 .. Len(ss) /\ flat[i] # f[i]
      OBVIOUS
    <3>5. \A j \in 1 .. Len(ss) : flat[j] = IF j = 1 THEN ss[j] ELSE flat[j - 1] \o ss[j]
      BY <2>1
    <3>6. \A j \in 1 .. Len(ss) : f[j] = IF j = 1 THEN ss[j] ELSE f[j - 1] \o ss[j]
      BY <1>3
    <3>7. i # 1
      BY <3>4, <3>5, <3>6
    <3>8. i - 1 \in 1 .. Len(ss) /\ ~(i <= i - 1)
      BY <1>1, <3>4, <3>7
    <3>9. flat[i - 1] = f[i - 1]
      BY <3>3, <3>8
    <3> QED BY <3>4, <3>5, <3>6, <3>7, <3>9
  <2> HIDE DEF flat
  <2> QED BY <1>1, <1>2, <1>4, <2>2

\* Nothing flattens to nothing.
LEMMA FlattenNone == FlattenSeq(<<>>) = <<>>
  BY DEF FlattenSeq

\* One sequence flattens to itself.
LEMMA FlattenOne ==
    ASSUME NEW S, NEW s \in Seq(S)
    PROVE  FlattenSeq(<<s>>) = s
<1>1. <<s>> \in Seq(Seq(S)) /\ <<s>> # <<>> /\ Len(<<s>>) = 1 /\ <<s>>[1] = s
  OBVIOUS
<1>2. PICK f : Joins(f, <<s>>, S) /\ FlattenSeq(<<s>>) = f[1]
  BY <1>1, FlattenJoins
<1> QED BY <1>1, <1>2 DEF Joins

\* Flattening sequences over S gives a sequence over S.
LEMMA FlattenType ==
    ASSUME NEW S, NEW ss \in Seq(Seq(S))
    PROVE  FlattenSeq(ss) \in Seq(S)
<1>1. CASE ss = <<>>
  <2>1. FlattenSeq(ss) = <<>>
    BY <1>1, FlattenNone, Zenon
  <2> QED BY <2>1
<1>2. CASE ss # <<>>
  <2>1. PICK f : Joins(f, ss, S) /\ FlattenSeq(ss) = f[Len(ss)]
    BY <1>2, FlattenJoins
  <2>2. Len(ss) \in 1 .. Len(ss)
    BY <1>2
  <2> QED BY <2>1, <2>2 DEF Joins
<1> QED BY <1>1, <1>2

\* Flattening distributes over concatenation.
LEMMA FlattenConcat ==
    ASSUME NEW S, NEW a \in Seq(Seq(S)), NEW b \in Seq(Seq(S))
    PROVE  FlattenSeq(a \o b) = FlattenSeq(a) \o FlattenSeq(b)
<1>1. CASE a = <<>>
  BY <1>1, FlattenNone, FlattenType, ConcatEmptySeq
<1>2. CASE b = <<>>
  BY <1>2, FlattenNone, FlattenType, ConcatEmptySeq
<1>3. CASE a # <<>> /\ b # <<>>
  <2> DEFINE m == Len(a)
             n == Len(b)
             c == a \o b
  <2>1. m \in Nat \ {0} /\ n \in Nat \ {0}
    BY <1>3
  <2>2. /\ c \in Seq(Seq(S)) /\ Len(c) = m + n
        /\ \A i \in 1 .. m + n : c[i] = IF i <= m THEN a[i] ELSE b[i - m]
    BY ConcatProperties
  <2> HIDE DEF m, n, c
  <2>3. c # <<>>
    BY <2>1, <2>2
  <2>4. PICK f : Joins(f, a, S) /\ FlattenSeq(a) = f[m]
    BY <1>3, FlattenJoins DEF m
  <2>5. PICK g : Joins(g, b, S) /\ FlattenSeq(b) = g[n]
    BY <1>3, FlattenJoins DEF n
  <2>6. PICK h : Joins(h, c, S) /\ FlattenSeq(c) = h[m + n]
    BY <2>2, <2>3, FlattenJoins
  <2>7. \A i \in 1 .. m : f[i] = h[i]
    <3>1. Len(a) <= Len(c) /\ Alike(Len(a), a, c)
      <4>1. ASSUME NEW i \in 1 .. m PROVE a[i] = c[i]
        BY <2>1, <2>2
      <4>2. Alike(m, a, c)
        BY <4>1 DEF Alike
      <4> QED BY <2>1, <2>2, <4>2 DEF m
    <3>2. Alike(Len(a), f, h)
      BY <2>2, <2>4, <2>6, <3>1, JoinsUnique
    <3> QED BY <3>2 DEF m, Alike
  <2> DEFINE Bad == {i \in 1 .. n : h[m + i] # f[m] \o g[i]}
  <2>8. f[m] = h[m] /\ f[m] \in Seq(S)
    BY <2>1, <2>4, <2>7, SMTT(60) DEF Joins, m
  <2>9. Bad = {}
    <3>1. SUFFICES ASSUME Bad # {} PROVE FALSE
      OBVIOUS
    <3>2. 1 .. n \subseteq Nat /\ Bad \subseteq 1 .. n
      <4>1. 1 .. n \subseteq Nat
        BY <2>1
      <4> QED BY <4>1, Zenon
    <3>3. Bad \subseteq Nat
      BY <3>2, Zenon
    <3>4. PICK i \in Bad : \A j \in Bad : i <= j
      BY <3>1, <3>3, Least, Zenon
    <3>5. i \in 1 .. n /\ h[m + i] # f[m] \o g[i]
      OBVIOUS
    <3>6. m + i \in 2 .. m + n /\ (m + i) - m = i /\ ~(m + i <= m) /\ m + i \in 1 .. m + n
      BY <2>1, <3>5
    <3>7. c[m + i] = b[i]
      BY <2>2, <3>6
    <3>8. h[m + i] = h[(m + i) - 1] \o b[i]
      <4>1. h[m + i] = h[(m + i) - 1] \o c[m + i]
        <5>1. Len(c) = m + n /\ \A k \in 2 .. Len(c) : h[k] = h[k - 1] \o c[k]
          BY <2>2, <2>6 DEF Joins
        <5>2. \A k \in 2 .. m + n : h[k] = h[k - 1] \o c[k]
          BY <5>1
        <5> QED BY <3>6, <5>2, Zenon
      <4> QED BY <3>7, <4>1
    <3>9. CASE i = 1
      <4>1. g[1] = b[1] /\ (m + 1) - 1 = m
        BY <2>1, <2>5 DEF Joins
      <4> QED BY <2>8, <3>5, <3>8, <3>9, <4>1
    <3>10. CASE i # 1
      <4>1. i - 1 \in 1 .. n /\ i \in 2 .. n /\ ~(i <= i - 1) /\ m + (i - 1) = (m + i) - 1
        BY <2>1, <3>5, <3>10
      <4>2. h[(m + i) - 1] = f[m] \o g[i - 1]
        BY <3>4, <4>1
      <4>3. g[i] = g[i - 1] \o b[i] /\ g[i - 1] \in Seq(S)
        BY <2>5, <4>1 DEF Joins, n
      <4>4. b[i] \in Seq(S)
        BY <3>5 DEF n
      <4>5. (f[m] \o g[i - 1]) \o b[i] = f[m] \o (g[i - 1] \o b[i])
        <5>1. f[m] \in Seq(S) /\ g[i - 1] \in Seq(S) /\ b[i] \in Seq(S)
          BY <2>8, <4>3, <4>4
        <5>2. \A s, t, u \in Seq(S) : (s \o t) \o u = s \o (t \o u)
          BY ConcatAssociative, SMTT(60)
        <5> QED BY <5>1, <5>2, Zenon
      <4> QED BY <3>5, <3>8, <4>2, <4>3, <4>5
    <3> QED BY <3>9, <3>10
  <2>10. n \in 1 .. n
    BY <2>1
  <2>11. h[m + n] = f[m] \o g[n]
    BY <2>9, <2>10, Zenon
  <2> QED BY <2>4, <2>5, <2>6, <2>11 DEF c
<1> QED BY <1>1, <1>2, <1>3

-----------------------------------------------------------------------------
(* The three passes.                                                       *)

Registers == Pool \cup {"x0", "t0", "sp", "ra"}

Codes == RRR \cup RRI \cup {"mv", "neg", "seqz", "snez", "li", "la", "beq", "call", "ret"}

Instr == [code : Codes, reg1 : Registers, reg2 : Registers, reg3 : Registers \cup {"imm"},
          imm : Int]

Elim   == [x \in Instr |-> imm_elim(x)]
Opt    == [x \in Instr |-> imm_opt(x)]
Shrink == [x \in Instr |-> imm_shrink(x)]

Mapped(m, code) == FlattenSeq([i \in DOMAIN code |-> m[code[i]]])

\* I builds an instruction of the parts it is given.
LEMMA Made ==
    ASSUME NEW c \in Codes, NEW r1 \in Registers, NEW r2 \in Registers,
           NEW r3 \in Registers \cup {"imm"}, NEW n \in Int
    PROVE  /\ I(c, r1, r2, r3, n) \in Instr
           /\ I(c, r1, r2, r3, n).code = c /\ I(c, r1, r2, r3, n).reg1 = r1
           /\ I(c, r1, r2, r3, n).reg2 = r2 /\ I(c, r1, r2, r3, n).reg3 = r3
           /\ I(c, r1, r2, r3, n).imm = n
  BY DEF I, Instr

\* An instruction consists of its parts.
LEMMA Parts ==
    ASSUME NEW x \in Instr
    PROVE  /\ x.code \in Codes /\ x.reg1 \in Registers /\ x.reg2 \in Registers
           /\ x.reg3 \in Registers \cup {"imm"} /\ x.imm \in Int
           /\ x = I(x.code, x.reg1, x.reg2, x.reg3, x.imm)
  BY DEF I, Instr

\* The registers that are not in the pool.
LEMMA Scratch == {"x0", "t0", "sp", "ra"} \subseteq Registers /\ "imm" \notin Registers
  BY RiscvAssumption DEF Registers

\* li is an instruction.
LEMMA LiMade ==
    ASSUME NEW r \in Registers, NEW n \in Int
    PROVE  Li(r, n) \in Instr /\ Li(r, n).code = "li"
<1>1. "li" \in Codes
  BY DEF Codes
<1>2. "x0" \in Registers
  BY Scratch
<1> QED BY <1>1, <1>2, Made DEF Li

\* imm_elim makes instructions of instructions.
LEMMA ElimType == Elim \in [Instr -> Seq(Instr)]
<1>1. ASSUME NEW x \in Instr PROVE imm_elim(x) \in Seq(Instr)
  <2> DEFINE li == Li("t0", x.imm)
             far == x.code \in RRI /\ ~is_int12(x.imm)
             as1 == I("add", x.reg1, x.reg2, "t0", 0)
             as2 == I("slt", x.reg1, x.reg2, "t0", 0)
             as3 == I("add", "t0", x.reg2, "t0", 0)
             as4 == I("add", "t0", x.reg1, "t0", 0)
             as5 == Lw(x.reg1, "t0", 0)
             as6 == Sw("t0", x.reg2, 0)
  <2>1. /\ x.reg1 \in Registers /\ x.reg2 \in Registers /\ x.imm \in Int
        /\ "x0" \in Registers /\ "t0" \in Registers
        /\ "x0" \in Registers \cup {"imm"} /\ "t0" \in Registers \cup {"imm"}
        /\ "add" \in Codes /\ "slt" \in Codes /\ "lw" \in Codes /\ "sw" \in Codes
    BY Parts, Scratch DEF Codes, RRR, RRI
  <2>2. li \in Instr
    BY <2>1, LiMade
  <2>3. as1 \in Instr /\ as2 \in Instr
    BY <2>1 DEF I, Instr
  <2>7. as3 \in Instr /\ as4 \in Instr
    BY <2>1 DEF I, Instr
  <2>4. as5 \in Instr /\ as6 \in Instr
    BY <2>1 DEF I, Instr, Lw, Sw
  <2>5. imm_elim(x) =
          CASE far /\ x.code = "addi" -> <<li, as1>>
            [] far /\ x.code = "slti" -> <<li, as2>>
            [] far /\ x.code = "lw"   -> <<li, as3, as5>>
            [] far /\ x.code = "sw"   -> <<li, as4, as6>>
            [] OTHER -> <<x>>
    BY DEF imm_elim
  <2> HIDE DEF li, far, as1, as2, as3, as4, as5, as6
  <2> QED BY <2>2, <2>3, <2>7, <2>4, <2>5
<1> QED BY <1>1 DEF Elim

\* So does imm_opt.
LEMMA OptType == Opt \in [Instr -> Seq(Instr)]
<1>1. ASSUME NEW x \in Instr PROVE imm_opt(x) \in Seq(Instr)
  BY DEF imm_opt, Instr, Codes, RRI
<1> QED BY <1>1 DEF Opt

\* So does imm_shrink.
LEMMA ShrinkType == Shrink \in [Instr -> Seq(Instr)]
<1>1. ASSUME NEW x \in Instr PROVE imm_shrink(x) \in Seq(Instr)
  <2>1. Li("t0", x.imm) \in Instr /\ "t0" \in Registers
    BY LiMade, Parts, Scratch
  <2>2. [x EXCEPT !.reg3 = "t0"] \in Instr
    BY <2>1 DEF Instr
  <2> QED BY <2>1, <2>2 DEF imm_shrink
<1> QED BY <1>1 DEF Shrink

\* A pass over one instruction.
LEMMA MappedOne ==
    ASSUME NEW m \in [Instr -> Seq(Instr)], NEW x \in Instr
    PROVE  Mapped(m, <<x>>) = m[x]
<1> DEFINE a == [i \in DOMAIN <<x>> |-> m[<<x>>[i]]]
<1>1. m[x] \in Seq(Instr)
  OBVIOUS
<1>2. a \in Seq(Seq(Instr)) /\ Len(a) = 1 /\ a[1] = m[x]
  BY <1>1
<1>3. <<m[x]>> \in Seq(Seq(Instr)) /\ Len(<<m[x]>>) = 1 /\ <<m[x]>>[1] = m[x]
  BY <1>1
<1>4. a = <<m[x]>>
  <2> HIDE DEF a
  <2> QED BY <1>2, <1>3, SeqEqual
<1> QED BY <1>1, <1>4, FlattenOne DEF Mapped

\* A pass makes code of code.
LEMMA MappedType ==
    ASSUME NEW m \in [Instr -> Seq(Instr)], NEW c \in Seq(Instr)
    PROVE  Mapped(m, c) \in Seq(Instr)
<1>1. /\ Len(c) \in Nat /\ DOMAIN c = 1 .. Len(c)
      /\ \A i \in 1 .. Len(c) : m[c[i]] \in Seq(Instr)
  OBVIOUS
<1>2. [i \in DOMAIN c |-> m[c[i]]] \in Seq(Seq(Instr))
  BY <1>1
<1> QED BY <1>2, FlattenType DEF Mapped

\* A pass works instruction by instruction.
LEMMA MappedConcat ==
    ASSUME NEW m \in [Instr -> Seq(Instr)], NEW c \in Seq(Instr), NEW d \in Seq(Instr)
    PROVE  Mapped(m, c \o d) = Mapped(m, c) \o Mapped(m, d)
<1> DEFINE a == [i \in DOMAIN c |-> m[c[i]]]
           b == [i \in DOMAIN d |-> m[d[i]]]
           e == [i \in DOMAIN (c \o d) |-> m[(c \o d)[i]]]
<1>1. /\ a \in Seq(Seq(Instr)) /\ b \in Seq(Seq(Instr))
      /\ Len(a) = Len(c) /\ Len(b) = Len(d)
  <2>1. /\ Len(c) \in Nat /\ DOMAIN c = 1 .. Len(c)
        /\ \A i \in 1 .. Len(c) : m[c[i]] \in Seq(Instr)
    OBVIOUS
  <2>2. /\ Len(d) \in Nat /\ DOMAIN d = 1 .. Len(d)
        /\ \A i \in 1 .. Len(d) : m[d[i]] \in Seq(Instr)
    OBVIOUS
  <2>3. a \in Seq(Seq(Instr)) /\ Len(a) = Len(c)
    BY <2>1
  <2>4. b \in Seq(Seq(Instr)) /\ Len(b) = Len(d)
    BY <2>2
  <2> QED BY <2>3, <2>4
<1>2. e \in Seq(Seq(Instr)) /\ Len(e) = Len(c) + Len(d)
  <2> DEFINE cd == c \o d
  <2>1. cd \in Seq(Instr) /\ Len(cd) = Len(c) + Len(d)
    BY ConcatProperties
  <2> HIDE DEF cd
  <2>2. /\ Len(cd) \in Nat /\ DOMAIN cd = 1 .. Len(cd)
        /\ \A i \in 1 .. Len(cd) : m[cd[i]] \in Seq(Instr)
    BY <2>1
  <2>3. /\ [i \in DOMAIN cd |-> m[cd[i]]] \in Seq(Seq(Instr))
        /\ Len([i \in DOMAIN cd |-> m[cd[i]]]) = Len(cd)
    BY <2>2
  <2> QED BY <2>1, <2>3 DEF cd
<1>3. /\ a \o b \in Seq(Seq(Instr)) /\ Len(a \o b) = Len(c) + Len(d)
      /\ \A i \in 1 .. Len(c) + Len(d) :
            (a \o b)[i] = IF i <= Len(c) THEN a[i] ELSE b[i - Len(c)]
  <2> HIDE DEF a, b
  <2>1. /\ a \o b \in Seq(Seq(Instr)) /\ Len(a \o b) = Len(a) + Len(b)
        /\ \A i \in 1 .. Len(a) + Len(b) :
              (a \o b)[i] = IF i <= Len(a) THEN a[i] ELSE b[i - Len(a)]
    BY <1>1, ConcatProperties
  <2> QED BY <1>1, <2>1
<1>4. ASSUME NEW i \in 1 .. Len(c) + Len(d) PROVE e[i] = (a \o b)[i]
  <2>1. (c \o d)[i] = IF i <= Len(c) THEN c[i] ELSE d[i - Len(c)]
    BY ConcatProperties
  <2>2. e[i] = m[(c \o d)[i]]
    BY ConcatProperties
  <2>3. CASE i <= Len(c)
    <3>1. i \in DOMAIN c
      BY <2>3
    <3> QED BY <1>3, <2>1, <2>2, <2>3, <3>1
  <2>4. CASE ~(i <= Len(c))
    <3>1. i - Len(c) \in DOMAIN d
      BY <2>4
    <3> QED BY <1>3, <2>1, <2>2, <2>4, <3>1
  <2> QED BY <2>3, <2>4
<1>5. e = a \o b
  <2> HIDE DEF a, b, e
  <2> QED BY <1>2, <1>3, <1>4, SeqEqual
<1> QED BY <1>1, <1>5, FlattenConcat DEF Mapped

\* Lower is the three passes in their order.
LEMMA LowerMapped ==
    ASSUME NEW c \in Seq(Instr)
    PROVE  /\ Lower(c) = Mapped(Shrink, Mapped(Opt, Mapped(Elim, c)))
           /\ Lower(c) \in Seq(Instr)
<1>1. ASSUME NEW d \in Seq(Instr)
      PROVE  /\ Through(imm_elim, d) = Mapped(Elim, d)
             /\ Through(imm_opt, d) = Mapped(Opt, d)
             /\ Through(imm_shrink, d) = Mapped(Shrink, d)
  <2>1. \A i \in DOMAIN d : d[i] \in Instr
    OBVIOUS
  <2>2. [i \in DOMAIN d |-> imm_elim(d[i])] = [i \in DOMAIN d |-> Elim[d[i]]]
    BY <2>1, Zenon DEF Elim
  <2>3. [i \in DOMAIN d |-> imm_opt(d[i])] = [i \in DOMAIN d |-> Opt[d[i]]]
    BY <2>1, Zenon DEF Opt
  <2>4. [i \in DOMAIN d |-> imm_shrink(d[i])] = [i \in DOMAIN d |-> Shrink[d[i]]]
    BY <2>1, Zenon DEF Shrink
  <2> QED BY <2>2, <2>3, <2>4 DEF Through, Mapped
<1>2. Through(imm_elim, c) = Mapped(Elim, c) /\ Mapped(Elim, c) \in Seq(Instr)
  BY <1>1, ElimType, MappedType
<1> DEFINE c1 == Mapped(Elim, c)
           c2 == Mapped(Opt, c1)
<1> HIDE DEF c1
<1>3. Through(imm_opt, c1) = c2 /\ c2 \in Seq(Instr)
  BY <1>1, <1>2, OptType, MappedType DEF c1
<1> HIDE DEF c2
<1>4. Through(imm_shrink, c2) = Mapped(Shrink, c2) /\ Mapped(Shrink, c2) \in Seq(Instr)
  BY <1>1, <1>3, ShrinkType, MappedType
<1> QED BY <1>2, <1>3, <1>4 DEF Lower, c1, c2

(* Instructions are lowered one by one.                                    *)
LEMMA LowerConcat ==
    ASSUME NEW c \in Seq(Instr), NEW d \in Seq(Instr)
    PROVE  Lower(c \o d) = Lower(c) \o Lower(d)
<1>1. c \o d \in Seq(Instr)
  BY ConcatProperties
<1>2. Mapped(Elim, c \o d) = Mapped(Elim, c) \o Mapped(Elim, d)
  BY ElimType, MappedConcat
<1> DEFINE c1 == Mapped(Elim, c)
           d1 == Mapped(Elim, d)
           c2 == Mapped(Opt, c1)
           d2 == Mapped(Opt, d1)
<1>3. c1 \in Seq(Instr) /\ d1 \in Seq(Instr)
  BY ElimType, MappedType
<1> HIDE DEF c1, d1
<1>4. Mapped(Opt, c1 \o d1) = c2 \o d2 /\ c2 \in Seq(Instr) /\ d2 \in Seq(Instr)
  BY <1>3, OptType, MappedType, MappedConcat
<1> HIDE DEF c2, d2
<1>5. Mapped(Shrink, c2 \o d2) = Mapped(Shrink, c2) \o Mapped(Shrink, d2)
  BY <1>4, ShrinkType, MappedConcat
<1>6. Lower(c) = Mapped(Shrink, c2) /\ Lower(d) = Mapped(Shrink, d2)
  BY LowerMapped DEF c1, d1, c2, d2
<1>7. Lower(c \o d) = Mapped(Shrink, Mapped(Opt, c1 \o d1))
  BY <1>1, <1>2, LowerMapped DEF c1, d1
<1> QED BY <1>4, <1>5, <1>6, <1>7

\* Sequences of two.
LEMMA Pair ==
    ASSUME NEW S, NEW x \in S, NEW y \in S
    PROVE  <<x>> \o <<y>> = <<x, y>> /\ <<x, y>> \in Seq(S) /\ <<x>> \in Seq(S)
<1> DEFINE sx == <<x>>
           sy == <<y>>
           sxy == <<x, y>>
<1>1. /\ sx \in Seq(S) /\ sy \in Seq(S) /\ sxy \in Seq(S)
      /\ Len(sx) = 1 /\ Len(sy) = 1 /\ Len(sxy) = 2
      /\ sx[1] = x /\ sy[1] = y /\ sxy[1] = x /\ sxy[2] = y
  OBVIOUS
<1> HIDE DEF sx, sy, sxy
<1>2. /\ sx \o sy \in Seq(S) /\ Len(sx \o sy) = 2
      /\ \A i \in 1 .. Len(sx) + Len(sy) :
             (sx \o sy)[i] = IF i <= Len(sx) THEN sx[i] ELSE sy[i - Len(sx)]
  BY <1>1, ConcatProperties
<1>3. \A i \in 1 .. 2 : (sx \o sy)[i] = sxy[i]
  BY <1>1, <1>2
<1>4. sx \o sy = sxy
  BY <1>1, <1>2, <1>3, SeqEqual
<1> QED BY <1>1, <1>4 DEF sx, sxy, sy

\* Sequences of three.
LEMMA Triple ==
    ASSUME NEW S, NEW x \in S, NEW y \in S, NEW z \in S
    PROVE  <<x>> \o <<y, z>> = <<x, y, z>> /\ <<x, y, z>> \in Seq(S)
<1> DEFINE sx == <<x>>
           syz == <<y, z>>
           sxyz == <<x, y, z>>
<1>1. /\ sx \in Seq(S) /\ syz \in Seq(S) /\ sxyz \in Seq(S)
      /\ Len(sx) = 1 /\ Len(syz) = 2 /\ Len(sxyz) = 3
      /\ sx[1] = x /\ syz[1] = y /\ syz[2] = z
      /\ sxyz[1] = x /\ sxyz[2] = y /\ sxyz[3] = z
  OBVIOUS
<1> HIDE DEF sx, syz, sxyz
<1>2. /\ sx \o syz \in Seq(S) /\ Len(sx \o syz) = 3
      /\ \A i \in 1 .. Len(sx) + Len(syz) :
             (sx \o syz)[i] = IF i <= Len(sx) THEN sx[i] ELSE syz[i - Len(sx)]
  <2>1. /\ sx \o syz \in Seq(S) /\ Len(sx \o syz) = Len(sx) + Len(syz)
        /\ \A i \in 1 .. Len(sx) + Len(syz) :
               (sx \o syz)[i] = IF i <= Len(sx) THEN sx[i] ELSE syz[i - Len(sx)]
    BY <1>1, ConcatProperties
  <2> QED BY <1>1, <2>1
<1>3. \A i \in 1 .. 3 : (sx \o syz)[i] = sxyz[i]
  BY <1>1, <1>2
<1>4. sx \o syz = sxyz
  BY <1>1, <1>2, <1>3, SeqEqual
<1> QED BY <1>1, <1>4 DEF sx, syz, sxyz

\* What no pass but the first looks at.
Settled(x) == x \in Instr /\ (x.code \in RRR => x.reg3 # "imm")

\* imm_opt and imm_shrink leave a settled instruction alone.
LEMMA SettledStays ==
    ASSUME NEW x, Settled(x)
    PROVE  x \in Instr /\ Opt[x] = <<x>> /\ Shrink[x] = <<x>>
  BY DEF Settled, Opt, Shrink, imm_opt, imm_shrink, RRR

\* They leave up to three settled instructions alone.
LEMMA LowerSettled ==
    /\ \A x : Settled(x) => Mapped(Shrink, Mapped(Opt, <<x>>)) = <<x>>
    /\ \A x, y : Settled(x) /\ Settled(y) =>
          Mapped(Shrink, Mapped(Opt, <<x, y>>)) = <<x, y>>
    /\ \A x, y, z : Settled(x) /\ Settled(y) /\ Settled(z) =>
          Mapped(Shrink, Mapped(Opt, <<x, y, z>>)) = <<x, y, z>>
<1>1. ASSUME NEW x, Settled(x)
      PROVE  Mapped(Opt, <<x>>) = <<x>> /\ Mapped(Shrink, <<x>>) = <<x>>
  BY <1>1, SettledStays, MappedOne, OptType, ShrinkType
<1>2. ASSUME NEW x, NEW y, Settled(x), Settled(y)
      PROVE  Mapped(Opt, <<x, y>>) = <<x, y>> /\ Mapped(Shrink, <<x, y>>) = <<x, y>>
  <2>1. x \in Instr /\ y \in Instr
    BY <1>2, SettledStays
  <2>3. <<x>> \in Seq(Instr) /\ <<y>> \in Seq(Instr) /\ <<x>> \o <<y>> = <<x, y>>
    BY <2>1, Pair
  <2>4. Mapped(Opt, <<x>> \o <<y>>) = Mapped(Opt, <<x>>) \o Mapped(Opt, <<y>>)
    BY <2>3, MappedConcat, OptType
  <2>5. Mapped(Shrink, <<x>> \o <<y>>) = Mapped(Shrink, <<x>>) \o Mapped(Shrink, <<y>>)
    BY <2>3, MappedConcat, ShrinkType
  <2>6. /\ Mapped(Opt, <<x>>) = <<x>> /\ Mapped(Shrink, <<x>>) = <<x>>
        /\ Mapped(Opt, <<y>>) = <<y>> /\ Mapped(Shrink, <<y>>) = <<y>>
    BY <1>1, <1>2
  <2> QED BY <2>3, <2>4, <2>5, <2>6, Zenon
<1>3. ASSUME NEW x, NEW y, NEW z, Settled(x), Settled(y), Settled(z)
      PROVE  Mapped(Opt, <<x, y, z>>) = <<x, y, z>> /\ Mapped(Shrink, <<x, y, z>>) = <<x, y, z>>
  <2>1. <<x>> \in Seq(Instr) /\ <<y, z>> \in Seq(Instr) /\ <<x>> \o <<y, z>> = <<x, y, z>>
    BY <1>3, SettledStays, Pair, Triple
  <2>2. Mapped(Opt, <<x>> \o <<y, z>>) = Mapped(Opt, <<x>>) \o Mapped(Opt, <<y, z>>)
    BY <2>1, MappedConcat, OptType
  <2>3. Mapped(Shrink, <<x>> \o <<y, z>>) = Mapped(Shrink, <<x>>) \o Mapped(Shrink, <<y, z>>)
    BY <2>1, MappedConcat, ShrinkType
  <2> QED BY <1>1, <1>2, <1>3, <2>1, <2>2, <2>3
<1> QED BY <1>1, <1>2, <1>3

\* Lowering one instruction.
LEMMA LowerOne ==
    ASSUME NEW x \in Instr
    PROVE  Lower(<<x>>) = Mapped(Shrink, Mapped(Opt, imm_elim(x)))
<1>1. <<x>> \in Seq(Instr) /\ Mapped(Elim, <<x>>) = imm_elim(x)
  BY MappedOne, ElimType, SMTT(60) DEF Elim
<1> QED BY <1>1, LowerMapped

-----------------------------------------------------------------------------
(* Running instructions.                                                   *)

Cpu == [reg : [Registers -> Word], mem : [Address -> Word], taken : BOOLEAN]

Encoded(x) ==
    /\ x.code \in RRI => x.imm \in -(2 ^ (ImmBits - 1)) .. 2 ^ (ImmBits - 1) - 1
    /\ x.code \in RRR => x.reg3 # "imm"

\* What must be so when a processor is at an instruction of a function that
\* was called from ra.
Fine(ra, c, x) ==
    /\ x \in Instr /\ Encoded(x) /\ x.imm \in Word
    /\ x.code = "lw" => Wrap(c.reg[x.reg2] + x.imm) \in Address
    /\ x.code = "sw" =>
         LET a == Wrap(c.reg[x.reg1] + x.imm)
         IN  /\ a \in Address /\ a < CallerSp
             /\ a >= c.reg["sp"] \/ a \in {GloAddr[g] : g \in Global}
    /\ x.code = "ret" => c.reg["ra"] = ra

\* The instructions take a processor from c to d.
Runs(ra, c, code, d) ==
    /\ code \in Seq(Instr)
    /\ \E t \in [1 .. Len(code) + 1 -> Cpu] :
         /\ t[1] = c /\ t[Len(code) + 1] = d
         /\ \A i \in 1 .. Len(code) : Fine(ra, t[i], code[i]) /\ t[i + 1] = Do(t[i], code[i])

\* No instruction goes nowhere.
LEMMA RunsNone ==
    ASSUME NEW ra, NEW c \in Cpu
    PROVE  Runs(ra, c, <<>>, c)
<1>1. /\ <<>> \in Seq(Instr) /\ Len(<<>>) = 0
  OBVIOUS
<1> DEFINE t == [i \in 1 .. 0 + 1 |-> c]
<1>2. t \in [1 .. 0 + 1 -> Cpu] /\ t[1] = c /\ t[0 + 1] = c
  OBVIOUS
<1> HIDE DEF t
<1>3. \A i \in 1 .. 0 : Fine(ra, t[i], <<>>[i]) /\ t[i + 1] = Do(t[i], <<>>[i])
  OBVIOUS
<1> QED BY <1>1, <1>2, <1>3, Zenon DEF Runs

\* One instruction does what Do says.
LEMMA RunsOne ==
    ASSUME NEW ra, NEW c \in Cpu, NEW x \in Instr, Fine(ra, c, x), Do(c, x) \in Cpu
    PROVE  Runs(ra, c, <<x>>, Do(c, x))
<1> DEFINE s == <<x>>
           d == Do(c, x)
           t == [i \in 1 .. 1 + 1 |-> IF i = 1 THEN c ELSE d]
<1>1. s \in Seq(Instr) /\ Len(s) = 1 /\ s[1] = x
  OBVIOUS
<1> HIDE DEF s, d
<1>2. t \in [1 .. 1 + 1 -> Cpu] /\ t[1] = c /\ t[1 + 1] = d
  BY DEF d
<1> HIDE DEF t
<1>3. ASSUME NEW i \in 1 .. 1
      PROVE  Fine(ra, t[i], s[i]) /\ t[i + 1] = Do(t[i], s[i])
  <2>1. i = 1
    OBVIOUS
  <2> QED BY <1>1, <1>2, <2>1 DEF d
<1>4. Runs(ra, c, s, d)
  BY <1>1, <1>2, <1>3 DEF Runs
<1> QED BY <1>4 DEF s, d

\* Code after code.
LEMMA RunsThen ==
    ASSUME NEW ra, NEW c, NEW d, NEW e, NEW s, NEW r,
           Runs(ra, c, s, d), Runs(ra, d, r, e)
    PROVE  Runs(ra, c, s \o r, e)
<1> DEFINE n == Len(s)
           m == Len(r)
           sr == s \o r
<1>1. s \in Seq(Instr) /\ r \in Seq(Instr) /\ n \in Nat /\ m \in Nat
  BY DEF Runs
<1>2. /\ sr \in Seq(Instr) /\ Len(sr) = n + m
      /\ \A i \in 1 .. n + m : sr[i] = IF i <= n THEN s[i] ELSE r[i - n]
  BY <1>1, ConcatProperties
<1>3. PICK t : /\ t \in [1 .. n + 1 -> Cpu] /\ t[1] = c /\ t[n + 1] = d
               /\ \A i \in 1 .. n : Fine(ra, t[i], s[i]) /\ t[i + 1] = Do(t[i], s[i])
  BY DEF Runs
<1>4. PICK u : /\ u \in [1 .. m + 1 -> Cpu] /\ u[1] = d /\ u[m + 1] = e
               /\ \A i \in 1 .. m : Fine(ra, u[i], r[i]) /\ u[i + 1] = Do(u[i], r[i])
  BY DEF Runs
<1> HIDE DEF n, m, sr
<1> DEFINE v == [i \in 1 .. (n + m) + 1 |-> IF i <= n THEN t[i] ELSE u[i - n]]
<1>5. v \in [1 .. (n + m) + 1 -> Cpu]
  BY <1>1, <1>3, <1>4
<1>6. \A i \in 1 .. n + 1 : v[i] = t[i]
  BY <1>1, <1>3, <1>4
<1>7. \A i \in 1 .. m + 1 : v[n + i] = u[i]
  BY <1>1, <1>3, <1>4
<1> HIDE DEF v
<1>8. v[1] = c /\ v[(n + m) + 1] = e
  <2>1. 1 \in 1 .. n + 1 /\ m + 1 \in 1 .. m + 1 /\ (n + m) + 1 = n + (m + 1)
    BY <1>1
  <2> QED BY <1>3, <1>4, <1>6, <1>7, <2>1
<1>9. ASSUME NEW i \in 1 .. n + m
      PROVE  Fine(ra, v[i], sr[i]) /\ v[i + 1] = Do(v[i], sr[i])
  <2>1. CASE i <= n
    <3>1. i \in 1 .. n /\ i \in 1 .. n + 1 /\ i + 1 \in 1 .. n + 1
      BY <1>1, <2>1
    <3>2. sr[i] = s[i] /\ v[i] = t[i] /\ v[i + 1] = t[i + 1]
      BY <1>2, <1>6, <2>1, <3>1
    <3> QED BY <1>3, <3>1, <3>2
  <2>2. CASE ~(i <= n)
    <3> DEFINE k == i - n
    <3>1. k \in 1 .. m /\ k \in 1 .. m + 1 /\ k + 1 \in 1 .. m + 1 /\ i = n + k /\ i + 1 = n + (k + 1)
      BY <1>1, <2>2
    <3>2. sr[i] = r[k]
      BY <1>2, <2>2
    <3> HIDE DEF k
    <3>3. v[i] = u[k] /\ v[i + 1] = u[k + 1]
      BY <1>7, <3>1
    <3> QED BY <1>4, <3>1, <3>2, <3>3
  <2> QED BY <2>1, <2>2
<1>10. Runs(ra, c, sr, e)
  BY <1>2, <1>5, <1>8, <1>9 DEF Runs
<1> QED BY <1>10 DEF sr

\* The first instruction, and then the rest.
LEMMA RunsStep ==
    ASSUME NEW ra, NEW c, NEW d, NEW s, s # <<>>, Runs(ra, c, s, d)
    PROVE  /\ c \in Cpu /\ Fine(ra, c, Head(s)) /\ Do(c, Head(s)) \in Cpu
           /\ Runs(ra, Do(c, Head(s)), Tail(s), d)
<1>1. PICK t : /\ t \in [1 .. Len(s) + 1 -> Cpu] /\ t[1] = c /\ t[Len(s) + 1] = d
               /\ \A i \in 1 .. Len(s) : Fine(ra, t[i], s[i]) /\ t[i + 1] = Do(t[i], s[i])
  BY DEF Runs
<1>2. s \in Seq(Instr) /\ Len(s) \in Nat \ {0} /\ Head(s) = s[1]
  BY DEF Runs
<1> DEFINE q == Tail(s)
           n == Len(q)
           u == [i \in 1 .. n + 1 |-> t[i + 1]]
<1>3. /\ q \in Seq(Instr) /\ n = Len(s) - 1 /\ \A i \in 1 .. n : q[i] = s[i + 1]
  BY <1>2, HeadTailProperties
<1>4. 1 \in 1 .. Len(s) /\ 1 \in 1 .. Len(s) + 1 /\ 1 + 1 \in 1 .. Len(s) + 1
  BY <1>2
<1>5. c \in Cpu /\ Fine(ra, c, Head(s)) /\ t[1 + 1] = Do(c, Head(s)) /\ t[1 + 1] \in Cpu
  BY <1>1, <1>2, <1>4
<1> HIDE DEF q, n
<1>6. n \in Nat /\ n + 1 = Len(s)
  BY <1>2, <1>3
<1>7. u \in [1 .. n + 1 -> Cpu]
  BY <1>1, <1>6
<1>8. u[1] = Do(c, Head(s)) /\ u[n + 1] = d
  BY <1>1, <1>5, <1>6
<1>9. ASSUME NEW i \in 1 .. n
      PROVE  Fine(ra, u[i], q[i]) /\ u[i + 1] = Do(u[i], q[i])
  <2>1. i + 1 \in 1 .. Len(s) /\ i \in 1 .. n + 1 /\ i + 1 \in 1 .. n + 1
    BY <1>6
  <2>2. u[i] = t[i + 1] /\ u[i + 1] = t[(i + 1) + 1] /\ q[i] = s[i + 1]
    BY <1>3, <2>1
  <2>3. Fine(ra, t[i + 1], s[i + 1]) /\ t[(i + 1) + 1] = Do(t[i + 1], s[i + 1])
    BY <1>1, <2>1
  <2> QED BY <2>2, <2>3
<1> HIDE DEF u
<1>10. Runs(ra, Do(c, Head(s)), q, d)
  BY <1>3, <1>7, <1>8, <1>9 DEF Runs, n
<1> QED BY <1>5, <1>10 DEF q

\* No instruction is left: the processor is where the code leads.
LEMMA RunsEnd ==
    ASSUME NEW ra, NEW c, NEW d, Runs(ra, c, <<>>, d)
    PROVE  c = d
<1>1. PICK t : t[1] = c /\ t[Len(<<>>) + 1] = d
  BY DEF Runs
<1> QED BY <1>1

\* Code that runs has immediates that fit.
LEMMA RunsEncoded ==
    ASSUME NEW ra, NEW c, NEW d, NEW s, Runs(ra, c, s, d)
    PROVE  \A i \in DOMAIN s : Encoded(s[i])
<1>1. s \in Seq(Instr) /\ DOMAIN s = 1 .. Len(s)
  BY DEF Runs
<1> QED BY <1>1 DEF Runs, Fine

-----------------------------------------------------------------------------
(* Words and states.                                                       *)

\* Wrap gives words, and leaves words alone.
LEMMA Words ==
    /\ Word \subseteq Int /\ Address \subseteq Word
    /\ 0 \in Word /\ 1 \in Word
    /\ \A n \in Int : Wrap(n) \in Word
    /\ \A n \in Word : Wrap(n) = n
<1> DEFINE H == 2 ^ (WordBits - 1)
           M == 2 ^ WordBits
<1>1. H \in Nat \ {0} /\ H % 4 = 0 /\ M = 2 * H
  BY WidthAssumption
<1>2. Word = -H .. H - 1 /\ \A n : Wrap(n) = ((n + H) % M) - H
  BY DEF Word, Wrap
<1> HIDE DEF H, M
<1>3. ASSUME NEW n \in Int PROVE (n + H) % (2 * H) \in 0 .. 2 * H - 1
  BY <1>1
<1>4. ASSUME NEW n \in -H .. H - 1 PROVE (n + H) % (2 * H) = n + H
  BY <1>1
<1>5. H >= 4
  BY <1>1
<1>6. Word \subseteq Int /\ 0 \in Word /\ 1 \in Word
  BY <1>1, <1>2, <1>5
<1>7. Address \subseteq Word
  BY DEF Address
<1>8. ASSUME NEW n \in Int PROVE Wrap(n) \in Word
  BY <1>1, <1>2, <1>3, SMTT(60)
<1>9. ASSUME NEW n \in Word PROVE Wrap(n) = n
  <2>1. n \in -H .. H - 1 /\ n \in Int
    BY <1>2, <1>6
  <2>2. (n + H) % M = n + H
    BY <1>1, <1>4, <2>1
  <2>3. (n + H) - H = n
    BY <1>1, <2>1
  <2> QED BY <1>2, <2>2, <2>3
<1> QED BY <1>6, <1>7, <1>8, <1>9

\* What Set changes.
LEMMA SetIs ==
    ASSUME NEW c \in Cpu, NEW r \in Registers, NEW v \in Word
    PROVE  /\ Set(c, r, v) \in Cpu
           /\ Set(c, r, v).reg[r] = v
           /\ \A q \in Registers \ {r} : Set(c, r, v).reg[q] = c.reg[q]
           /\ Set(c, r, v).mem = c.mem /\ Set(c, r, v).taken = c.taken
  BY DEF Set, Cpu

\* What Put changes.
LEMMA PutIs ==
    ASSUME NEW c \in Cpu, NEW a \in Address, NEW v \in Word
    PROVE  /\ Put(c, a, v) \in Cpu
           /\ Put(c, a, v).mem[a] = v
           /\ \A b \in Address \ {a} : Put(c, a, v).mem[b] = c.mem[b]
           /\ Put(c, a, v).reg = c.reg /\ Put(c, a, v).taken = c.taken
  BY DEF Put, Cpu

\* What a callee changes.
LEMMA BackIs ==
    ASSUME NEW c \in Cpu, NEW v \in Word, NEW rs
    PROVE  /\ Back(c, v, rs) \in Cpu
           /\ \A r \in Registers : Back(c, v, rs).reg[r] = IF r \in rs THEN v ELSE c.reg[r]
           /\ Back(c, v, rs).mem = c.mem /\ Back(c, v, rs).taken = c.taken
  BY DEF Back, Cpu

\* Registers and memory hold words.
LEMMA CpuIs ==
    ASSUME NEW c \in Cpu
    PROVE  /\ \A r \in Registers : c.reg[r] \in Word
           /\ \A a \in Address : c.mem[a] \in Word
           /\ c.taken \in BOOLEAN
  BY DEF Cpu

-----------------------------------------------------------------------------
(* One instruction.                                                        *)

Alu(code, a, b) ==
    CASE code = "add" -> Wrap(a + b)
      [] code = "sub" -> Wrap(a - b)
      [] code = "mul" -> Table["mul"][<<a, b>>]
      [] code = "div" -> Table["div"][<<a, b>>]
      [] code = "rem" -> Table["rem"][<<a, b>>]
      [] code = "xor" -> Table["xor"][<<a, b>>]
      [] code = "slt" -> Bool(a < b)
      [] code = "sgt" -> Bool(a > b)

\* The operators give words.
LEMMA AluWord ==
    ASSUME NEW a \in Word, NEW b \in Word, NEW code \in RRR
    PROVE  Alu(code, a, b) \in Word
<1>1. Wrap(a + b) \in Word /\ Wrap(a - b) \in Word
  BY Words
<1>2. Bool(a < b) \in Word /\ Bool(a > b) \in Word
  BY Words DEF Bool
<1>3. \A f \in {"mul", "div", "rem", "xor"} : Table[f][<<a, b>>] \in Word
  BY RiscvAssumption
<1> QED BY <1>1, <1>2, <1>3 DEF Alu, RRR

\* An instruction on three registers.
LEMMA DoRRR ==
    ASSUME NEW c \in Cpu, NEW x \in Instr, x.code \in RRR, x.reg3 # "imm"
    PROVE  Do(c, x) = Set(c, x.reg1, Alu(x.code, c.reg[x.reg2], c.reg[x.reg3]))
  BY DEF Do, Alu, RRR

\* Every other instruction.
LEMMA DoOne ==
    ASSUME NEW c \in Cpu, NEW x \in Instr
    PROVE  /\ x.code = "addi" => Do(c, x) = Set(c, x.reg1, Wrap(c.reg[x.reg2] + x.imm))
           /\ x.code = "slti" => Do(c, x) = Set(c, x.reg1, Bool(c.reg[x.reg2] < x.imm))
           /\ x.code = "mv" => Do(c, x) = Set(c, x.reg1, c.reg[x.reg2])
           /\ x.code = "neg" => Do(c, x) = Set(c, x.reg1, Wrap(-c.reg[x.reg2]))
           /\ x.code = "seqz" => Do(c, x) = Set(c, x.reg1, Bool(c.reg[x.reg2] = 0))
           /\ x.code = "snez" => Do(c, x) = Set(c, x.reg1, Bool(c.reg[x.reg2] # 0))
           /\ x.code \in {"li", "la"} => Do(c, x) = Set(c, x.reg1, x.imm)
           /\ x.code = "lw" => Do(c, x) = Set(c, x.reg1, c.mem[Wrap(c.reg[x.reg2] + x.imm)])
           /\ x.code = "sw" => Do(c, x) = Put(c, Wrap(c.reg[x.reg1] + x.imm), c.reg[x.reg2])
           /\ x.code = "beq" => Do(c, x) = [c EXCEPT !.taken = c.reg[x.reg1] = c.reg[x.reg2]]
           /\ x.code = "call" => Do(c, x) = Back(c, x.imm, CallerSaved \cup {"t0", "ra"})
           /\ x.code = "ret" => Do(c, x) = c
  BY DEF Do

\* A fine instruction leaves a processor behind.
LEMMA DoCpu ==
    ASSUME NEW ra, NEW c \in Cpu, NEW x, Fine(ra, c, x)
    PROVE  Do(c, x) \in Cpu
<1>1. /\ x \in Instr /\ x.imm \in Word /\ x.code \in Codes
      /\ x.reg1 \in Registers /\ x.reg2 \in Registers
      /\ c.reg[x.reg1] \in Word /\ c.reg[x.reg2] \in Word
      /\ c.reg[x.reg1] \in Int /\ c.reg[x.reg2] \in Int /\ x.imm \in Int
  BY Parts, CpuIs, Words DEF Fine
<1>2. CASE x.code \in RRR
  <2>1. x.reg3 # "imm" /\ x.reg3 \in Registers /\ c.reg[x.reg3] \in Word
    BY <1>1, <1>2, Parts, CpuIs DEF Fine, Encoded
  <2>2. Do(c, x) = Set(c, x.reg1, Alu(x.code, c.reg[x.reg2], c.reg[x.reg3]))
    BY <1>1, <1>2, <2>1, DoRRR
  <2>3. Alu(x.code, c.reg[x.reg2], c.reg[x.reg3]) \in Word
    BY <1>1, <1>2, <2>1, AluWord
  <2> QED BY <1>1, <2>2, <2>3, SetIs
<1>3. CASE x.code \in {"addi", "slti", "mv", "neg", "seqz", "snez", "li", "la"}
  <2>1. /\ Wrap(c.reg[x.reg2] + x.imm) \in Word /\ Wrap(-c.reg[x.reg2]) \in Word
        /\ Bool(c.reg[x.reg2] < x.imm) \in Word /\ Bool(c.reg[x.reg2] = 0) \in Word
        /\ Bool(c.reg[x.reg2] # 0) \in Word
    BY <1>1, Words DEF Bool
  <2>2. \A v \in Word : Set(c, x.reg1, v) \in Cpu
    BY <1>1, SetIs
  <2> QED BY <1>1, <1>3, <2>1, <2>2, DoOne
<1>4. CASE x.code = "lw"
  <2>1. c.mem[Wrap(c.reg[x.reg2] + x.imm)] \in Word
    BY <1>4, CpuIs DEF Fine
  <2> QED BY <1>1, <1>4, <2>1, DoOne, SetIs, SMTT(60)
<1>5. CASE x.code = "sw"
  <2>1. Wrap(c.reg[x.reg1] + x.imm) \in Address
    BY <1>5 DEF Fine
  <2> QED BY <1>1, <1>5, <2>1, DoOne, PutIs
<1>6. CASE x.code = "beq"
  <2>1. Do(c, x) = [c EXCEPT !.taken = c.reg[x.reg1] = c.reg[x.reg2]]
    BY <1>1, <1>6, DoOne
  <2>2. (c.reg[x.reg1] = c.reg[x.reg2]) \in BOOLEAN
    OBVIOUS
  <2> QED BY <2>1, <2>2 DEF Cpu
<1>7. CASE x.code = "call"
  BY <1>1, <1>7, DoOne, BackIs
<1>8. CASE x.code = "ret"
  BY <1>1, <1>8, DoOne
<1> QED BY <1>1, <1>2, <1>3, <1>4, <1>5, <1>6, <1>7, <1>8 DEF Codes, RRI

\* A fine instruction runs.
LEMMA RunsFine ==
    ASSUME NEW ra, NEW c \in Cpu, NEW x, Fine(ra, c, x)
    PROVE  Runs(ra, c, <<x>>, Do(c, x)) /\ Do(c, x) \in Cpu
  BY DoCpu, RunsOne DEF Fine

-----------------------------------------------------------------------------
(* What becomes of an instruction.                                         *)

\* is_int12 is the test whether an immediate fits.
LEMMA Near ==
    ASSUME NEW n \in Int
    PROVE  is_int12(n) <=> n \in -(2 ^ (ImmBits - 1)) .. 2 ^ (ImmBits - 1) - 1
<1> DEFINE B == 2 ^ (ImmBits - 1)
<1>1. B \in Nat
  BY WidthAssumption
<1>2. is_int12(n) <=> -B <= n /\ n < B
  BY DEF is_int12
<1> HIDE DEF B
<1>3. is_int12(n) <=> n \in -B .. B - 1
  BY <1>1, <1>2
<1> QED BY <1>3 DEF B

\* An instruction that needs nothing is left as it is.
LEMMA LowerKeeps ==
    ASSUME NEW x \in Instr, Encoded(x)
    PROVE  Lower(<<x>>) = <<x>>
<1>1. Settled(x)
  BY DEF Settled, Encoded
<1>2. ~(x.code \in RRI /\ ~is_int12(x.imm))
  BY Parts, Near DEF Encoded
<1>3. imm_elim(x) = <<x>>
  BY <1>2 DEF imm_elim
<1> QED BY <1>1, <1>3, LowerOne, LowerSettled

\* What imm_elim puts for an immediate that does not fit stays.
LEMMA LowerFar ==
    ASSUME NEW d \in Registers, NEW s \in Registers, NEW n \in Int, ~is_int12(n)
    PROVE  /\ Lower(<<Addi(d, s, n)>>) = <<Li("t0", n), I("add", d, s, "t0", 0)>>
           /\ Lower(<<Lw(d, s, n)>>) =
                <<Li("t0", n), I("add", "t0", s, "t0", 0), Lw(d, "t0", 0)>>
           /\ Lower(<<Sw(d, s, n)>>) =
                <<Li("t0", n), I("add", "t0", d, "t0", 0), Sw("t0", s, 0)>>
<1> DEFINE li == Li("t0", n)
           a1 == I("add", d, s, "t0", 0)
           a2 == I("add", "t0", s, "t0", 0)
           a3 == I("add", "t0", d, "t0", 0)
           l == Lw(d, "t0", 0)
           w == Sw("t0", s, 0)
           xa == Addi(d, s, n)
           xl == Lw(d, s, n)
           xw == Sw(d, s, n)
<1>1. /\ "x0" \in Registers /\ "t0" \in Registers
      /\ "x0" \in Registers \cup {"imm"} /\ "t0" \in Registers \cup {"imm"}
      /\ "x0" # "imm" /\ "t0" # "imm"
      /\ "li" \in Codes /\ "add" \in Codes /\ "addi" \in Codes /\ "lw" \in Codes /\ "sw" \in Codes
      /\ "li" \notin RRR /\ "addi" \notin RRR /\ "lw" \notin RRR /\ "sw" \notin RRR
      /\ "addi" \in RRI /\ "lw" \in RRI /\ "sw" \in RRI
  BY Scratch DEF Codes, RRR, RRI
<1>2. Settled(li)
  BY <1>1, LiMade DEF Settled
<1>3. Settled(a1)
  <2>1. a1 \in Instr /\ a1.reg3 = "t0"
    BY <1>1 DEF I, Instr
  <2> QED BY <1>1, <2>1 DEF Settled
<1>4. Settled(a2)
  <2>1. a2 \in Instr /\ a2.reg3 = "t0"
    BY <1>1 DEF I, Instr
  <2> QED BY <1>1, <2>1 DEF Settled
<1>5. Settled(a3)
  <2>1. a3 \in Instr /\ a3.reg3 = "t0"
    BY <1>1 DEF I, Instr
  <2> QED BY <1>1, <2>1 DEF Settled
<1>6. Settled(l)
  <2>1. l \in Instr /\ l.code = "lw"
    BY <1>1 DEF I, Instr, Lw
  <2> QED BY <1>1, <2>1 DEF Settled
<1>7. Settled(w)
  <2>1. w \in Instr /\ w.code = "sw"
    BY <1>1 DEF I, Instr, Sw
  <2> QED BY <1>1, <2>1 DEF Settled
<1>8. xa \in Instr /\ xa.code = "addi" /\ xa.reg1 = d /\ xa.reg2 = s /\ xa.imm = n
  BY <1>1, Made DEF Addi
<1>9. xl \in Instr /\ xl.code = "lw" /\ xl.reg1 = d /\ xl.reg2 = s /\ xl.imm = n
  BY <1>1, Made DEF Lw
<1>10. xw \in Instr /\ xw.code = "sw" /\ xw.reg1 = d /\ xw.reg2 = s /\ xw.imm = n
  BY <1>1, Made DEF Sw
<1> HIDE DEF li, a1, a2, a3, l, w, xa, xl, xw
<1>11. imm_elim(xa) = <<li, a1>>
  BY <1>1, <1>8 DEF imm_elim, li, a1
<1>12. imm_elim(xl) = <<li, a2, l>>
  BY <1>1, <1>9 DEF imm_elim, li, a2, l
<1>13. imm_elim(xw) = <<li, a3, w>>
  BY <1>1, <1>10 DEF imm_elim, li, a3, w
<1>14. Lower(<<xa>>) = <<li, a1>>
  BY <1>2, <1>3, <1>8, <1>11, LowerOne, LowerSettled
<1>15. Lower(<<xl>>) = <<li, a2, l>>
  BY <1>2, <1>4, <1>6, <1>9, <1>12, LowerOne, LowerSettled
<1>16. Lower(<<xw>>) = <<li, a3, w>>
  BY <1>2, <1>5, <1>7, <1>10, <1>13, LowerOne, LowerSettled
<1> QED BY <1>14, <1>15, <1>16 DEF li, a1, a2, a3, l, w, xa, xl, xw

\* A literal operand becomes an immediate or goes through t0.
LEMMA LowerLiteral ==
    ASSUME NEW d \in Registers, NEW a \in Registers, NEW n \in Int, NEW code \in RRR
    PROVE  Lower(<<I(code, d, a, "imm", n)>>) =
             IF code \in {"add", "slt"} /\ is_int12(n)
             THEN <<I(IF code = "add" THEN "addi" ELSE "slti", d, a, "imm", n)>>
             ELSE <<Li("t0", n), I(code, d, a, "t0", n)>>
<1> DEFINE x == I(code, d, a, "imm", n)
           near == code \in {"add", "slt"} /\ is_int12(n)
           y == I(IF code = "add" THEN "addi" ELSE "slti", d, a, "imm", n)
<1>1. /\ "imm" \in Registers \cup {"imm"}
      /\ code \in Codes /\ "addi" \in Codes /\ "slti" \in Codes
      /\ code \notin RRI
  BY DEF Codes, RRI, RRR
<1>2. /\ x \in Instr /\ x.code = code /\ x.reg1 = d /\ x.reg2 = a
      /\ x.reg3 = "imm" /\ x.imm = n
  BY <1>1 DEF I, Instr
<1>3. y \in Instr /\ y.code \in {"addi", "slti"}
  BY <1>1, Made
<1>4. [x EXCEPT !.code = IF x.code = "add" THEN "addi" ELSE "slti"] = y
  BY DEF I
<1>5. [x EXCEPT !.reg3 = "t0"] = I(code, d, a, "t0", n)
  BY DEF I
<1> HIDE DEF x, y
<1>6. imm_elim(x) = <<x>>
  BY <1>1, <1>2 DEF imm_elim
<1>7. Lower(<<x>>) = Mapped(Shrink, Mapped(Opt, <<x>>))
  BY <1>2, <1>6, LowerOne
<1>8. Mapped(Opt, <<x>>) = imm_opt(x)
  BY <1>2, OptType, MappedOne DEF Opt
<1>9. CASE near
  <2>1. imm_opt(x) = <<y>>
    BY <1>2, <1>4, <1>9 DEF imm_opt
  <2>2. imm_shrink(y) = <<y>>
    BY <1>3 DEF imm_shrink, RRR
  <2>3. Mapped(Shrink, <<y>>) = <<y>>
    BY <1>3, <2>2, ShrinkType, MappedOne DEF Shrink
  <2> QED BY <1>7, <1>8, <1>9, <2>1, <2>3 DEF x, y
<1>10. CASE ~near
  <2>1. imm_opt(x) = <<x>>
    BY <1>2, <1>10 DEF imm_opt
  <2>2. imm_shrink(x) = <<Li("t0", n), I(code, d, a, "t0", n)>>
    BY <1>2, <1>5 DEF imm_shrink
  <2>3. Mapped(Shrink, <<x>>) = <<Li("t0", n), I(code, d, a, "t0", n)>>
    BY <1>2, <2>2, ShrinkType, MappedOne DEF Shrink
  <2> QED BY <1>7, <1>8, <1>10, <2>1, <2>3 DEF x
<1> QED BY <1>9, <1>10

-----------------------------------------------------------------------------
(* What a lowered instruction does: what the instruction would do if every *)
(* immediate fitted, but for the scratch register.                         *)

Same(c, d) ==
    /\ \A r \in Registers \ {"t0"} : c.reg[r] = d.reg[r]
    /\ c.mem = d.mem /\ c.taken = d.taken

\* Instructions without memory are fine when they can be encoded.
LEMMA FineEasy ==
    ASSUME NEW ra, NEW c, NEW x \in Instr, Encoded(x), x.imm \in Word,
           x.code \notin {"lw", "sw", "ret"}
    PROVE  Fine(ra, c, x)
  BY DEF Fine

\* Two fine instructions run.
LEMMA RunsTwo ==
    ASSUME NEW ra, NEW c \in Cpu, NEW x, NEW y, Fine(ra, c, x), Fine(ra, Do(c, x), y)
    PROVE  Runs(ra, c, <<x, y>>, Do(Do(c, x), y)) /\ Do(Do(c, x), y) \in Cpu
<1>1. Runs(ra, c, <<x>>, Do(c, x)) /\ Do(c, x) \in Cpu
  BY RunsFine
<1>2. Runs(ra, Do(c, x), <<y>>, Do(Do(c, x), y)) /\ Do(Do(c, x), y) \in Cpu
  BY <1>1, RunsFine
<1>3. Runs(ra, c, <<x>> \o <<y>>, Do(Do(c, x), y))
  BY <1>1, <1>2, RunsThen
<1>4. <<x>> \o <<y>> = <<x, y>>
  BY Pair DEF Fine
<1> QED BY <1>2, <1>3, <1>4

\* Three fine instructions run.
LEMMA RunsThree ==
    ASSUME NEW ra, NEW c \in Cpu, NEW x, NEW y, NEW z, Fine(ra, c, x),
           Fine(ra, Do(c, x), y), Fine(ra, Do(Do(c, x), y), z)
    PROVE  /\ Runs(ra, c, <<x, y, z>>, Do(Do(Do(c, x), y), z))
           /\ Do(Do(Do(c, x), y), z) \in Cpu
<1>1. Runs(ra, c, <<x>>, Do(c, x)) /\ Do(c, x) \in Cpu
  BY RunsFine
<1>2. /\ Runs(ra, Do(c, x), <<y, z>>, Do(Do(Do(c, x), y), z))
      /\ Do(Do(Do(c, x), y), z) \in Cpu
  BY <1>1, RunsTwo
<1>3. Runs(ra, c, <<x>> \o <<y, z>>, Do(Do(Do(c, x), y), z))
  BY <1>1, <1>2, RunsThen
<1>4. x \in Instr /\ y \in Instr /\ z \in Instr
  BY DEF Fine
<1>5. <<x>> \o <<y, z>> = <<x, y, z>>
  BY <1>4, Triple
<1> QED BY <1>2, <1>3, <1>5

\* An instruction on three registers is fine.
LEMMA FineAlu ==
    ASSUME NEW ra, NEW c, NEW code \in RRR, NEW d \in Registers, NEW a \in Registers,
           NEW b \in Registers, NEW n \in Word
    PROVE  Fine(ra, c, I(code, d, a, b, n))
<1> DEFINE x == I(code, d, a, b, n)
<1>1. code \in Codes /\ b \in Registers \cup {"imm"} /\ b # "imm" /\ n \in Int
  BY Scratch, Words DEF Codes
<1>2. x \in Instr /\ x.code = code /\ x.reg3 = b /\ x.imm = n
  BY <1>1, Made
<1>3. code \notin RRI /\ code \notin {"lw", "sw", "ret"}
  BY DEF RRR, RRI
<1> HIDE DEF x
<1>4. Encoded(x)
  BY <1>1, <1>2, <1>3 DEF Encoded
<1>5. Fine(ra, c, x)
  BY <1>2, <1>3, <1>4, FineEasy
<1> QED BY <1>5 DEF x

\* What it does.
LEMMA DoAlu ==
    ASSUME NEW c \in Cpu, NEW code \in RRR, NEW d \in Registers, NEW a \in Registers,
           NEW b \in Registers, NEW n \in Word
    PROVE  Do(c, I(code, d, a, b, n)) = Set(c, d, Alu(code, c.reg[a], c.reg[b]))
<1> DEFINE x == I(code, d, a, b, n)
<1>1. code \in Codes /\ b \in Registers \cup {"imm"} /\ b # "imm" /\ n \in Int
  BY Scratch, Words DEF Codes
<1>2. x \in Instr /\ x.code = code /\ x.reg1 = d /\ x.reg2 = a /\ x.reg3 = b
  BY <1>1, Made
<1> HIDE DEF x
<1>3. Do(c, x) = Set(c, d, Alu(code, c.reg[a], c.reg[b]))
  BY <1>1, <1>2, DoRRR
<1> QED BY <1>3 DEF x

\* li loads the immediate.
LEMMA LiLoads ==
    ASSUME NEW ra, NEW c \in Cpu, NEW r \in Registers, NEW n \in Word
    PROVE  Fine(ra, c, Li(r, n)) /\ Do(c, Li(r, n)) = Set(c, r, n)
<1> DEFINE x == Li(r, n)
<1>1. "li" \in Codes /\ "x0" \in Registers /\ "x0" \in Registers \cup {"imm"} /\ n \in Int
  BY Scratch, Words DEF Codes
<1>2. x \in Instr /\ x.code = "li" /\ x.reg1 = r /\ x.imm = n
  BY <1>1, Made DEF Li
<1> HIDE DEF x
<1>3. Encoded(x)
  BY <1>2 DEF Encoded, RRI, RRR
<1>4. Fine(ra, c, x)
  BY <1>2, <1>3, FineEasy
<1>5. Do(c, x) = Set(c, r, n)
  BY <1>2, DoOne
<1> QED BY <1>4, <1>5 DEF x

\* What t0 held does not show after the destination is set.
LEMMA Overwritten ==
    ASSUME NEW c \in Cpu, NEW n \in Word, NEW d \in Registers, NEW v \in Word
    PROVE  Same(Set(Set(c, "t0", n), d, v), Set(c, d, v))
<1>1. "t0" \in Registers
  BY Scratch
<1>2. Set(c, "t0", n) \in Cpu
  BY <1>1, SetIs
<1>3. ASSUME NEW r \in Registers \ {"t0"}
      PROVE  Set(Set(c, "t0", n), d, v).reg[r] = Set(c, d, v).reg[r]
  <2>1. Set(c, "t0", n).reg[r] = c.reg[r]
    BY <1>1, SetIs
  <2>2. CASE r = d
    BY <1>2, <2>2, SetIs
  <2>3. CASE r # d
    <3>1. Set(Set(c, "t0", n), d, v).reg[r] = Set(c, "t0", n).reg[r]
      BY <1>2, <2>3, SetIs
    <3>2. Set(c, d, v).reg[r] = c.reg[r]
      BY <2>3, SetIs
    <3> QED BY <2>1, <3>1, <3>2
  <2> QED BY <2>2, <2>3
<1> QED BY <1>1, <1>2, <1>3, SetIs DEF Same

\* Lowered, the code takes a processor from c to d.
Does(ra, c, code, d) == \E e \in Cpu : Runs(ra, c, Lower(code), e) /\ Same(e, d)

\* A processor is the same as itself.
LEMMA SameSelf == ASSUME NEW c PROVE Same(c, c)
  BY DEF Same

\* An operator with a literal, wherever the passes put the literal.
LEMMA LiteralDoes ==
    ASSUME NEW ra, NEW c \in Cpu, NEW code \in RRR, NEW d \in Registers,
           NEW a \in Registers \ {"t0"}, NEW n \in Word
    PROVE  Does(ra, c, <<I(code, d, a, "imm", n)>>, Set(c, d, Alu(code, c.reg[a], n)))
<1>1. n \in Int /\ c.reg[a] \in Word /\ c.reg[a] \in Int /\ "t0" \in Registers
  BY CpuIs, Words, Scratch
<1>2. CASE code \in {"add", "slt"} /\ is_int12(n)
  <2> DEFINE k == IF code = "add" THEN "addi" ELSE "slti"
             y == I(k, d, a, "imm", n)
  <2>1. Lower(<<I(code, d, a, "imm", n)>>) = <<y>>
    BY <1>1, <1>2, LowerLiteral
  <2>2. /\ k \in Codes /\ k \in {"addi", "slti"} /\ (k = "addi" <=> code = "add")
        /\ "imm" \in Registers \cup {"imm"} /\ a \in Registers
    BY DEF Codes, RRI
  <2> HIDE DEF k
  <2>3. /\ y \in Instr /\ y.code = k
        /\ y.reg1 = d /\ y.reg2 = a /\ y.imm = n
    BY <1>1, <2>2 DEF I, Instr
  <2> HIDE DEF y
  <2>4. Encoded(y)
    <3>1. y.code \notin RRR
      BY <2>2, <2>3 DEF RRR
    <3> QED BY <1>1, <1>2, <2>3, <3>1, Near DEF Encoded
  <2>5. Fine(ra, c, y)
    BY <2>2, <2>3, <2>4, FineEasy
  <2>6. Do(c, y) = Set(c, d, Alu(code, c.reg[a], n))
    <3>1. CASE code = "add"
      BY <2>2, <2>3, <3>1, DoOne DEF Alu
    <3>2. CASE code = "slt"
      BY <2>2, <2>3, <3>2, DoOne DEF Alu
    <3> QED BY <1>2, <3>1, <3>2
  <2> QED BY <2>1, <2>5, <2>6, RunsFine, SameSelf DEF Does
<1>3. CASE ~(code \in {"add", "slt"} /\ is_int12(n))
  <2> DEFINE li == Li("t0", n)
             y == I(code, d, a, "t0", n)
             c1 == Set(c, "t0", n)
             v == Alu(code, c.reg[a], n)
  <2>1. Lower(<<I(code, d, a, "imm", n)>>) = <<li, y>>
    BY <1>1, <1>3, LowerLiteral
  <2>2. Fine(ra, c, li) /\ Do(c, li) = c1
    BY <1>1, LiLoads
  <2>3. c1 \in Cpu /\ c1.reg["t0"] = n /\ c1.reg[a] = c.reg[a]
    BY <1>1, SetIs
  <2>4. Fine(ra, c1, y)
    BY <1>1, FineAlu
  <2>5. Do(c1, y) = Set(c1, d, Alu(code, c1.reg[a], c1.reg["t0"]))
    BY <1>1, <2>3, DoAlu
  <2>6. v \in Word
    BY <1>1, AluWord
  <2>7. Same(Set(c1, d, v), Set(c, d, v))
    BY <2>6, Overwritten
  <2> HIDE DEF li, y, c1, v
  <2>8. Do(c1, y) = Set(c1, d, v)
    BY <2>3, <2>5 DEF v
  <2>9. Runs(ra, c, <<li, y>>, Do(c1, y)) /\ Do(c1, y) \in Cpu
    BY <2>2, <2>4, RunsTwo
  <2>10. Does(ra, c, <<I(code, d, a, "imm", n)>>, Set(c, d, v))
    BY <2>1, <2>7, <2>8, <2>9 DEF Does
  <2> QED BY <2>10 DEF v
<1> QED BY <1>2, <1>3

\* addi adds any word.
LEMMA AddiDoes ==
    ASSUME NEW ra, NEW c \in Cpu, NEW d \in Registers, NEW s \in Registers \ {"t0"},
           NEW n \in Word
    PROVE  Does(ra, c, <<Addi(d, s, n)>>, Set(c, d, Wrap(c.reg[s] + n)))
<1>1. n \in Int /\ c.reg[s] \in Int /\ "t0" \in Registers /\ "x0" \in Registers
  BY CpuIs, Words, Scratch
<1>2. Wrap(c.reg[s] + n) \in Word
  BY <1>1, Words
<1>3. CASE is_int12(n)
  <2> DEFINE x == Addi(d, s, n)
  <2>1. "addi" \in Codes /\ "x0" \in Registers \cup {"imm"}
    BY <1>1 DEF Codes, RRI
  <2>2. x \in Instr /\ x.code = "addi" /\ x.reg1 = d /\ x.reg2 = s /\ x.imm = n
    BY <1>1, <2>1, Made DEF Addi
  <2> HIDE DEF x
  <2>3. Encoded(x)
    <3>1. x.code \notin RRR
      BY <2>2 DEF RRR
    <3> QED BY <1>1, <1>3, <2>2, <3>1, Near DEF Encoded
  <2>4. Lower(<<x>>) = <<x>>
    BY <2>2, <2>3, LowerKeeps
  <2>5. Fine(ra, c, x)
    BY <2>2, <2>3, FineEasy
  <2>6. Do(c, x) = Set(c, d, Wrap(c.reg[s] + n))
    BY <2>2, DoOne
  <2>7. Does(ra, c, <<x>>, Set(c, d, Wrap(c.reg[s] + n)))
    BY <2>4, <2>5, <2>6, RunsFine, SameSelf DEF Does
  <2> QED BY <2>7 DEF x
<1>4. CASE ~is_int12(n)
  <2> DEFINE li == Li("t0", n)
             y == I("add", d, s, "t0", 0)
             c1 == Set(c, "t0", n)
             v == Wrap(c.reg[s] + n)
  <2>1. Lower(<<Addi(d, s, n)>>) = <<li, y>>
    BY <1>1, <1>4, LowerFar
  <2>2. Fine(ra, c, li) /\ Do(c, li) = c1
    BY <1>1, LiLoads
  <2>3. c1 \in Cpu /\ c1.reg["t0"] = n /\ c1.reg[s] = c.reg[s]
    BY <1>1, SetIs
  <2>4. "add" \in RRR /\ 0 \in Word
    BY Words DEF RRR
  <2>5. Fine(ra, c1, y)
    BY <1>1, <2>4, FineAlu
  <2>6. Do(c1, y) = Set(c1, d, Alu("add", c1.reg[s], c1.reg["t0"]))
    BY <1>1, <2>3, <2>4, DoAlu
  <2>7. Alu("add", c.reg[s], n) = v
    BY DEF Alu
  <2>8. Same(Set(c1, d, v), Set(c, d, v))
    BY <1>2, Overwritten
  <2> HIDE DEF li, y, c1, v
  <2>9. Runs(ra, c, <<li, y>>, Do(c1, y)) /\ Do(c1, y) \in Cpu
    BY <2>2, <2>5, RunsTwo
  <2>10. Do(c1, y) = Set(c1, d, v)
    BY <2>3, <2>6, <2>7
  <2>11. Does(ra, c, <<Addi(d, s, n)>>, Set(c, d, v))
    BY <2>1, <2>8, <2>9, <2>10 DEF Does
  <2> QED BY <2>11 DEF v
<1> QED BY <1>3, <1>4

\* lw loads from any offset.
LEMMA LwDoes ==
    ASSUME NEW ra, NEW c \in Cpu, NEW d \in Registers, NEW s \in Registers \ {"t0"},
           NEW n \in Word, Wrap(c.reg[s] + n) \in Address
    PROVE  Does(ra, c, <<Lw(d, s, n)>>, Set(c, d, c.mem[Wrap(c.reg[s] + n)]))
<1> DEFINE at == Wrap(c.reg[s] + n)
           v == c.mem[at]
<1>1. /\ n \in Int /\ c.reg[s] \in Int /\ "t0" \in Registers /\ "x0" \in Registers
      /\ "lw" \in Codes /\ "x0" \in Registers \cup {"imm"} /\ "lw" \in RRI /\ "lw" \notin RRR
      /\ 0 \in Word /\ 0 \in Int
  BY CpuIs, Words, Scratch DEF Codes, RRI, RRR
<1>2. at \in Word /\ at \in Int /\ Wrap(at + 0) = at /\ v \in Word
  <2>1. at \in Address
    OBVIOUS
  <2> HIDE DEF at
  <2>2. at \in Word /\ at \in Int
    BY <2>1, Words
  <2>3. at + 0 = at
    BY <2>2
  <2> QED BY <2>1, <2>2, <2>3, Words, CpuIs
<1>3. CASE is_int12(n)
  <2> DEFINE x == Lw(d, s, n)
  <2>1. x \in Instr /\ x.code = "lw" /\ x.reg1 = d /\ x.reg2 = s /\ x.imm = n
    BY <1>1, Made DEF Lw
  <2> HIDE DEF x
  <2>2. Encoded(x)
    BY <1>1, <1>3, <2>1, Near DEF Encoded
  <2>3. Lower(<<x>>) = <<x>>
    BY <2>1, <2>2, LowerKeeps
  <2>4. Fine(ra, c, x)
    BY <2>1, <2>2 DEF Fine
  <2>5. Do(c, x) = Set(c, d, v)
    BY <2>1, DoOne
  <2>6. Does(ra, c, <<x>>, Set(c, d, v))
    BY <2>3, <2>4, <2>5, RunsFine, SameSelf DEF Does
  <2> QED BY <2>6 DEF x
<1>4. CASE ~is_int12(n)
  <2> DEFINE li == Li("t0", n)
             y == I("add", "t0", s, "t0", 0)
             z == Lw(d, "t0", 0)
             c1 == Set(c, "t0", n)
             c2 == Set(c1, "t0", at)
  <2>1. Lower(<<Lw(d, s, n)>>) = <<li, y, z>>
    BY <1>1, <1>4, LowerFar
  <2>2. Fine(ra, c, li) /\ Do(c, li) = c1
    BY <1>1, LiLoads
  <2>3. c1 \in Cpu /\ c1.reg["t0"] = n /\ c1.reg[s] = c.reg[s] /\ c1.mem = c.mem
    BY <1>1, SetIs
  <2>4. "add" \in RRR /\ Alu("add", c.reg[s], n) = at
    BY DEF RRR, Alu
  <2>5. Fine(ra, c1, y)
    BY <1>1, <2>4, FineAlu
  <2>6. Do(c1, y) = Set(c1, "t0", Alu("add", c1.reg[s], c1.reg["t0"]))
    BY <1>1, <2>3, <2>4, DoAlu
  <2> HIDE DEF c1, at, v
  <2>7. Do(c1, y) = c2
    BY <2>3, <2>4, <2>6
  <2>8. c2 \in Cpu /\ c2.reg["t0"] = at /\ c2.mem = c1.mem
    BY <1>1, <1>2, <2>3, SetIs
  <2> HIDE DEF c2
  <2>9. z \in Instr /\ z.code = "lw" /\ z.reg1 = d /\ z.reg2 = "t0" /\ z.imm = 0
    BY <1>1, Made DEF Lw
  <2> HIDE DEF li, y, z
  <2>10. Fine(ra, c2, z)
    <3>1. is_int12(0)
      BY WidthAssumption DEF is_int12
    <3>2. Encoded(z)
      BY <1>1, <2>9, <3>1, Near DEF Encoded
    <3>3. at \in Address
      BY DEF at
    <3> QED BY <1>1, <1>2, <2>8, <2>9, <3>2, <3>3 DEF Fine
  <2>11. Do(c2, z) = Set(c2, d, c2.mem[at])
    BY <1>2, <2>8, <2>9, DoOne
  <2>12. c2.mem[at] = v
    BY <2>3, <2>8 DEF v
  <2>13. Same(Set(c2, d, v), Set(c, d, v))
    <3>1. Same(Set(c2, d, v), Set(c1, d, v))
      BY <1>2, <2>3, Overwritten DEF c2
    <3>2. Same(Set(c1, d, v), Set(c, d, v))
      BY <1>2, Overwritten DEF c1
    <3> QED BY <3>1, <3>2 DEF Same
  <2>14. Runs(ra, c, <<li, y, z>>, Do(c2, z)) /\ Do(c2, z) \in Cpu
    BY <2>2, <2>5, <2>7, <2>10, RunsThree
  <2>15. Does(ra, c, <<Lw(d, s, n)>>, Set(c, d, v))
    BY <2>1, <2>11, <2>12, <2>13, <2>14 DEF Does
  <2> QED BY <2>15 DEF v, at
<1> QED BY <1>3, <1>4

\* Where a function may store.
Storable(c, a) ==
    /\ a \in Address /\ a < CallerSp
    /\ a >= c.reg["sp"] \/ a \in {GloAddr[g] : g \in Global}

\* sw stores at any offset.
LEMMA SwDoes ==
    ASSUME NEW ra, NEW c \in Cpu, NEW d \in Registers \ {"t0"}, NEW s \in Registers \ {"t0"},
           NEW n \in Word, Storable(c, Wrap(c.reg[d] + n))
    PROVE  Does(ra, c, <<Sw(d, s, n)>>, Put(c, Wrap(c.reg[d] + n), c.reg[s]))
<1> DEFINE at == Wrap(c.reg[d] + n)
           v == c.reg[s]
<1>1. /\ n \in Int /\ c.reg[d] \in Int /\ v \in Word /\ "t0" \in Registers /\ "x0" \in Registers
      /\ "sw" \in Codes /\ "x0" \in Registers \cup {"imm"} /\ "sw" \in RRI /\ "sw" \notin RRR
      /\ 0 \in Word /\ 0 \in Int
  BY CpuIs, Words, Scratch DEF Codes, RRI, RRR
<1>2. at \in Word /\ at \in Int /\ Wrap(at + 0) = at /\ at \in Address
  <2>1. at \in Address
    BY DEF Storable
  <2> HIDE DEF at
  <2>2. at \in Word /\ at \in Int
    BY <2>1, Words
  <2>3. at + 0 = at
    BY <2>2
  <2> QED BY <2>1, <2>2, <2>3, Words
<1>3. CASE is_int12(n)
  <2> DEFINE x == Sw(d, s, n)
  <2>1. x \in Instr /\ x.code = "sw" /\ x.reg1 = d /\ x.reg2 = s /\ x.imm = n
    BY <1>1, Made DEF Sw
  <2> HIDE DEF x
  <2>2. Encoded(x)
    BY <1>1, <1>3, <2>1, Near DEF Encoded
  <2>3. Lower(<<x>>) = <<x>>
    BY <2>1, <2>2, LowerKeeps
  <2>4. Fine(ra, c, x)
    BY <2>1, <2>2 DEF Fine, Storable
  <2>5. Do(c, x) = Put(c, at, v)
    BY <2>1, DoOne
  <2>6. Does(ra, c, <<x>>, Put(c, at, v))
    BY <2>3, <2>4, <2>5, RunsFine, SameSelf DEF Does
  <2> QED BY <2>6 DEF x
<1>4. CASE ~is_int12(n)
  <2> DEFINE li == Li("t0", n)
             y == I("add", "t0", d, "t0", 0)
             z == Sw("t0", s, 0)
             c1 == Set(c, "t0", n)
             c2 == Set(c1, "t0", at)
  <2>1. Lower(<<Sw(d, s, n)>>) = <<li, y, z>>
    BY <1>1, <1>4, LowerFar
  <2>2. Fine(ra, c, li) /\ Do(c, li) = c1
    BY <1>1, LiLoads
  <2>3. /\ c1 \in Cpu /\ c1.reg["t0"] = n /\ c1.mem = c.mem /\ c1.taken = c.taken
        /\ \A r \in Registers \ {"t0"} : c1.reg[r] = c.reg[r]
    BY <1>1, SetIs
  <2>4. "add" \in RRR /\ Alu("add", c.reg[d], n) = at
    BY DEF RRR, Alu
  <2>5. Fine(ra, c1, y)
    BY <1>1, <2>4, FineAlu
  <2>6. Do(c1, y) = Set(c1, "t0", Alu("add", c1.reg[d], c1.reg["t0"]))
    BY <1>1, <2>3, <2>4, DoAlu
  <2> HIDE DEF c1, at, v
  <2>7. Do(c1, y) = c2
    BY <2>3, <2>4, <2>6
  <2>8. /\ c2 \in Cpu /\ c2.reg["t0"] = at /\ c2.mem = c1.mem /\ c2.taken = c1.taken
        /\ \A r \in Registers \ {"t0"} : c2.reg[r] = c1.reg[r]
    <3>1. c1 \in Cpu /\ at \in Word /\ "t0" \in Registers
      BY <1>1, <1>2, <2>3 DEF at
    <3> QED BY <3>1, SetIs
  <2> HIDE DEF c2
  <2>9. z \in Instr /\ z.code = "sw" /\ z.reg1 = "t0" /\ z.reg2 = s /\ z.imm = 0
    BY <1>1, Made DEF Sw
  <2> HIDE DEF li, y, z
  <2>10. Fine(ra, c2, z)
    <3>1. is_int12(0)
      BY WidthAssumption DEF is_int12
    <3>2. Encoded(z)
      BY <1>1, <2>9, <3>1, Near DEF Encoded
    <3>3. Storable(c, at)
      BY DEF at
    <3>4. c2.reg["sp"] = c.reg["sp"]
      BY <2>3, <2>8, Scratch
    <3> QED BY <1>1, <1>2, <2>8, <2>9, <3>2, <3>3, <3>4 DEF Fine, Storable
  <2>11. Do(c2, z) = Put(c2, at, v)
    BY <1>2, <2>3, <2>8, <2>9, DoOne DEF v
  <2>12. Same(Put(c2, at, v), Put(c, at, v))
    BY <2>3, <2>8 DEF Same, Put
  <2>13. Runs(ra, c, <<li, y, z>>, Do(c2, z)) /\ Do(c2, z) \in Cpu
    BY <2>2, <2>5, <2>7, <2>10, RunsThree
  <2>14. Does(ra, c, <<Sw(d, s, n)>>, Put(c, at, v))
    BY <2>1, <2>11, <2>12, <2>13 DEF Does
  <2> QED BY <2>14 DEF v, at
<1> QED BY <1>3, <1>4

-----------------------------------------------------------------------------
(* From instructions to units.                                             *)

\* t0 never counts.
LEMMA DoesSame ==
    ASSUME NEW ra, NEW c, NEW code, NEW d, NEW e, Does(ra, c, code, d), Same(d, e)
    PROVE  Does(ra, c, code, e)
  BY DEF Does, Same

\* Code after code, lowered.
LEMMA DoesThen ==
    ASSUME NEW ra, NEW c, NEW s \in Seq(Instr), NEW r \in Seq(Instr), NEW d, NEW g,
           Does(ra, c, s, d), \A e \in Cpu : Same(e, d) => Does(ra, e, r, g)
    PROVE  Does(ra, c, s \o r, g)
<1>1. PICK e \in Cpu : Runs(ra, c, Lower(s), e) /\ Same(e, d)
  BY DEF Does
<1>2. PICK f \in Cpu : Runs(ra, e, Lower(r), f) /\ Same(f, g)
  BY <1>1 DEF Does
<1>3. Runs(ra, c, Lower(s) \o Lower(r), f)
  BY <1>1, <1>2, RunsThen
<1> QED BY <1>2, <1>3, LowerConcat DEF Does

\* An instruction that is fine as it is.
LEMMA KeptDoes ==
    ASSUME NEW ra, NEW c \in Cpu, NEW x, Fine(ra, c, x)
    PROVE  Does(ra, c, <<x>>, Do(c, x))
<1>1. x \in Instr /\ Encoded(x)
  BY DEF Fine
<1>2. Lower(<<x>>) = <<x>>
  BY <1>1, LowerKeeps
<1> QED BY <1>2, RunsFine, SameSelf DEF Does

\* Processors that are the same but for t0 remain so.
LEMMA SameSet ==
    ASSUME NEW c \in Cpu, NEW d \in Cpu, Same(c, d), NEW r \in Registers, NEW v \in Word
    PROVE  Same(Set(c, r, v), Set(d, r, v))
<1>1. ASSUME NEW q \in Registers \ {"t0"} PROVE Set(c, r, v).reg[q] = Set(d, r, v).reg[q]
  <2>1. c.reg[q] = d.reg[q]
    BY DEF Same
  <2>2. CASE q = r
    BY <2>2, SetIs
  <2>3. CASE q # r
    <3>1. q \in Registers \ {r}
      BY <2>3
    <3> QED BY <2>1, <3>1, SetIs
  <2> QED BY <2>2, <2>3
<1>2. c.mem = d.mem /\ c.taken = d.taken
  BY DEF Same
<1> QED BY <1>1, <1>2, SetIs DEF Same

\* The second of two values of a register counts.
LEMMA SetTwice ==
    ASSUME NEW c \in Cpu, NEW r \in Registers, NEW v \in Word, NEW w \in Word
    PROVE  Set(Set(c, r, w), r, v) = Set(c, r, v)
  BY DEF Set, Cpu

\* t0 is nobody else's.
LEMMA PoolIs ==
    /\ Pool \subseteq Registers \ {"t0"}
    /\ {"x0", "sp", "ra"} \subseteq Registers \ {"t0"}
    /\ Pool \cap {"x0", "t0", "sp", "ra", "imm"} = {}
  BY RiscvAssumption DEF Registers

(* The instructions that work on registers alone.                          *)
LEMMA RRDoes ==
    ASSUME NEW ra, NEW c \in Cpu, NEW d \in Registers, NEW s \in Registers
    PROVE  /\ \A k \in {"mv", "neg", "seqz", "snez"} : RR(k, d, s) \in Instr
           /\ Does(ra, c, <<RR("mv", d, s)>>, Set(c, d, c.reg[s]))
           /\ Does(ra, c, <<RR("neg", d, s)>>, Set(c, d, Wrap(-c.reg[s])))
           /\ Does(ra, c, <<RR("seqz", d, s)>>, Set(c, d, Bool(c.reg[s] = 0)))
           /\ Does(ra, c, <<RR("snez", d, s)>>, Set(c, d, Bool(c.reg[s] # 0)))
<1>1. ASSUME NEW k \in {"mv", "neg", "seqz", "snez"}
      PROVE  /\ RR(k, d, s) \in Instr /\ RR(k, d, s).code = k
             /\ RR(k, d, s).reg1 = d /\ RR(k, d, s).reg2 = s
             /\ Does(ra, c, <<RR(k, d, s)>>, Do(c, RR(k, d, s)))
  <2> DEFINE x == RR(k, d, s)
  <2>1. /\ "x0" \in Registers \cup {"imm"} /\ k \in Codes /\ 0 \in Int /\ 0 \in Word
        /\ k \notin RRR /\ k \notin RRI
    BY Scratch, Words DEF Codes, RRR, RRI
  <2>2. x \in Instr /\ x.code = k /\ x.reg1 = d /\ x.reg2 = s /\ x.imm = 0
    BY <2>1, Made DEF RR
  <2> HIDE DEF x
  <2>3. Fine(ra, c, x)
    BY <2>1, <2>2, FineEasy DEF Encoded
  <2>4. Does(ra, c, <<x>>, Do(c, x))
    BY <2>3, KeptDoes
  <2> QED BY <2>2, <2>4 DEF x
<1>2. Do(c, RR("mv", d, s)) = Set(c, d, c.reg[s])
  BY <1>1, DoOne
<1>3. Do(c, RR("neg", d, s)) = Set(c, d, Wrap(-c.reg[s]))
  BY <1>1, DoOne
<1>4. Do(c, RR("seqz", d, s)) = Set(c, d, Bool(c.reg[s] = 0))
  BY <1>1, DoOne
<1>5. Do(c, RR("snez", d, s)) = Set(c, d, Bool(c.reg[s] # 0))
  BY <1>1, DoOne
<1> QED BY <1>1, <1>2, <1>3, <1>4, <1>5

\* An operator on registers.
LEMMA AluDoes ==
    ASSUME NEW ra, NEW c \in Cpu, NEW code \in RRR, NEW d \in Registers,
           NEW a \in Registers, NEW b \in Registers
    PROVE  Does(ra, c, <<I(code, d, a, b, 0)>>, Set(c, d, Alu(code, c.reg[a], c.reg[b])))
<1>1. 0 \in Word
  BY Words
<1> QED BY <1>1, FineAlu, DoAlu, KeptDoes

-----------------------------------------------------------------------------
(* Operators.                                                              *)

Ops == {"+", "-", "*", "/", "%", "<", ">", "<=", ">=", "!=", "=="}

\* The tables of operators: the instruction, and what finishes it, give the
\* meaning.
LEMMA OperatorParts ==
    ASSUME NEW op \in Ops, NEW a \in Word, NEW b \in Word
    PROVE  LET k == toRiscVOP[op][1]
               fin == toRiscVOP[op][2]
               w == Alu(k, a, b)
           IN  /\ k \in RRR /\ fin \in {"n_rr", "seqz", "snez"}
               /\ fin = "n_rr" => Meaning(op, a, b) = w
               /\ fin = "seqz" => Meaning(op, a, b) = Bool(w = 0)
               /\ fin = "snez" => Meaning(op, a, b) = Bool(w # 0)
<1>1. a \in Int /\ b \in Int
  BY Words
<1>2. op \in {"+", "-", "*", "/", "%", "<", ">"} =>
         /\ toRiscVOP[op][2] = "n_rr" /\ toRiscVOP[op][1] \in RRR
         /\ Meaning(op, a, b) = Alu(toRiscVOP[op][1], a, b)
  BY DEF toRiscVOP, RRR, Meaning, Alu
<1>3. op = "<=" => /\ toRiscVOP[op] = <<"sgt", "seqz">>
                   /\ Meaning(op, a, b) = Bool(Alu("sgt", a, b) = 0)
  BY <1>1 DEF toRiscVOP, Meaning, Alu, Bool
<1>4. op = ">=" => /\ toRiscVOP[op] = <<"slt", "seqz">>
                   /\ Meaning(op, a, b) = Bool(Alu("slt", a, b) = 0)
  BY <1>1 DEF toRiscVOP, Meaning, Alu, Bool
<1>5. Alu("xor", a, b) = 0 <=> a = b
  BY RiscvAssumption DEF Alu
<1>6. op = "!=" => /\ toRiscVOP[op] = <<"xor", "snez">>
                   /\ Meaning(op, a, b) = Bool(Alu("xor", a, b) # 0)
  BY <1>5 DEF toRiscVOP, Meaning, Bool
<1>7. op = "==" => /\ toRiscVOP[op] = <<"xor", "seqz">>
                   /\ Meaning(op, a, b) = Bool(Alu("xor", a, b) = 0)
  BY <1>5 DEF toRiscVOP, Meaning, Bool
<1> QED BY <1>2, <1>3, <1>4, <1>6, <1>7 DEF Ops, RRR

\* Operators mean words.
LEMMA MeaningWord ==
    ASSUME NEW op \in Ops, NEW a \in Word, NEW b \in Word
    PROVE  Meaning(op, a, b) \in Word
<1>1. Alu(toRiscVOP[op][1], a, b) \in Word
  BY OperatorParts, AluWord
<1>2. \A p \in BOOLEAN : Bool(p) \in Word
  BY Words DEF Bool
<1>3. LET w == Alu(toRiscVOP[op][1], a, b)
      IN  Meaning(op, a, b) = w \/ Meaning(op, a, b) = Bool(w = 0) \/ Meaning(op, a, b) = Bool(w # 0)
  BY OperatorParts
<1> DEFINE w == Alu(toRiscVOP[op][1], a, b)
<1>4. Bool(w = 0) \in Word /\ Bool(w # 0) \in Word
  BY <1>2
<1> QED BY <1>1, <1>3, <1>4

(* An operator, on registers or on a register and a literal: the half-made *)
(* result of a comparison is in the destination alone.                     *)
LEMMA OperateDoes ==
    ASSUME NEW ra, NEW c \in Cpu, NEW op \in Ops, NEW d \in Pool, NEW a \in Pool,
           NEW b, NEW n \in Word, NEW v \in Word,
           \/ b \in Pool /\ n = 0 /\ v = c.reg[b]
           \/ b = "imm" /\ v = n
    PROVE  Does(ra, c, Operate(op, d, a, b, n), Set(c, d, Meaning(op, c.reg[a], v)))
<1> DEFINE k == toRiscVOP[op][1]
           fin == toRiscVOP[op][2]
           x == I(k, d, a, b, n)
           y == RR(fin, d, d)
           w == Alu(k, c.reg[a], v)
           m == Meaning(op, c.reg[a], v)
<1>1. /\ d \in Registers \ {"t0"} /\ a \in Registers \ {"t0"} /\ b \in Registers \cup {"imm"}
      /\ n \in Int /\ c.reg[a] \in Word
  BY PoolIs, CpuIs, Words
<1>2. /\ k \in RRR /\ fin \in {"n_rr", "seqz", "snez"}
      /\ fin = "n_rr" => m = w
      /\ fin = "seqz" => m = Bool(w = 0)
      /\ fin = "snez" => m = Bool(w # 0)
  BY <1>1, OperatorParts
<1>3. w \in Word /\ m \in Word
  BY <1>1, <1>2, AluWord, MeaningWord
<1>4. Operate(op, d, a, b, n) = <<x>> \o (IF fin = "n_rr" THEN <<>> ELSE <<y>>)
  BY DEF Operate
<1>5. x \in Instr
  BY <1>1, <1>2, Made DEF Codes
<1> HIDE DEF k, fin, x, y, w, m
<1>6. Does(ra, c, <<x>>, Set(c, d, w))
  <2>1. CASE b \in Pool /\ n = 0 /\ v = c.reg[b]
    <3>1. b \in Registers
      BY <2>1, PoolIs
    <3> QED BY <1>1, <1>2, <2>1, <3>1, AluDoes DEF x, w
  <2>2. CASE b = "imm" /\ v = n
    BY <1>1, <1>2, <2>2, LiteralDoes DEF x, w
  <2> QED BY <2>1, <2>2
<1>7. CASE fin = "n_rr"
  <2>1. <<x>> \o <<>> = <<x>>
    BY <1>5
  <2>2. Operate(op, d, a, b, n) = <<x>> /\ w = m
    BY <1>2, <1>4, <1>7, <2>1
  <2>3. Does(ra, c, Operate(op, d, a, b, n), Set(c, d, m))
    BY <1>6, <2>2
  <2> QED BY <2>3 DEF m
<1>8. CASE fin \in {"seqz", "snez"}
  <2>1. Set(c, d, w) \in Cpu /\ Set(c, d, w).reg[d] = w
    BY <1>1, <1>3, SetIs
  <2>2. y \in Instr
    BY <1>1, <1>8, RRDoes DEF y
  <2>3. ASSUME NEW e \in Cpu, Same(e, Set(c, d, w))
        PROVE  Does(ra, e, <<y>>, Set(c, d, m))
    <3>1. e.reg[d] = w
      BY <1>1, <2>1, <2>3 DEF Same
    <3>2. Does(ra, e, <<y>>, Set(e, d, m))
      <4>1. CASE fin = "seqz"
        <5>1. Does(ra, e, <<RR("seqz", d, d)>>, Set(e, d, Bool(e.reg[d] = 0)))
          BY <1>1, RRDoes
        <5> QED BY <1>2, <3>1, <4>1, <5>1 DEF y
      <4>2. CASE fin = "snez"
        <5>1. Does(ra, e, <<RR("snez", d, d)>>, Set(e, d, Bool(e.reg[d] # 0)))
          BY <1>1, RRDoes
        <5> QED BY <1>2, <3>1, <4>2, <5>1 DEF y
      <4> QED BY <1>8, <4>1, <4>2
    <3>3. Same(Set(e, d, m), Set(Set(c, d, w), d, m))
      BY <1>1, <1>3, <2>1, <2>3, SameSet
    <3>4. Set(Set(c, d, w), d, m) = Set(c, d, m)
      BY <1>1, <1>3, SetTwice
    <3> QED BY <3>2, <3>3, <3>4, DoesSame
  <2>4. <<x>> \in Seq(Instr) /\ <<y>> \in Seq(Instr)
    BY <1>5, <2>2
  <2>5. Does(ra, c, <<x>> \o <<y>>, Set(c, d, m))
    BY <1>6, <2>3, <2>4, DoesThen
  <2>6. Operate(op, d, a, b, n) = <<x>> \o <<y>>
    BY <1>4, <1>8
  <2> QED BY <2>5, <2>6 DEF m
<1> QED BY <1>2, <1>7, <1>8

\* A unary operator.
LEMMA UnaryDoes ==
    ASSUME NEW ra, NEW c \in Cpu, NEW op \in {"+", "-", "!"}, NEW d \in Pool, NEW s \in Pool
    PROVE  Does(ra, c, <<RR(toRiscVUnary[op], d, s)>>, Set(c, d, MeaningUnary(op, c.reg[s])))
<1>1. d \in Registers /\ s \in Registers
  BY PoolIs
<1>2. CASE op = "+"
  <2>1. toRiscVUnary[op] = "mv" /\ MeaningUnary(op, c.reg[s]) = c.reg[s]
    BY <1>2 DEF toRiscVUnary, MeaningUnary
  <2> QED BY <1>1, <2>1, RRDoes
<1>3. CASE op = "-"
  <2>1. toRiscVUnary[op] = "neg" /\ MeaningUnary(op, c.reg[s]) = Wrap(-c.reg[s])
    BY <1>3 DEF toRiscVUnary, MeaningUnary
  <2> QED BY <1>1, <2>1, RRDoes
<1>4. CASE op = "!"
  <2>1. toRiscVUnary[op] = "seqz" /\ MeaningUnary(op, c.reg[s]) = Bool(c.reg[s] = 0)
    BY <1>4 DEF toRiscVUnary, MeaningUnary
  <2> QED BY <1>1, <2>1, RRDoes
<1> QED BY <1>2, <1>3, <1>4

-----------------------------------------------------------------------------
(* The frame.                                                              *)

\* The frame has room for the locals and the return address, and is on the
\* stack.
LEMMA StkIs ==
    ASSUME frame \in Frames
    PROVE  /\ stk \in Word /\ stk \in Nat /\ stk % 4 = 0 /\ stk >= 8
           /\ \A o \in Locals : o \in Nat /\ o % 4 = 0 /\ o < stk - 4
           /\ CallerSp \in Int /\ CallerSp % 4 = 0
           /\ CallerSp - stk \in Word
           /\ \A g \in Global : GloAddr[g] \in Address /\ GloAddr[g] < CallerSp - stk
<1> DEFINE q == frame \div 4
<1>1. frame \in Nat /\ q \in Nat /\ 4 * q <= frame /\ frame < 4 * q + 4
  BY StackAssumption
<1>2. stk = (q + 1) * Align
  BY DEF stk
<1> HIDE DEF q
<1>3. PICK m \in Nat : Align = 4 * m /\ m >= 2
  <2>1. Align \in Nat /\ Align >= 8 /\ Align % 4 = 0
    BY StackAssumption
  <2>2. Align \div 4 \in Nat /\ Align = 4 * (Align \div 4) /\ Align \div 4 >= 2
    BY <2>1
  <2> QED BY <2>2
<1>4. stk = 4 * ((q + 1) * m) /\ (q + 1) * m \in Nat
  BY <1>1, <1>2, <1>3
<1>5. (q + 1) * m >= (q + 1) * 2
  BY <1>1, <1>3
<1>6. stk \in Nat /\ stk % 4 = 0 /\ stk >= 8 * q + 8 /\ stk >= 8
  BY <1>1, <1>4, <1>5
<1>7. ASSUME NEW o \in Locals PROVE o \in Nat /\ o % 4 = 0 /\ o < stk - 4
  <2>1. o \in Nat /\ o < frame /\ o % 4 = 0
    BY <1>1 DEF Locals
  <2>2. o <= 4 * q
    BY <1>1, <2>1
  <2> QED BY <1>1, <1>6, <2>1, <2>2
<1>8. /\ stk \in Word /\ CallerSp - stk \in Word
      /\ \A g \in Global : GloAddr[g] \in Address /\ GloAddr[g] < CallerSp - stk
  BY StackAssumption DEF stk
<1>9. CallerSp \in Int /\ CallerSp % 4 = 0
  BY StackAssumption, Words DEF Address
<1> QED BY <1>6, <1>7, <1>8, <1>9

\* The words of the frame have addresses.
LEMMA SlotsIs ==
    ASSUME NEW k \in Nat, k % 4 = 0, frame \in Frames, k <= stk
    PROVE  CallerSp - stk + k \in Address /\ Wrap((CallerSp - stk) + k) = (CallerSp - stk) + k
<1>1. /\ stk \in Nat /\ stk % 4 = 0 /\ CallerSp \in Int /\ CallerSp % 4 = 0
      /\ CallerSp - stk \in Word /\ CallerSp \in Word
  BY StkIs, StackAssumption, Words DEF Address
<1>2. (CallerSp - stk) + k \in Word
  <2> DEFINE H == 2 ^ (WordBits - 1)
  <2>1. H \in Nat /\ Word = -H .. H - 1
    BY WidthAssumption DEF Word
  <2> HIDE DEF H
  <2> QED BY <1>1, <2>1
<1>3. ((CallerSp - stk) + k) % 4 = 0
  BY <1>1
<1> QED BY <1>2, <1>3, Words DEF Address

\* Locals and globals are apart from the slot of the return address and from
\* the caller's part of the stack.
LEMMA OwnedIs ==
    ASSUME frame \in Frames, entry.reg["sp"] = CallerSp
    PROVE  /\ Owned \subseteq Address
           /\ \A o \in Locals : CallerSp - stk + o \in Owned
                                /\ Wrap((CallerSp - stk) + o) = (CallerSp - stk) + o
           /\ \A g \in Global : GloAddr[g] \in Owned
           /\ \A a \in Owned : /\ a < CallerSp /\ a # CallerSp - 4
                               /\ a >= CallerSp - stk \/ a \in {GloAddr[g] : g \in Global}
           /\ CallerSp - 4 \in Address
<1>1. stk \in Nat /\ stk >= 8 /\ stk % 4 = 0 /\ CallerSp \in Int
  BY StkIs
<1>2. ASSUME NEW o \in Locals
      PROVE  /\ (CallerSp - stk) + o \in Address
             /\ Wrap((CallerSp - stk) + o) = (CallerSp - stk) + o
             /\ (CallerSp - stk) + o < CallerSp - 4
             /\ (CallerSp - stk) + o >= CallerSp - stk
             /\ (CallerSp - stk) + o \in Owned
  <2>1. o \in Nat /\ o % 4 = 0 /\ o < stk - 4 /\ o <= stk
    BY <1>1, StkIs
  <2>2. (CallerSp - stk) + o \in Owned
    BY DEF Owned
  <2> QED BY <1>1, <2>1, <2>2, SlotsIs
<1>3. ASSUME NEW g \in Global
      PROVE  /\ GloAddr[g] \in Address /\ GloAddr[g] \in Int /\ GloAddr[g] < CallerSp - stk
             /\ GloAddr[g] \in Owned
  BY StkIs, Words DEF Owned
<1>4. ASSUME NEW a \in Owned
      PROVE  /\ a \in Address /\ a < CallerSp /\ a # CallerSp - 4
             /\ a >= CallerSp - stk \/ a \in {GloAddr[g] : g \in Global}
  <2>1. CASE \E o \in Locals : a = (CallerSp - stk) + o
    BY <1>1, <1>2, <2>1
  <2>2. CASE \E g \in Global : a = GloAddr[g]
    BY <1>1, <1>3, <2>2
  <2> QED BY <2>1, <2>2 DEF Owned
<1>5. CallerSp - 4 \in Address
  <2>1. stk - 4 \in Nat /\ (stk - 4) % 4 = 0 /\ stk - 4 <= stk
        /\ CallerSp - 4 = (CallerSp - stk) + (stk - 4)
    BY <1>1
  <2>2. \A k \in Nat : k % 4 = 0 /\ k <= stk => (CallerSp - stk) + k \in Address
    BY SlotsIs
  <2> QED BY <2>1, <2>2
<1> QED BY <1>2, <1>3, <1>4, <1>5

-----------------------------------------------------------------------------
(* Entering and leaving a function.                                        *)

\* addi, lw and sw are instructions.
LEMMA AddiMade ==
    ASSUME NEW d \in Registers, NEW s \in Registers, NEW n \in Int
    PROVE  Addi(d, s, n) \in Instr /\ Lw(d, s, n) \in Instr /\ Sw(d, s, n) \in Instr
<1>1. /\ "x0" \in Registers /\ "x0" \in Registers \cup {"imm"}
      /\ "addi" \in Codes /\ "lw" \in Codes /\ "sw" \in Codes
  BY Scratch DEF Codes, RRI
<1> QED BY <1>1, Made DEF Addi, Lw, Sw

\* Processors that are the same but for t0 remain so.
LEMMA SamePut ==
    ASSUME NEW c, NEW d, Same(c, d), NEW a, NEW v
    PROVE  Same(Put(c, a, v), Put(d, a, v))
  BY DEF Same, Put

\* The numbers that the prologue and the return calculate with.
LEMMA FrameNumbers ==
    ASSUME frame \in Frames
    PROVE  /\ stk \in Word /\ -stk \in Word /\ stk - 4 \in Word
           /\ Wrap(CallerSp + -stk) = CallerSp - stk
           /\ Wrap((CallerSp - stk) + (stk - 4)) = CallerSp - 4
           /\ Wrap((CallerSp - stk) + stk) = CallerSp
           /\ CallerSp \in Word /\ CallerSp - stk \in Word /\ CallerSp - 4 \in Address
           /\ CallerSp - 4 < CallerSp /\ CallerSp - 4 >= CallerSp - stk
<1>1. /\ stk \in Word /\ stk \in Nat /\ stk >= 8 /\ stk % 4 = 0
      /\ CallerSp \in Int /\ CallerSp - stk \in Word
  BY StkIs
<1>2. CallerSp \in Word
  BY StackAssumption, Words DEF Address
<1>3. -stk \in Word /\ stk - 4 \in Word
  <2> DEFINE H == 2 ^ (WordBits - 1)
  <2>1. H \in Nat /\ Word = -H .. H - 1
    BY WidthAssumption DEF Word
  <2> HIDE DEF H
  <2> QED BY <1>1, <2>1
<1>4. CallerSp + -stk = CallerSp - stk /\ (CallerSp - stk) + stk = CallerSp
      /\ (CallerSp - stk) + (stk - 4) = CallerSp - 4
  BY <1>1
<1>5. Wrap((CallerSp - stk) + (stk - 4)) = (CallerSp - stk) + (stk - 4)
      /\ (CallerSp - stk) + (stk - 4) \in Address
  <2>1. stk - 4 \in Nat /\ (stk - 4) % 4 = 0 /\ stk - 4 <= stk
    BY <1>1
  <2>2. \A k \in Nat : k % 4 = 0 /\ k <= stk =>
           (CallerSp - stk) + k \in Address /\ Wrap((CallerSp - stk) + k) = (CallerSp - stk) + k
    BY SlotsIs
  <2> QED BY <2>1, <2>2
<1> QED BY <1>1, <1>2, <1>3, <1>4, <1>5, Words

\* The prologue opens the frame and saves the return address in it.
LEMMA PrologueDoes ==
    ASSUME NEW ra \in Word, NEW c \in Cpu, frame \in Frames,
           c.reg["sp"] = CallerSp, c.reg["ra"] = ra
    PROVE  Does(ra, c, Prologue(stk), Put(Set(c, "sp", CallerSp - stk), CallerSp - 4, ra))
<1> DEFINE x == Addi("sp", "sp", -stk)
           y == Sw("sp", "ra", stk - 4)
           c1 == Set(c, "sp", CallerSp - stk)
           g == Put(c1, CallerSp - 4, ra)
<1>1. "sp" \in Registers \ {"t0"} /\ "ra" \in Registers \ {"t0"} /\ "ra" # "sp"
  BY PoolIs
<1>2. x \in Instr /\ y \in Instr
  BY <1>1, FrameNumbers, AddiMade, Words
<1>3. Prologue(stk) = <<x>> \o <<y>>
  BY <1>2, Pair DEF Prologue
<1>4. Does(ra, c, <<x>>, c1)
  BY <1>1, FrameNumbers, AddiDoes
<1>5. c1 \in Cpu /\ c1.reg["sp"] = CallerSp - stk /\ c1.reg["ra"] = ra
  <2>1. "sp" \in Registers /\ "ra" \in Registers \ {"sp"} /\ CallerSp - stk \in Word
    BY <1>1, FrameNumbers
  <2>2. c1.reg["ra"] = c.reg["ra"]
    BY <2>1, SetIs
  <2> QED BY <2>1, <2>2, SetIs
<1>6. ASSUME NEW e \in Cpu, Same(e, c1)
      PROVE  Does(ra, e, <<y>>, g)
  <2>1. e.reg["sp"] = CallerSp - stk /\ e.reg["ra"] = ra
    BY <1>1, <1>5, <1>6 DEF Same
  <2>2. Wrap(e.reg["sp"] + (stk - 4)) = CallerSp - 4
    BY <2>1, FrameNumbers
  <2>3. Storable(e, CallerSp - 4)
    BY <2>1, FrameNumbers DEF Storable
  <2>4. Does(ra, e, <<y>>, Put(e, Wrap(e.reg["sp"] + (stk - 4)), e.reg["ra"]))
    BY <1>1, <2>2, <2>3, FrameNumbers, SwDoes
  <2>5. Same(Put(e, CallerSp - 4, ra), g)
    BY <1>6, SamePut
  <2> HIDE DEF g, y
  <2> QED BY <2>1, <2>2, <2>4, <2>5, DoesSame
<1>7. <<x>> \in Seq(Instr) /\ <<y>> \in Seq(Instr)
  BY <1>2
<1> HIDE DEF x, y, c1, g
<1>8. Does(ra, c, <<x>> \o <<y>>, g)
  BY <1>4, <1>6, <1>7, DoesThen
<1> QED BY <1>3, <1>8 DEF g, c1

\* The return reads the return address, closes the frame and goes back.
LEMMA RetDoes ==
    ASSUME NEW ra \in Word, NEW c \in Cpu, frame \in Frames,
           c.reg["sp"] = CallerSp - stk, c.mem[CallerSp - 4] = ra
    PROVE  Does(ra, c, Ret(stk), Set(Set(c, "ra", ra), "sp", CallerSp))
<1> DEFINE x == Lw("ra", "sp", stk - 4)
           y == Addi("sp", "sp", stk)
           z == I("ret", "x0", "ra", "x0", 0)
           c1 == Set(c, "ra", ra)
           g == Set(c1, "sp", CallerSp)
<1>1. /\ "sp" \in Registers \ {"t0"} /\ "ra" \in Registers \ {"t0"} /\ "ra" # "sp"
      /\ "x0" \in Registers /\ "x0" \in Registers \cup {"imm"}
  BY PoolIs
<1>2. x \in Instr /\ y \in Instr
  BY <1>1, FrameNumbers, AddiMade, Words
<1>3. z \in Instr /\ z.code = "ret" /\ z.imm = 0
  <2>1. "ret" \in Codes /\ 0 \in Int
    BY DEF Codes
  <2> QED BY <1>1, <2>1, Made
<1>4. Ret(stk) = <<x>> \o (<<y>> \o <<z>>)
  BY <1>2, <1>3, Pair, Triple DEF Ret
<1>5. Does(ra, c, <<x>>, c1)
  <2>1. Wrap(c.reg["sp"] + (stk - 4)) = CallerSp - 4
    BY FrameNumbers
  <2> QED BY <1>1, <2>1, FrameNumbers, LwDoes
<1>6. c1 \in Cpu /\ c1.reg["sp"] = CallerSp - stk /\ c1.reg["ra"] = ra
  BY <1>1, SetIs
<1>7. g \in Cpu /\ g.reg["ra"] = ra
  <2>1. "sp" \in Registers /\ "ra" \in Registers \ {"sp"} /\ CallerSp \in Word
    BY <1>1, FrameNumbers
  <2> HIDE DEF c1
  <2>2. g.reg["ra"] = c1.reg["ra"]
    BY <1>6, <2>1, SetIs
  <2> QED BY <1>6, <2>1, <2>2, SetIs
<1>8. ASSUME NEW e \in Cpu, Same(e, c1)
      PROVE  Does(ra, e, <<y>>, g)
  <2>1. e.reg["sp"] = CallerSp - stk
    BY <1>1, <1>6, <1>8 DEF Same
  <2>2. Does(ra, e, <<y>>, Set(e, "sp", CallerSp))
    BY <1>1, <2>1, FrameNumbers, AddiDoes
  <2>3. Same(Set(e, "sp", CallerSp), g)
    BY <1>1, <1>6, <1>8, FrameNumbers, SameSet
  <2> HIDE DEF g, y
  <2> QED BY <2>2, <2>3, DoesSame
<1> HIDE DEF x, y, z, c1, g
<1>9. ASSUME NEW e \in Cpu, Same(e, g)
      PROVE  Does(ra, e, <<z>>, g)
  <2>1. e.reg["ra"] = ra
    BY <1>1, <1>7, <1>9 DEF Same
  <2>2. Fine(ra, e, z)
    BY <1>3, <2>1, Words DEF Fine, Encoded, RRR, RRI
  <2>3. Do(e, z) = e
    BY <1>3, DoOne
  <2> QED BY <1>9, <2>2, <2>3, KeptDoes, DoesSame
<1>10. <<x>> \in Seq(Instr) /\ <<y>> \in Seq(Instr) /\ <<z>> \in Seq(Instr)
  BY <1>2, <1>3
<1>11. ASSUME NEW e \in Cpu, Same(e, c1)
       PROVE  Does(ra, e, <<y>> \o <<z>>, g)
  BY <1>8, <1>9, <1>10, <1>11, DoesThen
<1>12. <<y>> \o <<z>> \in Seq(Instr)
  BY <1>10, ConcatProperties
<1>13. Does(ra, c, <<x>> \o (<<y>> \o <<z>>), g)
  BY <1>5, <1>10, <1>11, <1>12, DoesThen
<1> QED BY <1>4, <1>13 DEF g, c1

-----------------------------------------------------------------------------
(* Units.                                                                  *)

\* The kinds of units.
LEMMA UnitParts ==
    ASSUME NEW u \in Unit
    PROVE  \/ /\ u.type = "rbr" /\ u.op \in Ops /\ u.dst \in Pool
              /\ u.src1 \in Pool /\ u.src2 \in Pool
           \/ /\ u.type = "rbi" /\ u.op \in Ops /\ u.dst \in Pool
              /\ u.src1 \in Pool /\ u.imm \in Imm
           \/ u.type = "ur" /\ u.op \in {"+", "-", "!"} /\ u.dst \in Pool /\ u.src1 \in Pool
           \/ u.type = "cr" /\ u.dst \in Pool /\ u.src1 \in Pool \cup {"x0"}
           \/ u.type = "ci" /\ u.dst \in Pool /\ u.imm \in Imm
           \/ u.type \in {"ar", "aw"} /\ u.dst \in Pool /\ u.src1 \in Pool /\ u.imm \in Imm
           \/ u.type = "jc" /\ u.src1 \in Pool
           \/ u.type = "call" /\ u.imm \in Begin
           \/ u.type = "wstk" /\ u.src1 \in Pool /\ u.imm \in Locals
           \/ u.type \in {"rstk", "ptrstk"} /\ u.dst \in Pool /\ u.imm \in Locals
           \/ u.type \in {"ptrglo", "rglo"} /\ u.dst \in Pool /\ u.id \in Global
<1>1. DOMAIN toRiscVOP = Ops /\ DOMAIN toRiscVUnary = {"+", "-", "!"}
  BY DEF toRiscVOP, toRiscVUnary, Ops
<1> QED BY <1>1 DEF Unit

\* Instructions that no pass touches.
LEMMA PlainDoes ==
    ASSUME NEW ra, NEW c \in Cpu, NEW k \in {"li", "la", "beq", "call"},
           NEW d \in Registers, NEW n \in Word
    PROVE  LET x == I(k, d, "x0", "x0", n)
           IN  /\ x \in Instr /\ x.code = k /\ x.reg1 = d /\ x.reg2 = "x0" /\ x.imm = n
               /\ Does(ra, c, <<x>>, Do(c, x))
<1> DEFINE x == I(k, d, "x0", "x0", n)
<1>1. /\ "x0" \in Registers \cup {"imm"} /\ "x0" \in Registers /\ k \in Codes /\ n \in Int
      /\ k \notin RRR /\ k \notin RRI /\ k # "ret"
  BY Scratch, Words DEF Codes, RRR, RRI
<1>2. x \in Instr /\ x.code = k /\ x.reg1 = d /\ x.reg2 = "x0" /\ x.imm = n
  BY <1>1, Made
<1> HIDE DEF x
<1>3. Fine(ra, c, x)
  BY <1>1, <1>2, FineEasy DEF Encoded, RRI
<1> QED BY <1>2, <1>3, KeptDoes DEF x

\* The processor is in the body of a function that u may be a unit of.
Ready(c, u) ==
    /\ frame \in Frames /\ entry.reg["sp"] = CallerSp
    /\ c \in Cpu /\ c.reg["sp"] = CallerSp - stk /\ c.reg["x0"] = 0
    /\ u \in Unit
    /\ u.type = "ar" => Wrap(c.reg[u.src1] + u.imm) \in Owned
    /\ u.type = "aw" => Wrap(c.reg[u.dst] + u.imm) \in Owned

\* A unit may store where the source speaks of.
LEMMA OwnedStorable ==
    ASSUME NEW c, NEW u, Ready(c, u), NEW a \in Owned
    PROVE  Storable(c, a) /\ a \in Address
  BY OwnedIs DEF Ready, Storable

\* The units that work on registers.
LEMMA UnitDoesRegisters ==
    ASSUME NEW ra, NEW c, NEW u, Ready(c, u),
           u.type \in {"rbr", "rbi", "ur", "cr", "ci", "jc", "ptrglo"}
    PROVE  Does(ra, c, convert(u, stk), Dashie(c, u))
<1>1. c \in Cpu /\ u \in Unit /\ frame \in Frames
  BY DEF Ready
<1>2. Imm \subseteq Word /\ 0 \in Word
  BY RiscvAssumption, Words
<1>3. CASE u.type = "rbr"
  <2>1. u.op \in Ops /\ u.dst \in Pool /\ u.src1 \in Pool /\ u.src2 \in Pool
    BY <1>1, <1>3, UnitParts
  <2>2. c.reg[u.src2] \in Word
    BY <1>1, <2>1, PoolIs, CpuIs
  <2>3. Does(ra, c, Operate(u.op, u.dst, u.src1, u.src2, 0),
             Set(c, u.dst, Meaning(u.op, c.reg[u.src1], c.reg[u.src2])))
    BY <1>1, <1>2, <2>1, <2>2, OperateDoes
  <2>4. convert(u, stk) = Operate(u.op, u.dst, u.src1, u.src2, 0)
    BY <1>3 DEF convert
  <2>5. Dashie(c, u) = Set(c, u.dst, Meaning(u.op, c.reg[u.src1], c.reg[u.src2]))
    BY <1>3 DEF Dashie
  <2> QED BY <2>3, <2>4, <2>5
<1>4. CASE u.type = "rbi"
  <2>1. u.op \in Ops /\ u.dst \in Pool /\ u.src1 \in Pool /\ u.imm \in Word
    BY <1>1, <1>2, <1>4, UnitParts
  <2>2. Does(ra, c, Operate(u.op, u.dst, u.src1, "imm", u.imm),
             Set(c, u.dst, Meaning(u.op, c.reg[u.src1], u.imm)))
    BY <1>1, <2>1, OperateDoes
  <2>3. convert(u, stk) = Operate(u.op, u.dst, u.src1, "imm", u.imm)
    BY <1>4 DEF convert
  <2>4. Dashie(c, u) = Set(c, u.dst, Meaning(u.op, c.reg[u.src1], u.imm))
    BY <1>4 DEF Dashie
  <2> QED BY <2>2, <2>3, <2>4
<1>5. CASE u.type = "ur"
  <2>1. u.op \in {"+", "-", "!"} /\ u.dst \in Pool /\ u.src1 \in Pool
    BY <1>1, <1>5, UnitParts
  <2>2. convert(u, stk) = <<RR(toRiscVUnary[u.op], u.dst, u.src1)>>
    BY <1>5 DEF convert
  <2>3. Dashie(c, u) = Set(c, u.dst, MeaningUnary(u.op, c.reg[u.src1]))
    BY <1>5 DEF Dashie
  <2> QED BY <1>1, <2>1, <2>2, <2>3, UnaryDoes
<1>6. CASE u.type = "cr"
  <2>1. u.dst \in Registers /\ u.src1 \in Registers
    BY <1>1, <1>6, UnitParts, PoolIs
  <2>2. convert(u, stk) = <<RR("mv", u.dst, u.src1)>>
    BY <1>6 DEF convert
  <2>3. Dashie(c, u) = Set(c, u.dst, c.reg[u.src1])
    BY <1>6 DEF Dashie
  <2> QED BY <1>1, <2>1, <2>2, <2>3, RRDoes
<1>7. CASE u.type = "ci"
  <2>1. u.dst \in Registers /\ u.imm \in Word
    BY <1>1, <1>2, <1>7, UnitParts, PoolIs
  <2>2. Fine(ra, c, Li(u.dst, u.imm)) /\ Do(c, Li(u.dst, u.imm)) = Set(c, u.dst, u.imm)
    BY <1>1, <2>1, LiLoads
  <2>3. convert(u, stk) = <<Li(u.dst, u.imm)>>
    BY <1>7 DEF convert
  <2>4. Dashie(c, u) = Set(c, u.dst, u.imm)
    BY <1>7 DEF Dashie
  <2> QED BY <1>1, <2>2, <2>3, <2>4, KeptDoes
<1>8. CASE u.type = "jc"
  <2>1. u.src1 \in Registers
    BY <1>1, <1>8, UnitParts, PoolIs
  <2> DEFINE x == I("beq", u.src1, "x0", "x0", 0)
  <2>2. x \in Instr /\ x.code = "beq" /\ x.reg1 = u.src1 /\ x.reg2 = "x0"
    <3>1. /\ "beq" \in Codes /\ 0 \in Int
          /\ "x0" \in Registers /\ "x0" \in Registers \cup {"imm"}
      BY Scratch DEF Codes
    <3> QED BY <2>1, <3>1, Made
  <2>7. x.imm = 0
    BY DEF I
  <2>3. convert(u, stk) = <<x>>
    BY <1>8 DEF convert
  <2> HIDE DEF x
  <2>4. Do(c, x) = [c EXCEPT !.taken = c.reg[u.src1] = c.reg["x0"]]
    BY <1>1, <2>2, DoOne
  <2>5. Dashie(c, u) = [c EXCEPT !.taken = c.reg[u.src1] = 0]
    BY <1>8 DEF Dashie
  <2>6. c.reg["x0"] = 0
    BY DEF Ready
  <2>8. Fine(ra, c, x)
    BY <1>2, <2>2, <2>7, FineEasy DEF Encoded, RRR, RRI
  <2>9. Does(ra, c, <<x>>, Do(c, x))
    BY <1>1, <2>8, KeptDoes
  <2> QED BY <2>3, <2>4, <2>5, <2>6, <2>9
<1>9. CASE u.type = "ptrglo"
  <2>1. u.dst \in Registers /\ GloAddr[u.id] \in Word
    BY <1>1, <1>9, UnitParts, PoolIs, StkIs, Words
  <2> DEFINE x == I("la", u.dst, "x0", "x0", GloAddr[u.id])
  <2>2. /\ x \in Instr /\ x.code = "la" /\ x.reg1 = u.dst /\ x.imm = GloAddr[u.id]
        /\ Does(ra, c, <<x>>, Do(c, x))
    BY <1>1, <2>1, PlainDoes
  <2>3. convert(u, stk) = <<x>>
    BY <1>9 DEF convert
  <2> HIDE DEF x
  <2>4. Do(c, x) = Set(c, u.dst, GloAddr[u.id])
    BY <1>1, <2>2, DoOne
  <2>5. Dashie(c, u) = Set(c, u.dst, GloAddr[u.id])
    BY <1>9 DEF Dashie
  <2> QED BY <2>2, <2>3, <2>4, <2>5
<1> QED BY <1>3, <1>4, <1>5, <1>6, <1>7, <1>8, <1>9

\* The units that work on memory and the stack.
LEMMA UnitDoesMemory ==
    ASSUME NEW ra, NEW c, NEW u, Ready(c, u),
           u.type \in {"ar", "aw", "wstk", "rstk", "ptrstk", "rglo"}
    PROVE  Does(ra, c, convert(u, stk), Dashie(c, u))
<1>1. /\ c \in Cpu /\ u \in Unit /\ frame \in Frames /\ entry.reg["sp"] = CallerSp
      /\ c.reg["sp"] = CallerSp - stk
  BY DEF Ready
<1>2. Imm \subseteq Word /\ 0 \in Word
  BY RiscvAssumption, Words
<1>3. ASSUME NEW o \in Locals
      PROVE  /\ o \in Word
             /\ Wrap(c.reg["sp"] + o) \in Owned
             /\ Wrap(c.reg["sp"] + o) = (CallerSp - stk) + o
  <2>1. o \in Nat /\ o < stk - 4 /\ stk \in Nat /\ stk \in Word
    BY <1>1, StkIs
  <2>2. o \in Word
    <3> DEFINE H == 2 ^ (WordBits - 1)
    <3>1. H \in Nat /\ Word = -H .. H - 1
      BY WidthAssumption DEF Word
    <3> HIDE DEF H
    <3> QED BY <2>1, <3>1
  <2> QED BY <1>1, <2>2, OwnedIs
<1>4. CASE u.type = "ar"
  <2>1. u.dst \in Registers /\ u.src1 \in Registers \ {"t0"} /\ u.imm \in Word
    BY <1>1, <1>2, <1>4, UnitParts, PoolIs
  <2>2. Wrap(c.reg[u.src1] + u.imm) \in Address
    BY <1>4, OwnedStorable DEF Ready
  <2>3. convert(u, stk) = <<Lw(u.dst, u.src1, u.imm)>>
    BY <1>4 DEF convert
  <2>4. Dashie(c, u) = Set(c, u.dst, c.mem[Wrap(c.reg[u.src1] + u.imm)])
    BY <1>4 DEF Dashie
  <2> QED BY <1>1, <2>1, <2>2, <2>3, <2>4, LwDoes
<1>5. CASE u.type = "aw"
  <2>1. u.dst \in Registers \ {"t0"} /\ u.src1 \in Registers \ {"t0"} /\ u.imm \in Word
    BY <1>1, <1>2, <1>5, UnitParts, PoolIs
  <2>2. Storable(c, Wrap(c.reg[u.dst] + u.imm))
    BY <1>5, OwnedStorable DEF Ready
  <2>3. convert(u, stk) = <<Sw(u.dst, u.src1, u.imm)>>
    BY <1>5 DEF convert
  <2>4. Dashie(c, u) = Put(c, Wrap(c.reg[u.dst] + u.imm), c.reg[u.src1])
    BY <1>5 DEF Dashie
  <2> QED BY <1>1, <2>1, <2>2, <2>3, <2>4, SwDoes
<1>6. CASE u.type = "wstk"
  <2>1. "sp" \in Registers \ {"t0"} /\ u.src1 \in Registers \ {"t0"} /\ u.imm \in Locals
    BY <1>1, <1>6, UnitParts, PoolIs
  <2>2. Storable(c, Wrap(c.reg["sp"] + u.imm)) /\ u.imm \in Word
    BY <1>3, <2>1, OwnedStorable
  <2>3. convert(u, stk) = <<Sw("sp", u.src1, u.imm)>>
    BY <1>6 DEF convert
  <2>4. Dashie(c, u) = Put(c, Wrap(c.reg["sp"] + u.imm), c.reg[u.src1])
    BY <1>6 DEF Dashie
  <2> QED BY <1>1, <2>1, <2>2, <2>3, <2>4, SwDoes
<1>7. CASE u.type = "rstk"
  <2>1. "sp" \in Registers \ {"t0"} /\ u.dst \in Registers /\ u.imm \in Locals
    BY <1>1, <1>7, UnitParts, PoolIs
  <2>2. Wrap(c.reg["sp"] + u.imm) \in Address /\ u.imm \in Word
    BY <1>3, <2>1, OwnedStorable
  <2>3. convert(u, stk) = <<Lw(u.dst, "sp", u.imm)>>
    BY <1>7 DEF convert
  <2>4. Dashie(c, u) = Set(c, u.dst, c.mem[Wrap(c.reg["sp"] + u.imm)])
    BY <1>7 DEF Dashie
  <2> QED BY <1>1, <2>1, <2>2, <2>3, <2>4, LwDoes
<1>8. CASE u.type = "ptrstk"
  <2>1. "sp" \in Registers \ {"t0"} /\ u.dst \in Registers /\ u.imm \in Word
    BY <1>1, <1>3, <1>8, UnitParts, PoolIs
  <2>2. convert(u, stk) = <<Addi(u.dst, "sp", u.imm)>>
    BY <1>8 DEF convert
  <2>3. Dashie(c, u) = Set(c, u.dst, Wrap(c.reg["sp"] + u.imm))
    BY <1>8 DEF Dashie
  <2> QED BY <1>1, <2>1, <2>2, <2>3, AddiDoes
<1>9. CASE u.type = "rglo"
  <2> DEFINE g == GloAddr[u.id]
             x == I("la", u.dst, "x0", "x0", g)
             y == Lw(u.dst, u.dst, 0)
             c1 == Set(c, u.dst, g)
             v == c.mem[g]
  <2>1. u.dst \in Registers \ {"t0"} /\ u.dst \in Registers /\ g \in Address /\ g \in Word
    BY <1>1, <1>9, UnitParts, PoolIs, StkIs, Words
  <2>2. convert(u, stk) = <<x, y>>
    BY <1>9 DEF convert
  <2>3. Dashie(c, u) = Set(c, u.dst, v)
    BY <1>9 DEF Dashie
  <2> HIDE DEF g
  <2>4. x \in Instr /\ x.code = "la" /\ x.reg1 = u.dst /\ x.imm = g /\ Does(ra, c, <<x>>, Do(c, x))
    BY <1>1, <2>1, PlainDoes
  <2>5. y \in Instr
    BY <1>2, <2>1, AddiMade, Words
  <2>6. v \in Word
    BY <1>1, <2>1, CpuIs
  <2>7. c1 \in Cpu /\ c1.reg[u.dst] = g /\ c1.mem = c.mem
    BY <1>1, <2>1, SetIs
  <2>8. Set(c1, u.dst, v) = Set(c, u.dst, v)
    BY <1>1, <2>1, <2>6, SetTwice
  <2> HIDE DEF x, y, c1, v
  <2>9. Do(c, x) = c1
    BY <1>1, <2>4, DoOne DEF c1
  <2>10. ASSUME NEW e \in Cpu, Same(e, c1)
         PROVE  Does(ra, e, <<y>>, Set(c, u.dst, v))
    <3>1. e.reg[u.dst] = g /\ e.mem = c.mem
      BY <2>1, <2>7, <2>10 DEF Same
    <3>2. Wrap(e.reg[u.dst] + 0) = g
      BY <2>1, <3>1, Words
    <3>3. Does(ra, e, <<y>>, Set(e, u.dst, v))
      BY <1>2, <2>1, <3>1, <3>2, LwDoes DEF y, v
    <3>4. Same(Set(e, u.dst, v), Set(c1, u.dst, v))
      BY <2>1, <2>6, <2>7, <2>10, SameSet
    <3> QED BY <2>8, <3>3, <3>4, DoesSame
  <2>11. <<x>> \in Seq(Instr) /\ <<y>> \in Seq(Instr) /\ <<x>> \o <<y>> = <<x, y>>
    BY <2>4, <2>5, Pair
  <2>12. Does(ra, c, <<x>> \o <<y>>, Set(c, u.dst, v))
    BY <2>4, <2>9, <2>10, <2>11, DoesThen
  <2> QED BY <2>2, <2>3, <2>11, <2>12
<1> QED BY <1>4, <1>5, <1>6, <1>7, <1>8, <1>9

(* What Dashie's side of the processor shows.                              *)
Like(c, d) ==
    /\ \A r \in Pool \cup {"x0", "sp"} : c.reg[r] = d.reg[r]
    /\ c.mem = d.mem /\ c.taken = d.taken

\* A call: ra and t0 are lost, which Dashie does not show.
LEMMA UnitDoesCall ==
    ASSUME NEW ra, NEW c, NEW u, Ready(c, u), u.type = "call"
    PROVE  \E e \in Cpu : Runs(ra, c, Lower(convert(u, stk)), e) /\ Like(e, Dashie(c, u))
<1> DEFINE x == I("call", "ra", "x0", "x0", u.imm)
           h == u.imm
<1>1. c \in Cpu /\ h \in Word /\ "ra" \in Registers
  BY UnitParts, RiscvAssumption, Scratch DEF Ready
<1>2. convert(u, stk) = <<x>> /\ Dashie(c, u) = Back(c, h, CallerSaved)
  BY DEF convert, Dashie
<1> HIDE DEF h
<1>3. x \in Instr /\ x.code = "call" /\ x.imm = h
  <2>1. /\ "call" \in Codes /\ h \in Int
        /\ "x0" \in Registers /\ "x0" \in Registers \cup {"imm"}
    BY <1>1, Scratch, Words DEF Codes
  <2> QED BY <1>1, <2>1, Made DEF h
<1> HIDE DEF x
<1>4. Fine(ra, c, x)
  BY <1>1, <1>3, FineEasy DEF Encoded, RRR, RRI
<1>5. Do(c, x) = Back(c, h, CallerSaved \cup {"t0", "ra"})
  BY <1>1, <1>3, DoOne
<1>6. Lower(<<x>>) = <<x>> /\ Runs(ra, c, <<x>>, Do(c, x)) /\ Do(c, x) \in Cpu
  BY <1>1, <1>4, LowerKeeps, RunsFine DEF Fine
<1>7. Like(Do(c, x), Back(c, h, CallerSaved))
  <2>1. ASSUME NEW r \in Pool \cup {"x0", "sp"}
        PROVE  Do(c, x).reg[r] = Back(c, h, CallerSaved).reg[r]
    <3>1. r \in Registers /\ r \notin {"t0", "ra"}
      BY PoolIs
    <3> QED BY <1>1, <1>5, <3>1, BackIs
  <2>2. \A rs : Back(c, h, rs).mem = c.mem /\ Back(c, h, rs).taken = c.taken
    BY <1>1, BackIs
  <2> QED BY <1>5, <2>1, <2>2 DEF Like
<1> QED BY <1>2, <1>6, <1>7

\* However it is lowered, a unit does what Dashie says.
LEMMA UnitDoes ==
    ASSUME NEW ra, NEW c, NEW u, Ready(c, u)
    PROVE  \E e \in Cpu : Runs(ra, c, Lower(convert(u, stk)), e) /\ Like(e, Dashie(c, u))
<1>1. CASE u.type = "call"
  BY <1>1, UnitDoesCall
<1>2. CASE u.type # "call"
  <2>1. Does(ra, c, convert(u, stk), Dashie(c, u))
    <3>1. u \in Unit
      BY DEF Ready
    <3> QED BY <1>2, <3>1, UnitParts, UnitDoesRegisters, UnitDoesMemory
  <2>2. PICK e \in Cpu : Runs(ra, c, Lower(convert(u, stk)), e) /\ Same(e, Dashie(c, u))
    BY <2>1 DEF Does
  <2>3. Like(e, Dashie(c, u))
    BY <2>2, PoolIs DEF Same, Like
  <2> QED BY <2>2, <2>3
<1> QED BY <1>1, <1>2

-----------------------------------------------------------------------------
(* Processors that agree go on agreeing.                                   *)

\* Dashie's registers, the locals and the globals, and the branch.
Agree(c, m) ==
    /\ \A r \in Pool \cup {"x0", "sp"} : c.reg[r] = m.reg[r]
    /\ \A a \in Owned : c.mem[a] = m.mem[a]
    /\ c.taken = m.taken

\* c and m take the same step to c1 and m1: a register, a word of memory, the
\* branch or a call.
Alter(c, c1, m, m1) ==
    \/ \E r \in Pool, v \in Word : c1 = Set(c, r, v) /\ m1 = Set(m, r, v)
    \/ \E a \in Owned, v \in Word : c1 = Put(c, a, v) /\ m1 = Put(m, a, v)
    \/ \E b \in BOOLEAN : c1 = [c EXCEPT !.taken = b] /\ m1 = [m EXCEPT !.taken = b]
    \/ \E h \in Word : c1 = Back(c, h, CallerSaved) /\ m1 = Back(m, h, CallerSaved)

\* A unit does the same to processors that agree.
LEMMA UnitAlters ==
    ASSUME NEW c \in Cpu, NEW m \in Cpu, NEW u, Ready(m, u), Agree(c, m)
    PROVE  Alter(c, Dashie(c, u), m, Dashie(m, u))
<1>1. u \in Unit /\ frame \in Frames /\ entry.reg["sp"] = CallerSp /\ m.reg["sp"] = CallerSp - stk
  BY DEF Ready
<1>2. /\ \A r \in Pool \cup {"x0", "sp"} : c.reg[r] = m.reg[r] /\ m.reg[r] \in Word
      /\ \A a \in Owned : c.mem[a] = m.mem[a] /\ m.mem[a] \in Word
      /\ Imm \subseteq Word /\ Begin \subseteq Word
  BY <1>1, PoolIs, OwnedIs, CpuIs, RiscvAssumption DEF Agree
<1>3. \A o \in Locals : Wrap(m.reg["sp"] + o) \in Owned
  BY <1>1, OwnedIs
<1>4. ASSUME NEW r \in Pool, NEW v \in Word, Dashie(c, u) = Set(c, r, v), Dashie(m, u) = Set(m, r, v)
      PROVE  Alter(c, Dashie(c, u), m, Dashie(m, u))
  BY <1>4 DEF Alter
<1>5. ASSUME NEW a \in Owned, NEW v \in Word, Dashie(c, u) = Put(c, a, v), Dashie(m, u) = Put(m, a, v)
      PROVE  Alter(c, Dashie(c, u), m, Dashie(m, u))
  BY <1>5 DEF Alter
<1>6. CASE u.type = "rbr"
  <2>1. u.op \in Ops /\ u.dst \in Pool /\ u.src1 \in Pool /\ u.src2 \in Pool
    BY <1>1, <1>6, UnitParts
  <2>2. Meaning(u.op, m.reg[u.src1], m.reg[u.src2]) \in Word
    BY <1>2, <2>1, MeaningWord
  <2>3. \A n : Dashie(n, u) = Set(n, u.dst, Meaning(u.op, n.reg[u.src1], n.reg[u.src2]))
    BY <1>6 DEF Dashie
  <2>4. c.reg[u.src1] = m.reg[u.src1] /\ c.reg[u.src2] = m.reg[u.src2]
    BY <1>2, <2>1
  <2> QED BY <1>4, <2>1, <2>2, <2>3, <2>4
<1>7. CASE u.type = "rbi"
  <2>1. u.op \in Ops /\ u.dst \in Pool /\ u.src1 \in Pool /\ u.imm \in Word
    BY <1>1, <1>2, <1>7, UnitParts
  <2>2. Meaning(u.op, m.reg[u.src1], u.imm) \in Word
    BY <1>2, <2>1, MeaningWord
  <2>3. \A n : Dashie(n, u) = Set(n, u.dst, Meaning(u.op, n.reg[u.src1], u.imm))
    BY <1>7 DEF Dashie
  <2>4. c.reg[u.src1] = m.reg[u.src1]
    BY <1>2, <2>1
  <2> QED BY <1>4, <2>1, <2>2, <2>3, <2>4
<1>8. CASE u.type = "ur"
  <2>1. u.op \in {"+", "-", "!"} /\ u.dst \in Pool /\ u.src1 \in Pool
    BY <1>1, <1>8, UnitParts
  <2>2. MeaningUnary(u.op, m.reg[u.src1]) \in Word
    BY <1>2, <2>1, Words DEF MeaningUnary, Bool
  <2>3. \A n : Dashie(n, u) = Set(n, u.dst, MeaningUnary(u.op, n.reg[u.src1]))
    BY <1>8 DEF Dashie
  <2>4. c.reg[u.src1] = m.reg[u.src1]
    BY <1>2, <2>1
  <2> QED BY <1>4, <2>1, <2>2, <2>3, <2>4
<1>9. CASE u.type = "cr"
  <2>1. u.dst \in Pool /\ u.src1 \in Pool \cup {"x0"}
    BY <1>1, <1>9, UnitParts
  <2>2. \A n : Dashie(n, u) = Set(n, u.dst, n.reg[u.src1])
    BY <1>9 DEF Dashie
  <2>3. c.reg[u.src1] = m.reg[u.src1] /\ m.reg[u.src1] \in Word
    BY <1>2, <2>1
  <2> QED BY <1>4, <2>1, <2>2, <2>3
<1>10. CASE u.type = "ci"
  <2>1. u.dst \in Pool /\ u.imm \in Word
    BY <1>1, <1>2, <1>10, UnitParts
  <2>2. \A n : Dashie(n, u) = Set(n, u.dst, u.imm)
    BY <1>10 DEF Dashie
  <2> QED BY <1>4, <2>1, <2>2
<1>11. CASE u.type = "ar"
  <2>1. u.dst \in Pool /\ u.src1 \in Pool
    BY <1>1, <1>11, UnitParts
  <2>2. \A n : Dashie(n, u) = Set(n, u.dst, n.mem[Wrap(n.reg[u.src1] + u.imm)])
    BY <1>11 DEF Dashie
  <2>3. c.reg[u.src1] = m.reg[u.src1] /\ Wrap(m.reg[u.src1] + u.imm) \in Owned
    BY <1>2, <1>11, <2>1 DEF Ready
  <2> QED BY <1>2, <1>4, <2>1, <2>2, <2>3
<1>12. CASE u.type = "aw"
  <2>1. u.dst \in Pool /\ u.src1 \in Pool
    BY <1>1, <1>12, UnitParts
  <2>2. \A n : Dashie(n, u) = Put(n, Wrap(n.reg[u.dst] + u.imm), n.reg[u.src1])
    BY <1>12 DEF Dashie
  <2>3. c.reg[u.dst] = m.reg[u.dst] /\ Wrap(m.reg[u.dst] + u.imm) \in Owned
    BY <1>2, <1>12, <2>1 DEF Ready
  <2>4. c.reg[u.src1] = m.reg[u.src1] /\ m.reg[u.src1] \in Word
    BY <1>2, <2>1
  <2> QED BY <1>5, <2>2, <2>3, <2>4
<1>13. CASE u.type = "jc"
  <2>1. u.src1 \in Pool
    BY <1>1, <1>13, UnitParts
  <2>2. \A n : Dashie(n, u) = [n EXCEPT !.taken = n.reg[u.src1] = 0]
    BY <1>13 DEF Dashie
  <2>3. c.reg[u.src1] = m.reg[u.src1] /\ (m.reg[u.src1] = 0) \in BOOLEAN
    BY <1>2, <2>1
  <2>4. /\ Dashie(c, u) = [c EXCEPT !.taken = m.reg[u.src1] = 0]
        /\ Dashie(m, u) = [m EXCEPT !.taken = m.reg[u.src1] = 0]
    BY <2>2, <2>3
  <2> QED BY <2>3, <2>4, Zenon DEF Alter
<1>14. CASE u.type = "call"
  <2>1. u.imm \in Word
    BY <1>1, <1>2, <1>14, UnitParts
  <2>2. \A n : Dashie(n, u) = Back(n, u.imm, CallerSaved)
    BY <1>14 DEF Dashie
  <2> QED BY <2>1, <2>2 DEF Alter
<1>15. CASE u.type \in {"wstk", "rstk", "ptrstk"}
  <2> DEFINE at == Wrap(m.reg["sp"] + u.imm)
  <2>1. c.reg["sp"] = m.reg["sp"] /\ at \in Owned /\ at \in Word
    <3>1. u.imm \in Locals
      BY <1>1, <1>15, UnitParts
    <3> QED BY <1>1, <1>2, <1>3, <3>1, OwnedIs, Words
  <2>2. CASE u.type = "wstk"
    <3>1. \A n : Dashie(n, u) = Put(n, Wrap(n.reg["sp"] + u.imm), n.reg[u.src1])
      BY <2>2 DEF Dashie
    <3>2. c.reg[u.src1] = m.reg[u.src1] /\ m.reg[u.src1] \in Word
      BY <1>1, <1>2, <2>2, UnitParts
    <3> QED BY <1>5, <2>1, <3>1, <3>2
  <2>3. CASE u.type = "rstk"
    <3>1. \A n : Dashie(n, u) = Set(n, u.dst, n.mem[Wrap(n.reg["sp"] + u.imm)])
      BY <2>3 DEF Dashie
    <3>2. u.dst \in Pool /\ c.mem[at] = m.mem[at] /\ m.mem[at] \in Word
      BY <1>1, <1>2, <2>1, <2>3, UnitParts
    <3> QED BY <1>4, <2>1, <3>1, <3>2
  <2>4. CASE u.type = "ptrstk"
    <3>1. \A n : Dashie(n, u) = Set(n, u.dst, Wrap(n.reg["sp"] + u.imm))
      BY <2>4 DEF Dashie
    <3>2. u.dst \in Pool
      BY <1>1, <2>4, UnitParts
    <3> QED BY <1>4, <2>1, <3>1, <3>2
  <2> QED BY <1>15, <2>2, <2>3, <2>4
<1>16. CASE u.type \in {"ptrglo", "rglo"}
  <2> DEFINE at == GloAddr[u.id]
  <2>1. u.dst \in Pool /\ at \in Owned /\ at \in Word
    BY <1>1, <1>16, UnitParts, OwnedIs, Words
  <2>2. CASE u.type = "ptrglo"
    <3>1. \A n : Dashie(n, u) = Set(n, u.dst, at)
      BY <2>2 DEF Dashie
    <3> QED BY <1>4, <2>1, <3>1
  <2>3. CASE u.type = "rglo"
    <3>1. \A n : Dashie(n, u) = Set(n, u.dst, n.mem[at])
      BY <2>3 DEF Dashie
    <3>2. c.mem[at] = m.mem[at] /\ m.mem[at] \in Word
      BY <1>2, <2>1
    <3> QED BY <1>4, <2>1, <3>1, <3>2
  <2> QED BY <1>16, <2>2, <2>3
<1> QED BY <1>1, <1>6, <1>7, <1>8, <1>9, <1>10, <1>11, <1>12, <1>13, <1>14, <1>15, <1>16, UnitParts

\* Having done the same they still agree, and only what the source speaks of
\* has changed in memory.
LEMMA AlterAgrees ==
    ASSUME NEW c \in Cpu, NEW m \in Cpu, NEW c1, NEW m1, Alter(c, c1, m, m1), Agree(c, m),
           frame \in Frames, entry.reg["sp"] = CallerSp
    PROVE  /\ c1 \in Cpu /\ m1 \in Cpu /\ Agree(c1, m1)
           /\ \A r \in {"x0", "sp"} : m1.reg[r] = m.reg[r]
           /\ \A a \in Address \ Owned : c1.mem[a] = c.mem[a]
<1>1. /\ Pool \subseteq Registers /\ Pool \cup {"x0", "sp"} \subseteq Registers
      /\ {"x0", "sp"} \cap Pool = {} /\ Owned \subseteq Address
      /\ {"x0", "sp"} \cap CallerSaved = {}
  BY PoolIs, OwnedIs, RiscvAssumption
<1>2. /\ \A r \in Pool \cup {"x0", "sp"} : c.reg[r] = m.reg[r]
      /\ \A a \in Owned : c.mem[a] = m.mem[a]
      /\ c.taken = m.taken
  BY DEF Agree
<1>3. CASE \E r \in Pool, v \in Word : c1 = Set(c, r, v) /\ m1 = Set(m, r, v)
  <2>1. PICK r \in Pool, v \in Word : c1 = Set(c, r, v) /\ m1 = Set(m, r, v)
    BY <1>3
  <2>2. r \in Registers
    BY <1>1
  <2>3. /\ c1 \in Cpu /\ c1.reg[r] = v /\ \A q \in Registers \ {r} : c1.reg[q] = c.reg[q]
        /\ c1.mem = c.mem /\ c1.taken = c.taken
    BY <2>1, <2>2, SetIs
  <2>4. /\ m1 \in Cpu /\ m1.reg[r] = v /\ \A q \in Registers \ {r} : m1.reg[q] = m.reg[q]
        /\ m1.mem = m.mem /\ m1.taken = m.taken
    BY <2>1, <2>2, SetIs
  <2>5. \A q \in Pool \cup {"x0", "sp"} : c1.reg[q] = m1.reg[q]
    <3> TAKE q \in Pool \cup {"x0", "sp"}
    <3>1. CASE q = r
      BY <2>3, <2>4, <3>1
    <3>2. CASE q # r
      <4>1. q \in Registers \ {r}
        BY <1>1, <3>2
      <4> QED BY <1>2, <2>3, <2>4, <4>1
    <3> QED BY <3>1, <3>2
  <2>6. \A q \in {"x0", "sp"} : m1.reg[q] = m.reg[q]
    BY <1>1, <2>4
  <2> QED BY <1>2, <2>3, <2>4, <2>5, <2>6 DEF Agree
<1>4. CASE \E a \in Owned, v \in Word : c1 = Put(c, a, v) /\ m1 = Put(m, a, v)
  <2>1. PICK a \in Owned, v \in Word : c1 = Put(c, a, v) /\ m1 = Put(m, a, v)
    BY <1>4
  <2>2. a \in Address
    BY <1>1
  <2>3. /\ c1 \in Cpu /\ c1.mem[a] = v /\ \A b \in Address \ {a} : c1.mem[b] = c.mem[b]
        /\ c1.reg = c.reg /\ c1.taken = c.taken
    BY <2>1, <2>2, PutIs
  <2>4. /\ m1 \in Cpu /\ m1.mem[a] = v /\ \A b \in Address \ {a} : m1.mem[b] = m.mem[b]
        /\ m1.reg = m.reg /\ m1.taken = m.taken
    BY <2>1, <2>2, PutIs
  <2>5. \A b \in Owned : c1.mem[b] = m1.mem[b]
    <3> TAKE b \in Owned
    <3>1. CASE b = a
      BY <2>3, <2>4, <3>1
    <3>2. CASE b # a
      <4>1. b \in Address \ {a}
        BY <1>1, <3>2
      <4> QED BY <1>2, <2>3, <2>4, <4>1
    <3> QED BY <3>1, <3>2
  <2>6. \A b \in Address \ Owned : c1.mem[b] = c.mem[b]
    BY <2>3
  <2> QED BY <1>2, <2>3, <2>4, <2>5, <2>6 DEF Agree
<1>5. CASE \E b \in BOOLEAN : c1 = [c EXCEPT !.taken = b] /\ m1 = [m EXCEPT !.taken = b]
  <2>1. PICK b \in BOOLEAN : c1 = [c EXCEPT !.taken = b] /\ m1 = [m EXCEPT !.taken = b]
    BY <1>5
  <2>2. /\ c1 \in Cpu /\ c1.reg = c.reg /\ c1.mem = c.mem /\ c1.taken = b
        /\ m1 \in Cpu /\ m1.reg = m.reg /\ m1.mem = m.mem /\ m1.taken = b
    BY <2>1 DEF Cpu
  <2> QED BY <1>2, <2>2 DEF Agree
<1>6. CASE \E h \in Word : c1 = Back(c, h, CallerSaved) /\ m1 = Back(m, h, CallerSaved)
  <2>1. PICK h \in Word : c1 = Back(c, h, CallerSaved) /\ m1 = Back(m, h, CallerSaved)
    BY <1>6
  <2>2. /\ c1 \in Cpu /\ c1.mem = c.mem /\ c1.taken = c.taken
        /\ \A r \in Registers : c1.reg[r] = IF r \in CallerSaved THEN h ELSE c.reg[r]
    BY <2>1, BackIs
  <2>3. /\ m1 \in Cpu /\ m1.mem = m.mem /\ m1.taken = m.taken
        /\ \A r \in Registers : m1.reg[r] = IF r \in CallerSaved THEN h ELSE m.reg[r]
    BY <2>1, BackIs
  <2>4. \A r \in Pool \cup {"x0", "sp"} : c1.reg[r] = m1.reg[r]
    BY <1>1, <1>2, <2>2, <2>3
  <2>5. \A r \in {"x0", "sp"} : m1.reg[r] = m.reg[r]
    BY <1>1, <2>3
  <2> QED BY <1>2, <2>2, <2>3, <2>4, <2>5 DEF Agree
<1> QED BY <1>3, <1>4, <1>5, <1>6 DEF Alter

\* The only instruction that stores is sw, and it stores in the function's part
\* of the stack or in a global.
LEMMA FineStores ==
    ASSUME NEW ra, NEW c \in Cpu, NEW x, Fine(ra, c, x), NEW a \in Address,
           Do(c, x).mem[a] # c.mem[a]
    PROVE  /\ a < CallerSp /\ Do(c, x).reg = c.reg
           /\ a >= c.reg["sp"] \/ a \in {GloAddr[g] : g \in Global}
<1>1. x \in Instr /\ x.code \in Codes
  BY Parts DEF Fine
<1>2. x.code = "sw"
  <2>1. /\ \A r, v : Set(c, r, v).mem = c.mem
        /\ \A h, rs : Back(c, h, rs).mem = c.mem
        /\ \A b : [c EXCEPT !.taken = b].mem = c.mem
    BY DEF Set, Back, Cpu
  <2>2. CASE x.code \in RRR
    BY <2>1, <2>2, DoRRR DEF Fine, Encoded
  <2>3. CASE x.code \in Codes \ (RRR \cup {"sw"})
    <3>1. x.code \in {"addi", "slti", "mv", "neg", "seqz", "snez", "li", "la", "lw", "beq", "call", "ret"}
      BY <2>3 DEF Codes, RRI
    <3>2. CASE x.code \in {"addi", "slti", "mv", "neg", "seqz", "snez", "li", "la", "lw"}
      BY <1>1, <2>1, <3>2, DoOne
    <3>3. CASE x.code = "call"
      BY <1>1, <2>1, <3>3, DoOne
    <3>4. CASE x.code = "beq"
      <4>1. Do(c, x) = [c EXCEPT !.taken = c.reg[x.reg1] = c.reg[x.reg2]]
        BY <1>1, <3>4, DoOne
      <4> QED BY <4>1 DEF Cpu
    <3>5. CASE x.code = "ret"
      BY <1>1, <3>5, DoOne
    <3> QED BY <3>1, <3>2, <3>3, <3>4, <3>5
  <2> QED BY <1>1, <2>2, <2>3
<1> DEFINE at == Wrap(c.reg[x.reg1] + x.imm)
           v == c.reg[x.reg2]
<1>3. Do(c, x) = Put(c, at, v) /\ v \in Word
  BY <1>1, <1>2, DoOne, Parts, CpuIs
<1>4. at \in Address /\ at < CallerSp /\ (at >= c.reg["sp"] \/ at \in {GloAddr[g] : g \in Global})
  BY <1>2 DEF Fine
<1> HIDE DEF at, v
<1>5. a = at /\ Do(c, x).reg = c.reg
  BY <1>3, <1>4, PutIs
<1> QED BY <1>4, <1>5

-----------------------------------------------------------------------------
(* The inductive invariant.                                                *)
(*                                                                         *)
(* The instructions that have not run take the processor to a state d that *)
(* agrees with Dashie and, in the body, still has the return address in    *)
(* its slot of the frame.                                                  *)

\* The slot of the return address.
Saved(d) == d.mem[CallerSp - 4] = entry.reg["ra"]

IInv ==
    /\ TypeOK
    /\ want \in Cpu /\ want.reg["x0"] = 0
    /\ entry \in Cpu /\ entry.reg["sp"] = CallerSp
    /\ phase \in {"caller", "body", "returned"}
    /\ \A a \in Address : a >= CallerSp => cpu.mem[a] = entry.mem[a]
    /\ phase = "caller" => todo = <<>> /\ cpu = entry /\ want = entry
    /\ phase = "body" => want.reg["sp"] = CallerSp - stk
    /\ phase = "returned" => want.reg["sp"] = CallerSp
    /\ \E d \in Cpu :
         /\ Runs(entry.reg["ra"], cpu, todo, d) /\ Agree(d, want)
         /\ phase = "body" => Saved(d)

\* With nothing left to run the processor agrees with Dashie.
LEMMA AtRest ==
    ASSUME IInv, todo = <<>>
    PROVE  cpu \in Cpu /\ Agree(cpu, want) /\ (phase = "body" => Saved(cpu))
<1>1. PICK d \in Cpu : /\ Runs(entry.reg["ra"], cpu, todo, d) /\ Agree(d, want)
                       /\ phase = "body" => Saved(d)
  BY DEF IInv
<1>2. cpu = d
  BY <1>1, RunsEnd
<1> QED BY <1>1, <1>2

\* A function that has not been entered.
LEMMA InitIInv == Init => IInv
<1> SUFFICES ASSUME Init PROVE IInv
  OBVIOUS
<1>1. CallerSp \in Word /\ 0 \in Word /\ Begin \subseteq Word /\ Registers = Pool \cup {"x0", "t0", "sp", "ra"}
  BY StackAssumption, RiscvAssumption, Words DEF Address, Registers
<1>2. PICK held \in [Pool -> Begin], left \in Begin, ra \in Begin :
         cpu = [reg   |-> [r \in Pool \cup {"x0", "t0", "sp", "ra"} |->
                             CASE r \in Pool -> held[r]
                               [] r = "x0"   -> 0
                               [] r = "t0"   -> left
                               [] r = "sp"   -> CallerSp
                               [] r = "ra"   -> ra],
                mem   |-> [a \in Address |-> left],
                taken |-> FALSE]
  BY DEF Init
<1> DEFINE f == [r \in Registers |-> CASE r \in Pool -> held[r]
                                       [] r = "x0"   -> 0
                                       [] r = "t0"   -> left
                                       [] r = "sp"   -> CallerSp
                                       [] r = "ra"   -> ra]
           g == [a \in Address |-> left]
<1>3. f \in [Registers -> Word] /\ f["x0"] = 0 /\ f["sp"] = CallerSp
  <2>1. ASSUME NEW r \in Registers PROVE f[r] \in Word
    <3>1. CASE r \in Pool
      BY <1>1, <3>1, PoolIs
    <3>2. CASE r \notin Pool
      BY <1>1, <3>2
    <3> QED BY <3>1, <3>2
  <2>2. "x0" \notin Pool /\ "sp" \notin Pool
    BY PoolIs
  <2> QED BY <1>1, <2>1, <2>2
<1>4. g \in [Address -> Word]
  BY <1>1
<1>5. cpu = [reg |-> f, mem |-> g, taken |-> FALSE]
  BY <1>1, <1>2
<1> HIDE DEF f, g
<1>6. cpu \in Cpu /\ cpu.reg["x0"] = 0 /\ cpu.reg["sp"] = CallerSp
  BY <1>3, <1>4, <1>5 DEF Cpu
<1>7. want = cpu /\ entry = cpu /\ todo = <<>> /\ frame \in Frames /\ phase = "caller" /\ units = 0
  BY DEF Init
<1>8. TypeOK
  BY <1>6, <1>7, RiscvAssumption DEF TypeOK, Cpu, Registers
<1>9. Runs(entry.reg["ra"], cpu, todo, cpu) /\ Agree(cpu, want)
  BY <1>6, <1>7, RunsNone DEF Agree
<1> QED BY <1>6, <1>7, <1>8, <1>9 DEF IInv

\* Entering: the frame is open and the return address in its slot, which is
\* nobody's.
LEMMA EnterIInv == IInv /\ Enter => IInv'
<1> SUFFICES ASSUME IInv, Enter PROVE IInv'
  OBVIOUS
<1> DEFINE ra == entry.reg["ra"]
           c1 == Set(cpu, "sp", CallerSp - stk)
<1>1. /\ cpu \in Cpu /\ want = cpu /\ entry = cpu /\ cpu.reg["sp"] = CallerSp /\ ra \in Word
      /\ cpu.reg["x0"] = 0 /\ frame \in Frames /\ TypeOK
  BY PoolIs, CpuIs DEF IInv, Enter, TypeOK
<1>2. /\ phase' = "body" /\ todo' = Lower(Prologue(stk))
      /\ want' = Set(want, "sp", Wrap(want.reg["sp"] - stk))
      /\ cpu' = cpu /\ entry' = entry /\ frame' = frame /\ units' = units
  BY DEF Enter
<1>3. stk' = stk /\ Owned' = Owned
  BY <1>2 DEF stk, Owned, Locals
<1>4. want' = c1
  <2>1. CallerSp - stk \in Word
    BY <1>1, FrameNumbers
  <2>2. Wrap(CallerSp - stk) = CallerSp - stk
    BY <2>1, Words
  <2> QED BY <1>1, <1>2, <2>2
<1>5. /\ c1 \in Cpu /\ c1.reg["sp"] = CallerSp - stk /\ c1.reg["x0"] = 0
  <2>1. "sp" \in Registers /\ "x0" \in Registers \ {"sp"} /\ CallerSp - stk \in Word
    BY <1>1, PoolIs, FrameNumbers
  <2>2. c1.reg["x0"] = cpu.reg["x0"]
    BY <1>1, <2>1, SetIs
  <2> QED BY <1>1, <2>1, <2>2, SetIs
<1>6. PICK e \in Cpu : Runs(ra, cpu, todo', e) /\ Same(e, Put(c1, CallerSp - 4, ra))
  <2>1. Does(ra, cpu, Prologue(stk), Put(c1, CallerSp - 4, ra))
    BY <1>1, PrologueDoes
  <2> QED BY <1>2, <2>1 DEF Does
<1> HIDE DEF c1
<1>7. CallerSp - 4 \in Address /\ \A a \in Owned : a \in Address \ {CallerSp - 4}
  <2>1. entry.reg["sp"] = CallerSp
    BY <1>1
  <2> QED BY <1>1, <2>1, OwnedIs
<1>8. /\ Put(c1, CallerSp - 4, ra).reg = c1.reg /\ Put(c1, CallerSp - 4, ra).taken = c1.taken
      /\ Put(c1, CallerSp - 4, ra).mem[CallerSp - 4] = ra
      /\ \A a \in Owned : Put(c1, CallerSp - 4, ra).mem[a] = c1.mem[a]
  BY <1>1, <1>5, <1>7, PutIs
<1>9. Agree(e, c1) /\ e.mem[CallerSp - 4] = ra
  BY <1>6, <1>8, PoolIs DEF Agree, Same
<1>10. Agree(e, want)'
  BY <1>3, <1>4, <1>9 DEF Agree
<1>11. TypeOK'
  BY <1>1, <1>2 DEF TypeOK
<1>12. \E d \in Cpu : /\ Runs(ra, cpu, todo', d) /\ Agree(d, want)'
                      /\ d.mem[CallerSp - 4] = ra
  BY <1>6, <1>9, <1>10
<1> QED BY <1>1, <1>2, <1>3, <1>4, <1>5, <1>11, <1>12 DEF IInv, Saved

\* An instruction: it is fine, and the rest goes on to the same state.
LEMMA StepIInv == IInv /\ Step => IInv'
<1> SUFFICES ASSUME IInv, Step PROVE IInv'
  OBVIOUS
<1> DEFINE ra == entry.reg["ra"]
           x == Head(todo)
<1>1. /\ cpu' = Do(cpu, x) /\ todo' = Tail(todo) /\ todo # <<>> /\ want' = want
      /\ entry' = entry /\ frame' = frame /\ phase' = phase /\ units' = units
  BY DEF Step
<1>2. stk' = stk /\ Owned' = Owned
  BY <1>1 DEF stk, Owned, Locals
<1>3. PICK d \in Cpu : Runs(ra, cpu, todo, d) /\ Agree(d, want) /\ (phase = "body" => Saved(d))
  BY DEF IInv
<1>4. cpu \in Cpu /\ Fine(ra, cpu, x) /\ cpu' \in Cpu /\ Runs(ra, cpu', todo', d)
  BY <1>1, <1>3, RunsStep
<1>5. TypeOK'
  BY <1>1, <1>4 DEF IInv, TypeOK, Cpu, Registers
<1>6. \A a \in Address : a >= CallerSp => cpu'.mem[a] = entry.mem[a]
  <2> SUFFICES ASSUME NEW a \in Address, a >= CallerSp PROVE cpu'.mem[a] = cpu.mem[a]
    BY DEF IInv
  <2> HIDE DEF x
  <2>1. a \in Int /\ CallerSp \in Int
    BY Words, StackAssumption DEF Address
  <2>2. cpu'.mem[a] # cpu.mem[a] => a < CallerSp
    BY <1>1, <1>4, FineStores
  <2> QED BY <2>1, <2>2
<1>7. Agree(d, want)' /\ (phase' = "body" => Saved(d)')
  BY <1>1, <1>2, <1>3 DEF Agree, Saved
<1>8. \E g \in Cpu : /\ Runs(ra, cpu', todo', g) /\ Agree(g, want)'
                     /\ phase' = "body" => Saved(g)'
  BY <1>4, <1>7
<1>9. phase # "caller"
  BY <1>1 DEF IInv
<1> QED BY <1>1, <1>2, <1>5, <1>6, <1>8, <1>9 DEF IInv

\* A unit, in the state that the one before left the processor in.
LEMMA IssueIInv == ASSUME IInv, NEW u \in Unit, Issue(u) PROVE IInv'
<1> DEFINE ra == entry.reg["ra"]
           c1 == Dashie(cpu, u)
           m1 == Dashie(want, u)
<1>1. /\ phase = "body" /\ todo = <<>> /\ units < MaxUnits /\ Defined(u)
      /\ todo' = Lower(convert(u, stk)) /\ want' = m1 /\ units' = units + 1
      /\ cpu' = cpu /\ entry' = entry /\ frame' = frame /\ phase' = phase
  BY DEF Issue
<1>2. stk' = stk /\ Owned' = Owned
  BY <1>1 DEF stk, Owned, Locals
<1>3. cpu \in Cpu /\ Agree(cpu, want) /\ Saved(cpu)
  BY <1>1, AtRest
<1>4. /\ want \in Cpu /\ want.reg["x0"] = 0 /\ want.reg["sp"] = CallerSp - stk
      /\ frame \in Frames /\ entry \in Cpu /\ entry.reg["sp"] = CallerSp
      /\ TypeOK /\ units \in 0 .. MaxUnits
      /\ \A a \in Address : a >= CallerSp => cpu.mem[a] = entry.mem[a]
  BY <1>1 DEF IInv, TypeOK
<1>5. Ready(want, u)
  BY <1>1, <1>4 DEF Ready, Defined
<1>6. Ready(cpu, u)
  <2>1. cpu.reg["sp"] = want.reg["sp"] /\ cpu.reg["x0"] = want.reg["x0"]
    BY <1>3 DEF Agree
  <2>2. u.type \in {"ar", "aw"} => u.dst \in Pool /\ u.src1 \in Pool
    BY UnitParts
  <2>3. \A r \in Pool : cpu.reg[r] = want.reg[r]
    BY <1>3 DEF Agree
  <2> QED BY <1>3, <1>5, <2>1, <2>2, <2>3 DEF Ready
<1>7. PICK e \in Cpu : Runs(ra, cpu, Lower(convert(u, stk)), e) /\ Like(e, c1)
  BY <1>6, UnitDoes
<1>8. Alter(cpu, c1, want, m1)
  BY <1>3, <1>4, <1>5, UnitAlters
<1> HIDE DEF c1, m1
<1>9. /\ m1 \in Cpu /\ Agree(c1, m1) /\ \A r \in {"x0", "sp"} : m1.reg[r] = want.reg[r]
      /\ \A a \in Address \ Owned : c1.mem[a] = cpu.mem[a]
  BY <1>3, <1>4, <1>8, AlterAgrees
<1>10. Agree(e, m1)
  BY <1>7, <1>9 DEF Agree, Like
<1>11. Saved(e)
  <2>1. CallerSp - 4 \in Address \ Owned
    BY <1>4, OwnedIs
  <2> QED BY <1>3, <1>7, <1>9, <2>1 DEF Saved, Like
<1>12. Agree(e, want)' /\ Saved(e)'
  BY <1>1, <1>2, <1>10, <1>11 DEF Agree, Saved
<1>13. TypeOK'
  <2>1. units + 1 \in 0 .. MaxUnits
    BY <1>1, <1>4, RiscvAssumption
  <2> QED BY <1>1, <1>4, <2>1 DEF TypeOK
<1>14. \E d \in Cpu : /\ Runs(ra, cpu, todo', d) /\ Agree(d, want)' /\ Saved(d)'
  BY <1>1, <1>7, <1>12
<1> QED BY <1>1, <1>2, <1>4, <1>9, <1>13, <1>14 DEF IInv

\* Returning: the slot still holds the return address.
LEMMA ReturnIInv == IInv /\ Return => IInv'
<1> SUFFICES ASSUME IInv, Return PROVE IInv'
  OBVIOUS
<1> DEFINE ra == entry.reg["ra"]
           c1 == Set(cpu, "ra", ra)
           c2 == Set(c1, "sp", CallerSp)
           m1 == Set(want, "sp", CallerSp)
<1>1. /\ phase = "body" /\ todo = <<>> /\ phase' = "returned"
      /\ todo' = Lower(convert([type |-> "ret"], stk))
      /\ want' = Set(want, "sp", entry.reg["sp"])
      /\ cpu' = cpu /\ entry' = entry /\ frame' = frame /\ units' = units
  BY DEF Return
<1>2. stk' = stk /\ Owned' = Owned
  BY <1>1 DEF stk, Owned, Locals
<1>3. cpu \in Cpu /\ Agree(cpu, want) /\ Saved(cpu)
  BY <1>1, AtRest
<1>4. /\ want \in Cpu /\ want.reg["x0"] = 0 /\ want.reg["sp"] = CallerSp - stk
      /\ frame \in Frames /\ entry \in Cpu /\ entry.reg["sp"] = CallerSp
      /\ TypeOK
      /\ \A a \in Address : a >= CallerSp => cpu.mem[a] = entry.mem[a]
  BY <1>1 DEF IInv, TypeOK
<1>5. /\ "sp" \in Registers /\ "ra" \in Registers /\ "x0" \in Registers \ {"sp", "ra"}
      /\ "sp" # "ra" /\ ra \in Word /\ CallerSp \in Word
      /\ Pool \cup {"x0", "sp"} \subseteq Registers \ {"t0", "ra"}
  BY <1>4, PoolIs, CpuIs, FrameNumbers
<1>6. want' = m1
  BY <1>1, <1>4
<1>7. PICK e \in Cpu : Runs(ra, cpu, todo', e) /\ Same(e, c2)
  <2>1. cpu.reg["sp"] = CallerSp - stk
    BY <1>3, <1>4 DEF Agree
  <2>2. Does(ra, cpu, Ret(stk), c2)
    BY <1>3, <1>4, <1>5, <2>1, RetDoes DEF Saved
  <2>3. convert([type |-> "ret"], stk) = Ret(stk)
    BY DEF convert
  <2> QED BY <1>1, <2>2, <2>3 DEF Does
<1>8. /\ c1 \in Cpu /\ c1.mem = cpu.mem /\ c1.taken = cpu.taken
      /\ \A r \in Registers \ {"ra"} : c1.reg[r] = cpu.reg[r]
  <2>1. "ra" \in Registers /\ ra \in Word
    BY <1>5
  <2> HIDE DEF ra
  <2> QED BY <1>3, <2>1, SetIs
<1> HIDE DEF c1
<1>9. /\ c2 \in Cpu /\ c2.mem = c1.mem /\ c2.taken = c1.taken /\ c2.reg["sp"] = CallerSp
      /\ \A r \in Registers \ {"sp"} : c2.reg[r] = c1.reg[r]
  BY <1>5, <1>8, SetIs
<1>10. /\ m1 \in Cpu /\ m1.mem = want.mem /\ m1.taken = want.taken /\ m1.reg["sp"] = CallerSp
       /\ \A r \in Registers \ {"sp"} : m1.reg[r] = want.reg[r]
  BY <1>4, <1>5, SetIs
<1> HIDE DEF c2, m1
<1>11. Agree(e, m1)
  <2>1. ASSUME NEW r \in Pool \cup {"x0", "sp"} PROVE e.reg[r] = m1.reg[r]
    <3>1. r \in Registers \ {"t0", "ra"} /\ e.reg[r] = c2.reg[r]
      BY <1>5, <1>7 DEF Same
    <3>2. CASE r = "sp"
      BY <1>9, <1>10, <3>1, <3>2
    <3>3. CASE r # "sp"
      <4>1. c2.reg[r] = cpu.reg[r] /\ m1.reg[r] = want.reg[r]
        BY <1>8, <1>9, <1>10, <3>1, <3>3
      <4> QED BY <1>3, <3>1, <4>1 DEF Agree
    <3> QED BY <3>2, <3>3
  <2>2. e.mem = cpu.mem /\ e.taken = cpu.taken
    BY <1>7, <1>8, <1>9 DEF Same
  <2> QED BY <1>3, <1>10, <2>1, <2>2 DEF Agree
<1>12. Agree(e, want)'
  BY <1>1, <1>2, <1>6, <1>11 DEF Agree
<1>13. TypeOK'
  BY <1>1, <1>4 DEF TypeOK
<1>14. \E d \in Cpu : Runs(ra, cpu, todo', d) /\ Agree(d, want)'
  BY <1>7, <1>12
<1>15. m1.reg["x0"] = 0
  BY <1>4, <1>5, <1>10
<1> QED BY <1>1, <1>4, <1>6, <1>10, <1>13, <1>14, <1>15 DEF IInv

\* Nothing happens.
LEMMA StutterIInv == IInv /\ UNCHANGED vars => IInv'
<1> SUFFICES ASSUME IInv, UNCHANGED vars PROVE IInv'
  OBVIOUS
<1>1. /\ cpu' = cpu /\ want' = want /\ todo' = todo /\ entry' = entry /\ frame' = frame
      /\ phase' = phase /\ units' = units
  BY DEF vars
<1>2. stk' = stk /\ Owned' = Owned
  BY <1>1 DEF stk, Owned, Locals
<1>3. \E d \in Cpu : /\ Runs(entry.reg["ra"], cpu, todo, d) /\ Agree(d, want)'
                     /\ phase = "body" => Saved(d)'
  BY <1>1, <1>2 DEF IInv, Agree, Saved
<1>4. TypeOK'
  BY <1>1 DEF IInv, TypeOK
<1> QED BY <1>1, <1>2, <1>3, <1>4 DEF IInv

-----------------------------------------------------------------------------
(* Theorems.                                                               *)

\* The invariant that the others follow from: at every instruction the rest of
\* what convert(), the passes and the frame emitted leads to what Dashie says.
THEOREM Inductive == Spec => []IInv
<1>1. IInv /\ [Next]_vars => IInv'
  <2> SUFFICES ASSUME IInv, [Next]_vars PROVE IInv'
    OBVIOUS
  <2>1. CASE Enter
    BY <2>1, EnterIInv
  <2>2. CASE Step
    BY <2>2, StepIInv
  <2>3. CASE Return
    BY <2>3, ReturnIInv
  <2>4. CASE \E u \in Unit : Issue(u)
    BY <2>4, IssueIInv
  <2>5. CASE UNCHANGED vars
    BY <2>5, StutterIInv
  <2> QED BY <2>1, <2>2, <2>3, <2>4, <2>5 DEF Next
<1> QED BY <1>1, InitIInv, PTL DEF Spec

\* Registers and memory hold words throughout: no instruction that is emitted
\* reads or writes outside the memory or leaves a value that a register cannot
\* hold.
THEOREM TypeCorrect == Spec => []TypeOK
<1>1. IInv => TypeOK
  BY DEF IInv
<1> QED BY <1>1, Inductive, PTL

\* imm_elim, imm_opt and imm_shrink leave no immediate that its field does not
\* hold and none where a register goes, for every operand, offset and frame.
THEOREM ImmediatesFit == Spec => []Encodable
<1>1. IInv => Encodable
  BY RunsEncoded DEF IInv, Encodable, Encoded
<1> QED BY <1>1, Inductive, PTL

\* When the instructions of a unit are through, the registers, the locals, the
\* globals and the branch are as Dashie says, in functions of any length.
THEOREM UnitsAreRight == Spec => []UnitsImplemented
<1>1. IInv => UnitsImplemented
  BY AtRest DEF UnitsImplemented, Agree
<1> QED BY <1>1, Inductive, PTL

\* convert_func(): the function returns to where it was called from, with the
\* caller's stack pointer, and leaves the caller's part of the stack alone.
THEOREM ReturnsRight == Spec => []ReturnsToCaller
<1>1. IInv => ReturnsToCaller
  <2> SUFFICES ASSUME IInv PROVE ReturnsToCaller
    OBVIOUS
  <2>1. todo # <<>> /\ Head(todo).code = "ret" => cpu.reg["ra"] = entry.reg["ra"]
    BY RunsStep DEF IInv, Fine
  <2>2. phase = "returned" /\ todo = <<>> => cpu.reg["sp"] = entry.reg["sp"]
    BY AtRest DEF IInv, Agree
  <2>3. \A a \in Address : a >= entry.reg["sp"] => cpu.mem[a] = entry.mem[a]
    BY DEF IInv
  <2> QED BY <2>1, <2>2, <2>3 DEF ReturnsToCaller
<1> QED BY <1>1, Inductive, PTL

\* No instruction stores below the stack pointer that it leaves, other than in
\* a global: the return address is saved after the frame is opened.
THEOREM NothingBelow == Spec => NothingBelowSp
<1>1. IInv /\ [Next]_vars =>
        [\A a \in Address \ {GloAddr[g] : g \in Global} :
             cpu'.mem[a] # cpu.mem[a] => a >= cpu'.reg["sp"]]_vars
  <2> SUFFICES ASSUME IInv, Next, NEW a \in Address \ {GloAddr[g] : g \in Global},
                      cpu'.mem[a] # cpu.mem[a]
               PROVE  a >= cpu'.reg["sp"]
    OBVIOUS
  <2>1. Step
    BY DEF Next, Enter, Return, Issue
  <2>2. cpu \in Cpu /\ Fine(entry.reg["ra"], cpu, Head(todo)) /\ cpu' = Do(cpu, Head(todo))
    BY <2>1, RunsStep DEF IInv, Step
  <2> QED BY <2>2, FineStores
<1> QED BY <1>1, Inductive, PTL DEF Spec, NothingBelowSp

=============================================================================
