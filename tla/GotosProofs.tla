---------------------------- MODULE GotosProofs ----------------------------
(***************************************************************************)
(* immediate_goto() is right for codes of any length: there is a place in  *)
(* the answer for every unit of the code, which a jump that is left out    *)
(* shares with the label that it jumps to.                                 *)
(***************************************************************************)
EXTENDS Gotos, SequenceTheorems, TLAPS

LeftOut(x) ==
    /\ Len(v) > 2 /\ x + 1 \in 1 .. Len(v)
    /\ v[x].type = "jmp" /\ v[x + 1] = LabelU(v[x].id)

(* The units before n have been copied: the x-th is at f[x].               *)
Copied(f, n) ==
    /\ f \in [1 .. n -> Nat] /\ f[1] = 1 /\ f[n] = Len(ans) + 1
    /\ \A x \in 1 .. n - 1 :
           \/ LeftOut(x) /\ f[x + 1] = f[x]
           \/ /\ ~LeftOut(x) /\ f[x + 1] = f[x] + 1
              /\ f[x] \in 1 .. Len(ans) /\ ans[f[x]] = v[x]
    /\ \A k \in 1 .. Len(ans) : \E x \in 1 .. n - 1 : ~LeftOut(x) /\ f[x] = k

IInv ==
    /\ TypeOK
    /\ WellFormed(v)
    /\ at = "loop" => /\ src = 1 /\ opt = 1
                      /\ i = 1 => ans = <<>>
                      /\ i \in 1 .. Len(v) => \E f : Copied(f, i)
    /\ at = "run" => \E f : Copied(f, Len(v) + 1) /\ opt = f[src]

-----------------------------------------------------------------------------

(* A unit that is pushed gets the next place.                              *)
LEMMA CopiedPush ==
    ASSUME NEW f, NEW n \in Nat \ {0}, Copied(f, n), TypeOK, n <= Len(v), ~LeftOut(n),
           ans' = Append(ans, v[n]), v' = v
    PROVE  \E g : Copied(g, n + 1)' 
<1> DEFINE place == [x \in 1 .. n + 1 |-> IF x = n + 1 THEN Len(ans) + 2 ELSE f[x]]
<1>1. /\ v \in Seq(Unit) /\ ans \in Seq(Unit) /\ Len(v) \in Nat /\ Len(ans) \in Nat
      /\ n \in 1 .. Len(v)
  BY DEF TypeOK
<1>2. v[n] \in Unit
  BY <1>1
<1>3. /\ Len(ans') = Len(ans) + 1
      /\ \A k \in 1 .. Len(ans) : ans'[k] = ans[k]
      /\ ans'[Len(ans) + 1] = v[n]
  BY <1>1, <1>2, AppendProperties
<1>4. /\ f \in [1 .. n -> Nat] /\ f[1] = 1 /\ f[n] = Len(ans) + 1
      /\ \A x \in 1 .. n - 1 :
             \/ LeftOut(x) /\ f[x + 1] = f[x]
             \/ /\ ~LeftOut(x) /\ f[x + 1] = f[x] + 1
                /\ f[x] \in 1 .. Len(ans) /\ ans[f[x]] = v[x]
      /\ \A k \in 1 .. Len(ans) : \E x \in 1 .. n - 1 : ~LeftOut(x) /\ f[x] = k
  BY DEF Copied
<1>5. PICK g : /\ g \in [1 .. n + 1 -> Nat] /\ g[1] = 1 /\ g[n + 1] = Len(ans) + 2
               /\ \A x \in 1 .. n : g[x] = f[x]
  <2>1. /\ place \in [1 .. n + 1 -> Nat] /\ place[1] = 1 /\ place[n + 1] = Len(ans) + 2
        /\ \A x \in 1 .. n : place[x] = f[x]
    BY <1>1, <1>4
  <2> HIDE DEF place
  <2> QED BY <2>1
<1>6. \A x : LeftOut(x)' = LeftOut(x)
  BY DEF LeftOut
<1>7. ASSUME NEW x \in 1 .. n
      PROVE  \/ LeftOut(x) /\ g[x + 1] = g[x]
             \/ /\ ~LeftOut(x) /\ g[x + 1] = g[x] + 1
                /\ g[x] \in 1 .. Len(ans') /\ ans'[g[x]] = v[x]
  <2>1. CASE x = n
    BY <1>1, <1>3, <1>4, <1>5, <2>1
  <2>2. CASE x \in 1 .. n - 1
    BY <1>1, <1>3, <1>4, <1>5, <2>2, SMTT(30)
  <2> QED BY <2>1, <2>2
<1>8. ASSUME NEW k \in 1 .. Len(ans')
      PROVE  \E x \in 1 .. n : ~LeftOut(x) /\ g[x] = k
  <2>1. CASE k = Len(ans) + 1
    <3>1. n \in 1 .. n /\ g[n] = k
      BY <1>4, <1>5, <2>1
    <3> QED BY <3>1
  <2>2. CASE k \in 1 .. Len(ans)
    <3>1. PICK x \in 1 .. n - 1 : ~LeftOut(x) /\ f[x] = k
      BY <1>4, <2>2
    <3>2. x \in 1 .. n /\ g[x] = k
      BY <1>5, <3>1
    <3> QED BY <3>1, <3>2
  <2> QED BY <1>1, <1>3, <2>1, <2>2
<1>9. (n + 1) - 1 = n /\ Len(ans') + 1 = Len(ans) + 2
  BY <1>1, <1>3
<1>10. Copied(g, n + 1)'
  BY <1>5, <1>6, <1>7, <1>8, <1>9 DEF Copied
<1> QED BY <1>5, <1>10

(* One that is left out has the place of the unit that follows.            *)
LEMMA CopiedSkip ==
    ASSUME NEW f, NEW n \in Nat \ {0}, Copied(f, n), TypeOK, LeftOut(n),
           ans' = ans, v' = v
    PROVE  \E g : Copied(g, n + 1)'
<1> DEFINE place == [x \in 1 .. n + 1 |-> IF x = n + 1 THEN Len(ans) + 1 ELSE f[x]]
<1>1. Len(ans) \in Nat
  BY DEF TypeOK
<1>4. /\ f \in [1 .. n -> Nat] /\ f[1] = 1 /\ f[n] = Len(ans) + 1
      /\ \A x \in 1 .. n - 1 :
             \/ LeftOut(x) /\ f[x + 1] = f[x]
             \/ /\ ~LeftOut(x) /\ f[x + 1] = f[x] + 1
                /\ f[x] \in 1 .. Len(ans) /\ ans[f[x]] = v[x]
      /\ \A k \in 1 .. Len(ans) : \E x \in 1 .. n - 1 : ~LeftOut(x) /\ f[x] = k
  BY DEF Copied
<1>5. PICK g : /\ g \in [1 .. n + 1 -> Nat] /\ g[1] = 1 /\ g[n + 1] = Len(ans) + 1
               /\ \A x \in 1 .. n : g[x] = f[x]
  <2>1. /\ place \in [1 .. n + 1 -> Nat] /\ place[1] = 1 /\ place[n + 1] = Len(ans) + 1
        /\ \A x \in 1 .. n : place[x] = f[x]
    BY <1>1, <1>4
  <2> HIDE DEF place
  <2> QED BY <2>1
<1>6. \A x : LeftOut(x)' = LeftOut(x)
  BY DEF LeftOut
<1>7. ASSUME NEW x \in 1 .. n
      PROVE  \/ LeftOut(x) /\ g[x + 1] = g[x]
             \/ /\ ~LeftOut(x) /\ g[x + 1] = g[x] + 1
                /\ g[x] \in 1 .. Len(ans) /\ ans[g[x]] = v[x]
  <2>1. CASE x = n
    BY <1>4, <1>5, <2>1
  <2>2. CASE x \in 1 .. n - 1
    BY <1>4, <1>5, <2>2
  <2> QED BY <2>1, <2>2
<1>8. ASSUME NEW k \in 1 .. Len(ans)
      PROVE  \E x \in 1 .. n : ~LeftOut(x) /\ g[x] = k
  <2>1. PICK x \in 1 .. n - 1 : ~LeftOut(x) /\ f[x] = k
    BY <1>4
  <2>2. x \in 1 .. n /\ g[x] = k
    BY <1>5, <2>1
  <2> QED BY <2>1, <2>2
<1>9. (n + 1) - 1 = n
  OBVIOUS
<1>10. Copied(g, n + 1)'
  BY <1>5, <1>6, <1>7, <1>8, <1>9 DEF Copied
<1> QED BY <1>10

(* A label is in the answer once, at its place.                            *)
LEMMA TargetPlace ==
    ASSUME TypeOK, WellFormed(v), NEW f, Copied(f, Len(v) + 1), NEW l,
           NEW y \in 1 .. Len(v), v[y] = LabelU(l)
    PROVE  Target(v, l) = y /\ Target(ans, l) = f[y]
<1>1. Len(v) \in Nat /\ (Len(v) + 1) - 1 = Len(v)
  BY DEF TypeOK
<1>2. v[y].type = "label" /\ LabelU(l).type = "label"
  BY DEF LabelU
<1>3. ~LeftOut(y)
  BY <1>2 DEF LeftOut
<1>4. f[y] \in 1 .. Len(ans) /\ ans[f[y]] = v[y]
  BY <1>1, <1>3 DEF Copied
<1>5. \A x \in Places(v, l) : x = y
  BY <1>2 DEF Places, WellFormed
<1>6. y \in Places(v, l)
  BY DEF Places
<1>7. f[y] \in Places(ans, l)
  BY <1>4 DEF Places
<1>8. ASSUME NEW k \in Places(ans, l) PROVE k = f[y]
  <2>1. k \in 1 .. Len(ans) /\ ans[k] = LabelU(l)
    BY DEF Places
  <2>2. PICK x \in 1 .. Len(v) : ~LeftOut(x) /\ f[x] = k
    BY <1>1, <2>1 DEF Copied
  <2>3. v[x] = LabelU(l)
    BY <1>1, <2>1, <2>2 DEF Copied
  <2>4. x \in Places(v, l)
    BY <2>3 DEF Places
  <2> QED BY <1>5, <2>2, <2>4
<1>9. Target(v, l) = y
  BY <1>5, <1>6 DEF Target
<1>10. Target(ans, l) = f[y]
  BY <1>7, <1>8 DEF Target
<1> QED BY <1>9, <1>10

(* What is at the place of a unit.                                         *)
LEMMA AtPlace ==
    ASSUME TypeOK, NEW f, Copied(f, Len(v) + 1), NEW x \in 1 .. Len(v)
    PROVE  \/ /\ ~LeftOut(x) /\ f[x] \in 1 .. Len(ans) /\ ans[f[x]] = v[x]
              /\ f[x + 1] = f[x] + 1
           \/ /\ LeftOut(x) /\ f[x] \in 1 .. Len(ans) /\ ans[f[x]] = v[x + 1]
              /\ f[x + 1] = f[x] /\ x + 1 \in 1 .. Len(v)
<1>1. Len(v) \in Nat /\ (Len(v) + 1) - 1 = Len(v)
  BY DEF TypeOK
<1>2. ASSUME NEW y \in 1 .. Len(v)
      PROVE  \/ LeftOut(y) /\ f[y + 1] = f[y]
             \/ /\ ~LeftOut(y) /\ f[y + 1] = f[y] + 1
                /\ f[y] \in 1 .. Len(ans) /\ ans[f[y]] = v[y]
  BY <1>1 DEF Copied
<1>3. CASE LeftOut(x)
  <2>1. x + 1 \in 1 .. Len(v) /\ v[x + 1].type = "label"
    BY <1>3 DEF LeftOut, LabelU
  <2>2. ~LeftOut(x + 1)
    BY <2>1 DEF LeftOut
  <2>3. f[x + 1] \in 1 .. Len(ans) /\ ans[f[x + 1]] = v[x + 1] /\ f[x + 1] = f[x]
    BY <1>2, <1>3, <2>1, <2>2
  <2> QED BY <1>3, <2>1, <2>3
<1>4. CASE ~LeftOut(x)
  BY <1>2, <1>4
<1> QED BY <1>3, <1>4

\* At first nothing is copied.
LEMMA InitInv ==
    ASSUME Init
    PROVE  IInv
<1>1. v \in Seq(Unit) /\ WellFormed(v) /\ Len(v) \in Nat
  BY CodesAssumption DEF Init
<1>2. ans = <<>> /\ i = 1 /\ at = "loop" /\ src = 1 /\ opt = 1
  BY DEF Init
<1>3. ans \in Seq(Unit) /\ Len(ans) = 0
  BY <1>2
<1>4. TypeOK
  BY <1>1, <1>2, <1>3 DEF TypeOK
<1>5. \E f : Copied(f, 1)
  <2>1. PICK f : f \in [1 .. 1 -> Nat] /\ f[1] = 1
    <3>1. [x \in 1 .. 1 |-> 1] \in [1 .. 1 -> Nat] /\ [x \in 1 .. 1 |-> 1][1] = 1
      OBVIOUS
    <3> QED BY <3>1
  <2>2. 1 .. 1 - 1 = {} /\ 1 .. Len(ans) = {} /\ Len(ans) + 1 = 1
    BY <1>3
  <2> QED BY <2>1, <2>2 DEF Copied
<1> QED BY <1>1, <1>2, <1>4, <1>5 DEF IInv

\* The pass copies one unit more, or leaves a goto out.
LEMMA StepCopies ==
    ASSUME IInv, ReturnSame \/ Continue \/ Push \/ PushLast
    PROVE  IInv'
<1>1. /\ TypeOK /\ WellFormed(v) /\ at = "loop" /\ v' = v
      /\ src = 1 /\ opt = 1 /\ src' = 1 /\ opt' = 1
      /\ i = 1 => ans = <<>>
      /\ i \in 1 .. Len(v) => \E f : Copied(f, i)
  BY DEF IInv, ReturnSame, Continue, Push, PushLast
<1>2. /\ v \in Seq(Unit) /\ ans \in Seq(Unit) /\ Len(v) \in Nat /\ Len(ans) \in Nat
      /\ i \in Nat \ {0}
  BY <1>1 DEF TypeOK
<1>3. WellFormed(v)'
  BY <1>1 DEF WellFormed
<1>4. CASE ReturnSame
  <2>1. ans' = v /\ at' = "run" /\ Len(v) <= 2 /\ i' = i
    BY <1>4 DEF ReturnSame
  <2>2. TypeOK'
    BY <1>1, <1>2, <2>1 DEF TypeOK
  <2>3. PICK f : f = [x \in 1 .. Len(v) + 1 |-> x]
    OBVIOUS
  <2>4. /\ f \in [1 .. Len(v) + 1 -> Nat] /\ f[1] = 1 /\ f[Len(v) + 1] = Len(v) + 1
        /\ \A x \in 1 .. Len(v) : f[x] = x /\ f[x + 1] = x + 1
    BY <1>2, <2>3
  <2>5. \A x : ~LeftOut(x)'
    BY <1>1, <2>1 DEF LeftOut
  <2>6. (Len(v) + 1) - 1 = Len(v)
    BY <1>2
  <2>7. Copied(f, Len(v) + 1)'
    BY <1>1, <2>1, <2>4, <2>5, <2>6 DEF Copied
  <2>8. opt' = f[src']
    BY <1>1, <2>4
  <2> QED BY <1>1, <1>3, <2>1, <2>2, <2>7, <2>8 DEF IInv
<1>5. CASE Continue
  <2>1. /\ ans' = ans /\ at' = at /\ i' = i + 1 /\ Len(v) > 2 /\ i < Len(v)
        /\ v[i].type = "jmp" /\ v[i + 1].type = "label" /\ v[i].id = v[i + 1].id
    BY <1>5 DEF Continue, JumpsToNext
  <2>2. i \in 1 .. Len(v) /\ i + 1 \in 1 .. Len(v)
    BY <1>2, <2>1
  <2>3. LeftOut(i)
    <3>1. v[i + 1] \in Unit
      BY <1>2, <2>2
    <3>2. v[i + 1] \in [type : {"label", "jmp", "jc"}, id : Label]
      BY <2>1, <3>1 DEF Unit
    <3>3. v[i + 1] = LabelU(v[i].id)
      BY <2>1, <3>2 DEF LabelU
    <3> QED BY <2>1, <2>2, <3>3 DEF LeftOut
  <2>4. PICK n : n = i
    OBVIOUS
  <2>7. PICK f : Copied(f, n + 1)'
    BY <1>1, <1>2, <2>1, <2>3, <2>4, CopiedSkip
  <2>5. TypeOK'
    BY <1>1, <1>2, <2>1 DEF TypeOK
  <2>6. Copied(f, i)'
    BY <2>1, <2>4, <2>7 DEF Copied
  <2> QED BY <1>1, <1>2, <1>3, <2>1, <2>5, <2>6 DEF IInv
<1>6. CASE Push
  <2>1. /\ ans' = Append(ans, v[i]) /\ at' = at /\ i' = i + 1
        /\ Len(v) > 2 /\ i < Len(v) /\ ~JumpsToNext
    BY <1>6 DEF Push
  <2>2. i \in 1 .. Len(v) /\ i <= Len(v)
    BY <1>2, <2>1
  <2>3. ~LeftOut(i)
    BY <2>1 DEF LeftOut, JumpsToNext, LabelU
  <2>4. PICK n : n = i
    OBVIOUS
  <2>8. PICK f : Copied(f, n + 1)'
    BY <1>1, <1>2, <2>1, <2>2, <2>3, <2>4, CopiedPush
  <2>5. ans' \in Seq(Unit) /\ Len(ans') = Len(ans) + 1
    BY <1>2, <2>1, <2>2, AppendProperties
  <2>6. TypeOK'
    BY <1>1, <1>2, <2>1, <2>5 DEF TypeOK
  <2>7. Copied(f, i)'
    BY <2>1, <2>4, <2>8 DEF Copied
  <2> QED BY <1>1, <1>2, <1>3, <2>1, <2>6, <2>7 DEF IInv
<1>7. CASE PushLast
  <2>1. ans' = Append(ans, v[i]) /\ at' = "run" /\ i' = i /\ Len(v) > 2 /\ i = Len(v)
    BY <1>7 DEF PushLast
  <2>2. i \in 1 .. Len(v) /\ i <= Len(v)
    BY <1>2, <2>1
  <2>3. ~LeftOut(i)
    BY <1>2, <2>1 DEF LeftOut
  <2>4. PICK n : n = i
    OBVIOUS
  <2>8. PICK f : Copied(f, n + 1)'
    BY <1>1, <1>2, <2>1, <2>2, <2>3, <2>4, CopiedPush
  <2>5. ans' \in Seq(Unit) /\ Len(ans') = Len(ans) + 1
    BY <1>2, <2>1, <2>2, AppendProperties
  <2>6. TypeOK'
    BY <1>1, <1>2, <2>1, <2>5 DEF TypeOK
  <2>7. Copied(f, Len(v) + 1)' /\ opt' = f[src']
    BY <1>1, <2>1, <2>4, <2>8 DEF Copied
  <2> QED BY <1>1, <1>3, <2>1, <2>6, <2>7 DEF IInv
<1> QED BY <1>4, <1>5, <1>6, <1>7

\* The optimised code goes where the source goes.
LEMMA StepRuns ==
    ASSUME IInv, Both \/ SourceJumps
    PROVE  IInv'
<1>1. TypeOK /\ WellFormed(v) /\ at = "run" /\ UNCHANGED <<v, ans, i, at>>
  BY DEF IInv, Both, SourceJumps
<1>2. PICK f : Copied(f, Len(v) + 1) /\ opt = f[src]
  BY <1>1 DEF IInv
<1>3. Copied(f, Len(v) + 1)' /\ WellFormed(v)'
  BY <1>1, <1>2 DEF Copied, LeftOut, WellFormed
<1>4. v \in Seq(Unit) /\ Len(v) \in Nat /\ Len(ans) \in Nat /\ src \in 1 .. Len(v)
  <2>1. src \in 1 .. Len(v)
    BY DEF Both, SourceJumps, Same
  <2> QED BY <1>1, <2>1 DEF TypeOK
<1>5. f[Len(v) + 1] = Len(ans) + 1
  BY <1>2 DEF Copied
<1>6. \A l : \A y \in 1 .. Len(v) : v[y] = LabelU(l) =>
          /\ Target(v, l) = y /\ Target(ans, l) = f[y]
          /\ f[y] \in 1 .. Len(ans) + 1
  <2>1. ASSUME NEW l, NEW y \in 1 .. Len(v), v[y] = LabelU(l)
        PROVE  /\ Target(v, l) = y /\ Target(ans, l) = f[y]
               /\ f[y] \in 1 .. Len(ans) + 1
    <3>1. f[y] \in 1 .. Len(ans)
      BY <1>1, <1>2, AtPlace
    <3> QED BY <1>1, <1>2, <1>4, <2>1, <3>1, TargetPlace
  <2> QED BY <2>1
<1>7. /\ src' \in 1 .. Len(v) + 1 /\ opt' \in 1 .. Len(ans) + 1
      /\ opt' = f[src']
  <2>1. CASE Both
    <3>1. v[src] = ans[opt]
      BY <2>1 DEF Both, Same
    <3>2. PICK holds \in BOOLEAN :
              src' = After(v, src, holds) /\ opt' = After(ans, opt, holds)
      BY <2>1 DEF Both
    <3>3. ~LeftOut(src)
      <4>1. ASSUME LeftOut(src) PROVE FALSE
        <5>1. v[src].type = "jmp" /\ v[src + 1].type = "label"
          BY <4>1 DEF LeftOut, LabelU
        <5>2. ans[opt] = v[src + 1]
          BY <1>1, <1>2, <1>4, <4>1, AtPlace
        <5> QED BY <3>1, <5>1, <5>2
      <4> QED BY <4>1
    <3>4. f[src] \in 1 .. Len(ans) /\ f[src + 1] = f[src] + 1
      BY <1>1, <1>2, <1>4, <3>3, AtPlace
    <3>5. CASE v[src].type = "ret"
      <4>1. src' = Len(v) + 1 /\ opt' = Len(ans) + 1
        BY <3>1, <3>2, <3>5 DEF After
      <4> QED BY <1>4, <1>5, <4>1
    <3>6. CASE v[src].type = "jmp" \/ (v[src].type = "jc" /\ holds)
      <4>1. src' = Target(v, v[src].id) /\ opt' = Target(ans, v[src].id)
        BY <3>1, <3>2, <3>6 DEF After
      <4>2. PICK y \in 1 .. Len(v) : v[y] = LabelU(v[src].id)
        BY <1>1, <1>4, <3>6 DEF WellFormed
      <4>3. src' = y /\ opt' = f[y] /\ f[y] \in 1 .. Len(ans) + 1
        BY <1>6, <4>1, <4>2
      <4> QED BY <1>4, <4>3
    <3>7. CASE /\ v[src].type # "ret" /\ v[src].type # "jmp"
               /\ ~(v[src].type = "jc" /\ holds)
      <4>1. src' = src + 1 /\ opt' = opt + 1
        BY <3>1, <3>2, <3>7 DEF After
      <4> QED BY <1>2, <1>4, <3>4, <4>1
    <3> QED BY <3>5, <3>6, <3>7
  <2>2. CASE SourceJumps
    <3>1. ~Same /\ v[src].type = "jmp" /\ src' = After(v, src, TRUE) /\ opt' = opt
      BY <2>2 DEF SourceJumps
    <3>2. LeftOut(src)
      BY <1>1, <1>2, <1>4, <3>1, AtPlace DEF Same
    <3>3. /\ f[src] \in 1 .. Len(ans) /\ f[src + 1] = f[src]
          /\ src + 1 \in 1 .. Len(v) /\ v[src + 1] = LabelU(v[src].id)
      BY <1>1, <1>2, <1>4, <3>2, AtPlace DEF LeftOut
    <3>4. src' = Target(v, v[src].id)
      BY <3>1 DEF After
    <3>5. src' = src + 1
      BY <1>6, <3>3, <3>4
    <3>6. f[src'] = f[src] /\ f[src] \in 1 .. Len(ans) + 1
      BY <1>4, <3>3, <3>5
    <3>7. src' \in 1 .. Len(v) + 1
      BY <1>4, <3>3, <3>5
    <3> QED BY <1>2, <3>1, <3>6, <3>7
  <2> QED BY <2>1, <2>2
<1>8. TypeOK'
  BY <1>1, <1>7 DEF TypeOK
<1> QED BY <1>1, <1>3, <1>7, <1>8 DEF IInv

\* Every step keeps the invariant.
LEMMA StepInv == IInv /\ [Next]_vars => IInv'
<1> SUFFICES ASSUME IInv, [Next]_vars PROVE IInv'
  OBVIOUS
<1>1. CASE UNCHANGED vars
  <2>1. UNCHANGED <<v, ans, i, at, src, opt>>
    BY <1>1 DEF vars
  <2>2. \A f, n : Copied(f, n)' <=> Copied(f, n)
    BY <2>1 DEF Copied, LeftOut
  <2>3. TypeOK' /\ WellFormed(v)'
    BY <2>1 DEF IInv, TypeOK, WellFormed
  <2>4. CASE at = "loop"
    <3>1. i \in 1 .. Len(v) => \E f : Copied(f, i)'
      <4>1. PICK n : n = i
        OBVIOUS
      <4>2. \A f : Copied(f, i)' <=> Copied(f, n)'
        BY <2>1, <4>1 DEF Copied
      <4> QED BY <2>2, <2>4, <4>1, <4>2 DEF IInv
    <3> QED BY <2>1, <2>3, <2>4, <3>1 DEF IInv
  <2>5. CASE at # "loop"
    <3>1. TypeOK
      BY DEF IInv
    <3>2. at = "run"
      BY <2>5, <3>1 DEF TypeOK
    <3>3. PICK f : Copied(f, Len(v) + 1) /\ opt = f[src]
      BY <3>2 DEF IInv
    <3>4. Copied(f, Len(v) + 1)'
      BY <2>1, <3>3 DEF Copied, LeftOut
    <3> QED BY <2>1, <2>3, <3>2, <3>3, <3>4 DEF IInv
  <2> QED BY <2>4, <2>5
<1> QED BY <1>1, StepCopies, StepRuns DEF Next

(* IInv is inductive, for codes of any length.                             *)
THEOREM Inductive == Spec => []IInv
  BY InitInv, StepInv, PTL DEF Spec

(* The loop stays in the vector, and the machines in their codes.          *)
THEOREM TypeCorrect == Spec => []TypeOK
<1>1. IInv => TypeOK
  BY DEF IInv
<1> QED BY Inductive, <1>1, PTL

(* With the jumps to the next label left out, the same units are executed  *)
(* in the same order, whatever the conditions of the other jumps are.      *)
THEOREM OptimisedInStep == Spec => []InStep
<1>1. IInv => InStep
  <2> SUFFICES ASSUME IInv, at = "run" PROVE InStep
    BY DEF InStep
  <2>1. TypeOK
    BY DEF IInv
  <2>2. PICK f : Copied(f, Len(v) + 1) /\ opt = f[src]
    BY DEF IInv
  <2>3. Len(v) \in Nat /\ src \in 1 .. Len(v) + 1
    BY <2>1 DEF TypeOK
  <2>4. CASE src = Len(v) + 1
    BY <2>2, <2>4 DEF InStep, Copied
  <2>5. CASE src \in 1 .. Len(v)
    <3>1. CASE LeftOut(src)
      BY <2>1, <2>2, <2>5, <3>1, AtPlace DEF InStep, LeftOut
    <3>2. CASE ~LeftOut(src)
      BY <2>1, <2>2, <2>5, <3>2, AtPlace DEF InStep, Same
    <3> QED BY <3>1, <3>2
  <2> QED BY <2>3, <2>4, <2>5
<1> QED BY Inductive, <1>1, PTL
=============================================================================
