---------------------------- MODULE ScopesProofs ----------------------------
(***************************************************************************)
(* For any names, and programs of any size: the environments implement     *)
(* lexical scoping, declarations are found again when code is generated,   *)
(* and no two variables share a number.                                    *)
(***************************************************************************)
EXTENDS Scopes, WellFoundedInduction, SequenceTheorems, TLAPS

\* A well-founded relation has minimal elements.
LEMMA MinimalElement ==
    ASSUME NEW R, NEW S, IsWellFoundedOn(R, S), NEW T, T \subseteq S, T # {}
    PROVE  \E x \in T : \A y \in T : ~ (<<y, x>> \in R)
  BY WFMin, ZenonT(60)

\* Being smaller is well-founded on the natural numbers.
LEMMA SmallerIsWellFounded ==
    \E R : /\ IsWellFoundedOn(R, Nat)
           /\ \A x, y \in Nat : x < y => <<x, y>> \in R
<1>1. \A x, y \in Nat : x < y => <<x, y>> \in OpToRel(<, Nat)
  BY Zenon DEF OpToRel
<1> QED BY <1>1, NatLessThanWellFounded, Zenon

\* A set of natural numbers that is not empty has a least element: what stands
\* in for induction, which the provers cannot do.
LEMMA Least ==
    ASSUME NEW T, T \subseteq Nat, T # {}
    PROVE  \E x \in T : \A y \in T : x <= y
<1>1. PICK R : /\ IsWellFoundedOn(R, Nat)
               /\ \A x, y \in Nat : x < y => <<x, y>> \in R
  BY SmallerIsWellFounded, Zenon
<1>2. IsWellFoundedOn(R, Nat)
  BY <1>1
<1>3. \E x \in T : \A y \in T : ~ (<<y, x>> \in R)
  BY <1>2, MinimalElement, ZenonT(60)
<1>4. PICK x \in T : \A y \in T : ~ (<<y, x>> \in R)
  BY <1>3, Zenon
<1>5. ASSUME NEW y \in T PROVE x <= y
  <2>1. x \in Nat /\ y \in Nat /\ ~ (y < x)
    BY <1>1, <1>4, Zenon
  <2> QED BY <2>1
<1> QED BY <1>5, Zenon

(* The environments under way are nested, and each one looks through       *)
(* itself first and through older ones after that.                         *)
Linked ==
    /\ \A e \in 1 .. Len(data) :
           /\ Len(chain[e]) > 0
           /\ chain[e][1] = e
           /\ \A i \in 1 .. Len(chain[e]) : chain[e][i] \in 1 .. e
    /\ \A i, j \in 1 .. Len(calls) : i < j => calls[i] < calls[j]

(* Where the walk is, and how deep.                                        *)
Placed ==
    /\ where \in {"globals", "functions", "entering"} => Len(calls) = 1
    /\ where \in {"params", "leaving"} => Len(calls) = 2
    /\ where = "body" => Len(calls) > 2
    /\ pending # Nothing => where \in {"globals", "params", "body"}
    /\ pending # Nothing => (pending.kind = "parameter" <=> where = "params")

(* What the environments and the last answer point at has been entered.    *)
Pointed ==
    /\ \A e \in 1 .. Len(data) : \A n \in Name : data[e][n].ptr <= Len(nodes)
    /\ answer.ptr <= Len(nodes)

(* What an environment has for a name is a declaration of that name in it, *)
(* and none that came after another.                                       *)
Kept ==
    /\ \A e \in 1 .. Len(data) : \A n \in Name : data[e][n] # NoInfo =>
           \/ e = 1 /\ n \in Library /\ data[e][n].ptr = 0
           \/ /\ data[e][n].ptr \in 1 .. Len(nodes)
              /\ nodes[data[e][n].ptr].env = e /\ nodes[data[e][n].ptr].name = n
    /\ \A d \in 1 .. Len(nodes) :
           /\ nodes[d].env \in 1 .. Len(data)
           /\ data[nodes[d].env][nodes[d].name] # NoInfo
           /\ data[nodes[d].env][nodes[d].name].ptr <= d

(* Numbers that have been given out.                                       *)
Numbered ==
    \A d \in 1 .. Len(nodes) :
        /\ category_of(nodes[d].kind) = "variable" => nodes[d].count < variable_count
        /\ (where = "params" /\ nodes[d].kind = "parameter" /\ nodes[d].env = env)
               => nodes[d].count < param_cnt

IInv == TypeOK /\ Linked /\ Placed /\ Pointed /\ Kept /\ Numbered /\ DistinctIds

-----------------------------------------------------------------------------

(* levelmap::at() finds what the environment itself has.                   *)
LEMMA AtOwn ==
    ASSUME TypeOK, NEW e \in 1 .. Len(data), Len(chain[e]) > 0, chain[e][1] = e,
           NEW n \in Name, data[e][n] # NoInfo
    PROVE  at(e, n) = data[e][n]
<1>1. Len(chain[e]) \in Nat
  BY DEF TypeOK
<1>2. 1 \in Hits(e, n) /\ \A j \in Hits(e, n) : 1 <= j
  BY <1>1 DEF Hits
<1>3. \A h \in Hits(e, n) : (\A j \in Hits(e, n) : h <= j) => h = 1
  BY <1>1, <1>2 DEF Hits
<1>4. (CHOOSE h \in Hits(e, n) : \A j \in Hits(e, n) : h <= j) = 1
  BY <1>2, <1>3
<1> QED BY <1>2, <1>4 DEF at

(* A new level without names shows what the level under it shows.          *)
LEMMA AtOuter ==
    ASSUME TypeOK, NEW e \in 1 .. Len(data), NEW f \in 1 .. Len(data),
           chain[e] = <<e>> \o chain[f],
           NEW n \in Name, data[e][n] = NoInfo
    PROVE  at(e, n) = at(f, n)
<1>1. chain[f] \in Seq(Nat) /\ Len(chain[f]) \in Nat /\ <<e>> \in Seq(Nat)
  BY SMTT(30) DEF TypeOK
<1>2. /\ Len(chain[e]) = Len(chain[f]) + 1
      /\ chain[e][1] = e
      /\ \A i \in 1 .. Len(chain[f]) : chain[e][i + 1] = chain[f][i]
  BY <1>1, ConcatProperties
<1>3. \A i \in Hits(f, n) : i + 1 \in Hits(e, n)
  BY <1>1, <1>2, SMTT(30) DEF Hits
<1>4. \A i \in Hits(e, n) : i - 1 \in Hits(f, n)
  <2>1. ASSUME NEW i \in Hits(e, n) PROVE i - 1 \in Hits(f, n)
    <3>1. i \in 1 .. Len(chain[f]) + 1 /\ i # 1
      BY <1>1, <1>2 DEF Hits
    <3>2. i - 1 \in 1 .. Len(chain[f]) /\ (i - 1) + 1 = i
      BY <1>1, <3>1
    <3>3. chain[e][i] = chain[f][i - 1]
      BY <1>2, <3>2
    <3> QED BY <3>2, <3>3 DEF Hits
  <2> QED BY <2>1
<1>5. Hits(e, n) \subseteq Nat /\ Hits(f, n) \subseteq Nat
  BY <1>1, <1>2 DEF Hits
<1>6. CASE Hits(f, n) = {}
  BY <1>4, <1>6 DEF at
<1>7. CASE Hits(f, n) # {}
  <2>1. PICK k \in Hits(f, n) : \A j \in Hits(f, n) : k <= j
    BY <1>5, <1>7, Least
  <2>2. \A h \in Hits(f, n) : (\A j \in Hits(f, n) : h <= j) => h = k
    BY <1>5, <2>1
  <2>3. (CHOOSE h \in Hits(f, n) : \A j \in Hits(f, n) : h <= j) = k
    BY <2>1, <2>2
  <2>4. k + 1 \in Hits(e, n) /\ \A j \in Hits(e, n) : k + 1 <= j
    BY <1>3, <1>4, <1>5, <2>1
  <2>5. \A h \in Hits(e, n) : (\A j \in Hits(e, n) : h <= j) => h = k + 1
    BY <1>5, <2>4
  <2>6. (CHOOSE h \in Hits(e, n) : \A j \in Hits(e, n) : h <= j) = k + 1
    BY <2>4, <2>5
  <2>7. chain[e][k + 1] = chain[f][k]
    BY <1>2, <2>1 DEF Hits
  <2> QED BY <1>7, <2>3, <2>4, <2>6, <2>7 DEF at
<1> QED BY <1>6, <1>7

(* What at() answers depends on the levels it looks through, and on the    *)
(* name it looks for.                                                      *)
LEMMA AtSame ==
    ASSUME TypeOK, NEW e \in 1 .. Len(data), chain[e]' = chain[e], NEW n \in Name,
           \A i \in 1 .. Len(chain[e]) :
               data[chain[e][i]][n]' = data[chain[e][i]][n]
    PROVE  at(e, n)' = at(e, n)
<1>1. Hits(e, n)' = Hits(e, n)
  BY DEF Hits
<1>2. \A i \in Hits(e, n) : data[chain[e][i]][n]' = data[chain[e][i]][n]
  BY DEF Hits
<1>3. CASE Hits(e, n) = {}
  BY <1>1, <1>3 DEF at
<1>4. CASE Hits(e, n) # {}
  <2>1. Hits(e, n) \subseteq Nat
    BY DEF Hits, TypeOK
  <2>2. PICK k \in Hits(e, n) : \A j \in Hits(e, n) : k <= j
    BY <1>4, <2>1, Least
  <2>3. \A h \in Hits(e, n) : (\A j \in Hits(e, n) : h <= j) => h = k
    BY <2>1, <2>2
  <2>4. (CHOOSE h \in Hits(e, n) : \A j \in Hits(e, n) : h <= j) = k
    BY <2>2, <2>3
  <2>5. at(e, n) = data[chain[e][k]][n]
    BY <1>4, <2>4 DEF at
  <2>6. at(e, n)' = data[chain[e][k]][n]'
    BY <1>1, <1>4, <2>4 DEF at
  <2> QED BY <1>2, <2>2, <2>5, <2>6
<1> QED BY <1>3, <1>4

\* The current environment is one of those made.
LEMMA EnvType ==
    ASSUME TypeOK
    PROVE  env \in 1 .. Len(data) /\ Len(calls) \in Nat \ {0} /\ Len(data) \in Nat
  BY DEF TypeOK, env

\* A lookup answers with an entry or with none.
LEMMA AtType ==
    ASSUME TypeOK, Linked, NEW e \in 1 .. Len(data), NEW n \in Name
    PROVE  at(e, n) \in Info \cup {NoInfo}
<1>1. \A x \in 1 .. Len(data) : data[x][n] \in Info \cup {NoInfo}
  BY DEF TypeOK
<1>2. \A i \in 1 .. Len(chain[e]) : chain[e][i] \in 1 .. Len(data)
  BY EnvType DEF Linked
<1>3. CASE Hits(e, n) # {}
  <2>1. Hits(e, n) \subseteq Nat
    BY DEF Hits, TypeOK
  <2>2. PICK k \in Hits(e, n) : \A j \in Hits(e, n) : k <= j
    BY <1>3, <2>1, Least
  <2>3. \A h \in Hits(e, n) : (\A j \in Hits(e, n) : h <= j) => h = k
    BY <2>1, <2>2
  <2>4. (CHOOSE h \in Hits(e, n) : \A j \in Hits(e, n) : h <= j) = k
    BY <2>2, <2>3
  <2>5. at(e, n) = data[chain[e][k]][n] /\ k \in 1 .. Len(chain[e])
    BY <1>3, <2>4 DEF at, Hits
  <2> QED BY <1>1, <1>2, <2>5
<1>4. CASE Hits(e, n) = {}
  BY <1>4 DEF at
<1> QED BY <1>3, <1>4

\* The declaration that it answers with has been entered.
LEMMA AtPointed ==
    ASSUME TypeOK, Linked, Pointed, NEW e \in 1 .. Len(data), NEW n \in Name
    PROVE  at(e, n).ptr <= Len(nodes)
<1>1. \A x \in 1 .. Len(data) : data[x][n].ptr <= Len(nodes)
  BY DEF Pointed
<1>2. \A i \in 1 .. Len(chain[e]) : chain[e][i] \in 1 .. Len(data)
  BY EnvType DEF Linked
<1>3. CASE Hits(e, n) # {}
  <2>1. Hits(e, n) \subseteq Nat
    BY DEF Hits, TypeOK
  <2>2. PICK k \in Hits(e, n) : \A j \in Hits(e, n) : k <= j
    BY <1>3, <2>1, Least
  <2>3. \A h \in Hits(e, n) : (\A j \in Hits(e, n) : h <= j) => h = k
    BY <2>1, <2>2
  <2>4. (CHOOSE h \in Hits(e, n) : \A j \in Hits(e, n) : h <= j) = k
    BY <2>2, <2>3
  <2>5. at(e, n) = data[chain[e][k]][n] /\ k \in 1 .. Len(chain[e])
    BY <1>3, <2>4 DEF at, Hits
  <2> QED BY <1>1, <1>2, <2>5
<1>4. CASE Hits(e, n) = {}
  BY <1>4 DEF at, NoInfo, TypeOK
<1> QED BY <1>3, <1>4

-----------------------------------------------------------------------------

(* Entering a declaration changes one name of one environment, if any.     *)
LEMMA EnteredData ==
    ASSUME TypeOK, NEW kind \in Kind \cup {"function"}, NEW n \in Name,
           NEW count \in Nat, Entered(kind, n, count)
    PROVE  LET info == [category |-> category_of(kind), count |-> count,
                        ptr |-> Len(nodes) + 1] IN
           /\ info \in Info
           /\ data' \in Seq([Name -> Info \cup {NoInfo}]) /\ Len(data') = Len(data)
           /\ \A e \in 1 .. Len(data) : \A m \in Name :
                  (e # env \/ m # n) => data'[e][m] = data[e][m]
           /\ data[env][n] = NoInfo => data'[env][n] = info
           /\ data[env][n] # NoInfo => data'[env][n] = data[env][n]
<1> DEFINE info == [category |-> category_of(kind), count |-> count,
                    ptr |-> Len(nodes) + 1]
<1>1. Len(nodes) + 1 \in Nat /\ category_of(kind) \in {"variable", "parameter", "function"}
  BY DEF TypeOK, category_of, Kind
<1>2. info \in Info
  BY <1>1 DEF Info
<1> HIDE DEF info
<1>3. data' = IF data[env][n] = NoInfo THEN [data EXCEPT ![env][n] = info] ELSE data
  BY DEF Entered, insert, info
<1>4. env \in 1 .. Len(data) /\ data \in Seq([Name -> Info \cup {NoInfo}])
  BY EnvType DEF TypeOK
<1>5. CASE data[env][n] = NoInfo
  <2>1. data' = [data EXCEPT ![env] = [data[env] EXCEPT ![n] = info]]
    BY <1>3, <1>5
  <2>2. data[env] \in [Name -> Info \cup {NoInfo}]
    BY <1>4
  <2>3. [data[env] EXCEPT ![n] = info] \in [Name -> Info \cup {NoInfo}]
    BY <1>2, <2>2
  <2>4. data' \in Seq([Name -> Info \cup {NoInfo}]) /\ Len(data') = Len(data)
    BY <1>4, <2>1, <2>3
  <2>5. \A e \in 1 .. Len(data) : e # env => data'[e] = data[e]
    BY <1>4, <2>1
  <2>6. data'[env] = [data[env] EXCEPT ![n] = info]
    BY <1>4, <2>1
  <2>7. /\ \A m \in Name : m # n => data'[env][m] = data[env][m]
        /\ data'[env][n] = info
    BY <2>2, <2>6
  <2> QED BY <1>2, <1>5, <2>4, <2>5, <2>7 DEF info
<1>6. CASE data[env][n] # NoInfo
  BY <1>2, <1>3, <1>4, <1>6 DEF info
<1> QED BY <1>5, <1>6

\* A declaration is added after the others.
LEMMA EnteredNodes ==
    ASSUME TypeOK, NEW kind \in Kind \cup {"function"}, NEW n \in Name,
           NEW count \in Nat, Entered(kind, n, count)
    PROVE  /\ nodes' \in Seq(Node) /\ Len(nodes') = Len(nodes) + 1
           /\ Len(nodes') <= MaxNodes /\ Len(nodes) \in Nat
           /\ \A d \in 1 .. Len(nodes) : nodes'[d] = nodes[d]
           /\ nodes'[Len(nodes) + 1] =
                  [kind |-> kind, name |-> n, env |-> env, count |-> count]
<1> DEFINE node == [kind |-> kind, name |-> n, env |-> env, count |-> count]
<1>1. node \in Node
  BY EnvType DEF Node
<1>2. nodes' = Append(nodes, node) /\ Len(nodes) < MaxNodes
  BY DEF Entered
<1>3. nodes \in Seq(Node) /\ Len(nodes) \in Nat /\ MaxNodes \in Nat
  BY ScopesAssumption DEF TypeOK
<1> HIDE DEF node
<1>4. /\ nodes' \in Seq(Node) /\ Len(nodes') = Len(nodes) + 1
      /\ \A d \in 1 .. Len(nodes) : nodes'[d] = nodes[d]
      /\ nodes'[Len(nodes) + 1] = node
  BY <1>1, <1>2, <1>3, AppendProperties
<1> QED BY <1>2, <1>3, <1>4 DEF node

(* clone() adds an environment without names under the current one.        *)
LEMMA CloneData ==
    ASSUME TypeOK, clone
    PROVE  /\ data' \in Seq([Name -> Info \cup {NoInfo}])
           /\ Len(data') = Len(data) + 1 /\ Len(data') <= MaxEnvs
           /\ \A e \in 1 .. Len(data) : data'[e] = data[e]
           /\ \A m \in Name : data'[Len(data) + 1][m] = NoInfo
           /\ chain' \in Seq(Seq(Nat)) /\ Len(chain') = Len(data')
           /\ \A e \in 1 .. Len(data) : chain'[e] = chain[e]
           /\ chain'[Len(data) + 1] = <<Len(data) + 1>> \o chain[env]
           /\ calls' \in Seq(1 .. Len(data')) /\ Len(calls') = Len(calls) + 1
           /\ \A i \in 1 .. Len(calls) : calls'[i] = calls[i]
           /\ calls'[Len(calls) + 1] = Len(data) + 1
<1> DEFINE bare == [n \in Name |-> NoInfo]
           link == <<Len(data) + 1>> \o chain[env]
<1>1. Len(data) \in Nat /\ Len(data) + 1 \in Nat /\ MaxEnvs \in Nat /\ Len(calls) \in Nat
  BY ScopesAssumption DEF TypeOK
<1>2. bare \in [Name -> Info \cup {NoInfo}]
  OBVIOUS
<1>3. <<Len(data) + 1>> \in Seq(Nat) /\ chain[env] \in Seq(Nat)
  BY <1>1, EnvType DEF TypeOK
<1>4. link \in Seq(Nat)
  BY <1>3, ConcatProperties
<1>5. /\ data' = Append(data, bare) /\ chain' = Append(chain, link)
      /\ calls' = Append(calls, Len(data) + 1) /\ Len(data) < MaxEnvs
  BY DEF clone
<1> HIDE DEF bare, link
<1>6. /\ data' \in Seq([Name -> Info \cup {NoInfo}]) /\ Len(data') = Len(data) + 1
      /\ \A e \in 1 .. Len(data) : data'[e] = data[e]
      /\ data'[Len(data) + 1] = bare
  BY <1>2, <1>5, AppendProperties DEF TypeOK
<1>7. /\ chain' \in Seq(Seq(Nat)) /\ Len(chain') = Len(data) + 1
      /\ \A e \in 1 .. Len(data) : chain'[e] = chain[e]
      /\ chain'[Len(data) + 1] = link
  BY <1>4, <1>5, AppendProperties DEF TypeOK
<1>8. calls \in Seq(1 .. Len(data) + 1) /\ Len(data) + 1 \in 1 .. Len(data) + 1
  BY <1>1 DEF TypeOK
<1>9. /\ calls' \in Seq(1 .. Len(data) + 1) /\ Len(calls') = Len(calls) + 1
      /\ \A i \in 1 .. Len(calls) : calls'[i] = calls[i]
      /\ calls'[Len(calls) + 1] = Len(data) + 1
  BY <1>5, <1>8, AppendProperties
<1>10. \A m \in Name : data'[Len(data) + 1][m] = NoInfo
  BY <1>6 DEF bare
<1> QED BY <1>1, <1>5, <1>6, <1>7, <1>9, <1>10, SMTT(30) DEF link

\* Leaving a scope takes the last call off the stack.
LEMMA ReturnData ==
    ASSUME TypeOK, Return, Len(calls) > 1, data' = data
    PROVE  /\ calls' \in Seq(1 .. Len(data')) /\ Len(calls') = Len(calls) - 1
           /\ Len(calls') > 0
           /\ \A i \in 1 .. Len(calls) - 1 : calls'[i] = calls[i]
<1>1. calls \in Seq(1 .. Len(data)) /\ Len(calls) \in Nat
  BY DEF TypeOK
<1>2. calls' = SubSeq(calls, 1, Len(calls) - 1)
  BY DEF Return
<1>3. /\ calls' \in Seq(1 .. Len(data)) /\ Len(calls') = Len(calls) - 1
      /\ \A i \in 1 .. Len(calls) - 1 : calls'[i] = calls[i]
  <2>1. \A i \in 1 .. Len(calls) - 1 : calls[i] \in 1 .. Len(data)
    BY <1>1
  <2> QED BY <1>1, <1>2, <2>1, SubSeqProperties
<1> QED BY <1>1, <1>3

-----------------------------------------------------------------------------

(* What a step does to the environments.                                   *)
Still == UNCHANGED <<data, chain, calls, nodes>>
Entering ==
    /\ \E kind \in Kind \cup {"function"}, n \in Name, count \in Nat :
           Entered(kind, n, count)
    /\ UNCHANGED <<chain, calls>>
Cloning == clone /\ UNCHANGED nodes
Returning == Return /\ Len(calls) > 1 /\ UNCHANGED <<data, chain, nodes>>

\* The end of a declaration enters it.
LEMMA Entering1 ==
    ASSUME TypeOK, EndDeclaration
    PROVE  Entering
<1>1. pending \in Pending /\ variable_count \in Nat /\ param_cnt \in Nat
  BY DEF TypeOK, EndDeclaration
<1>2. pending.kind \in Kind /\ pending.name \in Name
  BY <1>1 DEF Pending
<1>3. UNCHANGED <<chain, calls>>
  BY DEF EndDeclaration
<1>4. \/ pending.kind = "parameter" /\ Entered("parameter", pending.name, param_cnt)
      \/ Entered(pending.kind, pending.name, variable_count)
  BY DEF EndDeclaration
<1>5. CASE pending.kind = "parameter" /\ Entered("parameter", pending.name, param_cnt)
  <2>1. "parameter" \in Kind \cup {"function"}
    BY DEF Kind
  <2> QED BY <1>1, <1>2, <1>3, <1>5, <2>1 DEF Entering
<1>6. CASE Entered(pending.kind, pending.name, variable_count)
  BY <1>1, <1>2, <1>3, <1>6 DEF Entering
<1> QED BY <1>4, <1>5, <1>6

\* What a step does to the environments, in one of four ways.
LEMMA Shape ==
    ASSUME TypeOK, Placed, Next
    PROVE  Still \/ Entering \/ Cloning \/ Returning
<1>1. ASSUME NEW kind \in Kind, NEW n \in Name, BeginDeclaration(kind, n) PROVE Still
  BY <1>1 DEF BeginDeclaration, Still
<1>2. ASSUME NEW n \in Name, Dimension(n) PROVE Still
  BY <1>2 DEF Dimension, Still
<1>3. ASSUME NEW n \in Name, Use(n) PROVE Still
  BY <1>3 DEF Use, Still
<1>4. ASSUME NEW n \in Name, BeginFunction(n) PROVE Entering
  <2>1. Entered("function", n, 0) /\ UNCHANGED <<chain, calls>>
    BY <1>4 DEF BeginFunction
  <2> QED BY <2>1 DEF Entering
<1>5. CASE EndDeclaration
  BY <1>5, Entering1
<1>6. CASE RefuseDeclaration
  BY <1>6 DEF RefuseDeclaration, Still
<1>7. CASE EnterFunction \/ BeginBody \/ OpenBlock
  BY <1>7 DEF EnterFunction, BeginBody, OpenBlock, Cloning
<1>8. CASE CloseBlock
  <2>1. Len(calls) > 2 /\ Len(calls) \in Nat
    BY <1>8 DEF CloseBlock, Placed, TypeOK
  <2> QED BY <1>8, <2>1 DEF CloseBlock, Returning
<1>9. CASE EndFunction
  <2>1. Len(calls) = 2
    BY <1>9 DEF EndFunction, Placed
  <2> QED BY <1>9, <2>1 DEF EndFunction, Returning
<1> QED BY <1>1, <1>2, <1>3, <1>4, <1>5, <1>6, <1>7, <1>8, <1>9 DEF Next

\* None of the four leaves the types.
LEMMA EnvironmentType ==
    ASSUME TypeOK, Still \/ Entering \/ Cloning \/ Returning
    PROVE  /\ data' \in Seq([Name -> Info \cup {NoInfo}])
           /\ Len(data') \in 1 .. MaxEnvs
           /\ chain' \in Seq(Seq(Nat)) /\ Len(chain') = Len(data')
           /\ calls' \in Seq(1 .. Len(data')) /\ Len(calls') > 0
           /\ nodes' \in Seq(Node) /\ Len(nodes') <= MaxNodes
<1>1. CASE Still
  BY <1>1 DEF Still, TypeOK
<1>2. CASE Entering
  <2>1. PICK kind \in Kind \cup {"function"}, n \in Name, count \in Nat :
            Entered(kind, n, count)
    BY <1>2 DEF Entering
  <2>2. data' \in Seq([Name -> Info \cup {NoInfo}]) /\ Len(data') = Len(data)
    BY <2>1, EnteredData
  <2>3. nodes' \in Seq(Node) /\ Len(nodes') <= MaxNodes
    BY <2>1, EnteredNodes
  <2>4. UNCHANGED <<chain, calls>>
    BY <1>2 DEF Entering
  <2> QED BY <2>2, <2>3, <2>4 DEF TypeOK
<1>3. CASE Cloning
  <2>1. clone /\ UNCHANGED nodes
    BY <1>3 DEF Cloning
  <2>2. /\ data' \in Seq([Name -> Info \cup {NoInfo}])
        /\ Len(data') = Len(data) + 1 /\ Len(data') <= MaxEnvs
        /\ chain' \in Seq(Seq(Nat)) /\ Len(chain') = Len(data')
        /\ calls' \in Seq(1 .. Len(data')) /\ Len(calls') = Len(calls) + 1
    BY <2>1, CloneData
  <2>3. Len(data) \in Nat /\ Len(calls) \in Nat
    BY EnvType
  <2> QED BY <2>1, <2>2, <2>3, ScopesAssumption, SMTT(30) DEF TypeOK
<1>4. CASE Returning
  <2>1. Return /\ Len(calls) > 1 /\ data' = data /\ chain' = chain /\ nodes' = nodes
    BY <1>4 DEF Returning
  <2>2. calls' \in Seq(1 .. Len(data')) /\ Len(calls') > 0
    BY <2>1, ReturnData
  <2> QED BY <2>1, <2>2 DEF TypeOK
<1> QED BY <1>1, <1>2, <1>3, <1>4

\* Every step keeps the types.
LEMMA StepType ==
    ASSUME IInv, Next
    PROVE  TypeOK'
<1>1. TypeOK /\ Placed /\ Linked
  BY DEF IInv
<1>2. /\ data' \in Seq([Name -> Info \cup {NoInfo}])
      /\ Len(data') \in 1 .. MaxEnvs
      /\ chain' \in Seq(Seq(Nat)) /\ Len(chain') = Len(data')
      /\ calls' \in Seq(1 .. Len(data')) /\ Len(calls') > 0
      /\ nodes' \in Seq(Node) /\ Len(nodes') <= MaxNodes
  BY <1>1, Shape, EnvironmentType
<1>3. \A n \in Name : at(env, n) \in Info \cup {NoInfo}
  BY <1>1, EnvType, AtType
<1>4. answer' \in Info \cup {NoInfo}
  <2>1. answer' = answer \/ \E n \in Name : answer' = at(env, n)
    BY DEF Next, BeginDeclaration, Dimension, Use, BeginFunction, EndDeclaration,
           RefuseDeclaration, EnterFunction, BeginBody, OpenBlock, CloseBlock, EndFunction
  <2> QED BY <1>1, <1>3, <2>1 DEF TypeOK
<1>5. pending' \in Pending \cup {Nothing}
  <2>1. ASSUME NEW kind \in Kind, NEW n \in Name, BeginDeclaration(kind, n)
        PROVE  pending' \in Pending
    BY <2>1 DEF BeginDeclaration, Pending
  <2>2. ASSUME NEW n \in Name, Use(n)
        PROVE  pending' \in Pending \cup {Nothing}
    <3>1. CASE pending = Nothing
      BY <2>2, <3>1 DEF Use
    <3>2. CASE pending # Nothing
      <4>1. pending \in Pending
        BY <1>1, <3>2 DEF TypeOK
      <4>2. Evaluated(pending.used, n) \in SUBSET Name
        BY <4>1 DEF Evaluated, Pending
      <4>3. \/ pending' = pending
            \/ pending' = [pending EXCEPT !.dims = FALSE,
                                          !.used = Evaluated(pending.used, n)]
        BY <2>2, <3>2 DEF Use
      <4> QED BY <4>1, <4>2, <4>3 DEF Pending
    <3> QED BY <3>1, <3>2
  <2>3. \/ pending' = pending \/ pending' = Nothing
        \/ \E kind \in Kind, n \in Name : BeginDeclaration(kind, n)
        \/ \E n \in Name : Use(n)
    BY DEF Next, Dimension, BeginFunction, EndDeclaration,
           RefuseDeclaration, EnterFunction, BeginBody, OpenBlock, CloseBlock, EndFunction
  <2> QED BY <1>1, <2>1, <2>2, <2>3 DEF TypeOK
<1>6. /\ where' \in {"globals", "functions", "entering", "params", "body", "leaving"}
      /\ outcome' \in {"running", "refused", "aborted"}
  BY <1>1 DEF TypeOK, Next, BeginDeclaration, Dimension, Use, BeginFunction, EndDeclaration,
           RefuseDeclaration, EnterFunction, BeginBody, OpenBlock, CloseBlock, EndFunction
<1>7. variable_count' \in Nat /\ param_cnt' \in Nat
  <2>1. \/ UNCHANGED <<variable_count, param_cnt>>
        \/ variable_count' = variable_count /\ param_cnt' = 0
        \/ EndDeclaration
    BY DEF Next, BeginDeclaration, Dimension, Use, BeginFunction,
           RefuseDeclaration, EnterFunction, BeginBody, OpenBlock, CloseBlock, EndFunction
  <2>2. CASE EndDeclaration
    <3>1. \/ variable_count' = variable_count /\ param_cnt' = param_cnt + 1
          \/ variable_count' = variable_count + 1 /\ param_cnt' = param_cnt
      BY <2>2 DEF EndDeclaration
    <3> QED BY <1>1, <3>1, SMTT(30) DEF TypeOK
  <2> QED BY <1>1, <2>1, <2>2 DEF TypeOK
<1> QED BY <1>2, <1>4, <1>5, <1>6, <1>7 DEF TypeOK

\* Every step keeps scopes and calls in their places.
LEMMA StepPlaced ==
    ASSUME IInv, Next
    PROVE  Placed'
<1>0. TypeOK /\ Placed
  BY DEF IInv
<1>1. Len(calls) \in Nat \ {0}
  BY <1>0, EnvType
<1>2. clone => Len(calls') = Len(calls) + 1
  BY <1>0, CloneData
<1>3. ASSUME NEW kind \in Kind, NEW n \in Name, BeginDeclaration(kind, n) PROVE Placed'
  <2>1. /\ pending' = [kind |-> kind, name |-> n, dims |-> TRUE, used |-> {}]
        /\ UNCHANGED <<calls, where>>
        /\ \/ where = "globals" /\ kind # "parameter"
           \/ where = "body" /\ kind # "parameter"
           \/ where = "params" /\ kind = "parameter"
    BY <1>3 DEF BeginDeclaration
  <2>2. pending'.kind = kind
    BY <2>1
  <2>3. pending'.kind = "parameter" <=> where' = "params"
    BY <2>1, <2>2
  <2> QED BY <1>0, <2>1, <2>3 DEF Placed
<1>4. ASSUME NEW n \in Name, Dimension(n) PROVE Placed'
  BY <1>0, <1>4 DEF Dimension, Placed
<1>5. ASSUME NEW n \in Name, Use(n) PROVE Placed'
  <2>1. UNCHANGED <<calls, where>>
    BY <1>5 DEF Use
  <2>2. /\ pending' = Nothing <=> pending = Nothing
        /\ pending # Nothing => pending'.kind = pending.kind
    <3>1. CASE pending = Nothing
      BY <1>5, <3>1 DEF Use
    <3>2. CASE pending # Nothing
      <4>1. pending \in Pending
        BY <1>0, <3>2 DEF TypeOK
      <4>2. \/ pending' = pending
            \/ pending' = [pending EXCEPT !.dims = FALSE,
                                          !.used = Evaluated(pending.used, n)]
        BY <1>5, <3>2 DEF Use
      <4>3. pending'.kind = pending.kind /\ pending.kind # "none"
        BY <4>1, <4>2 DEF Pending, Kind
      <4>4. Nothing.kind = "none"
        BY DEF Nothing
      <4> QED BY <3>2, <4>3, <4>4
    <3> QED BY <3>1, <3>2
  <2> QED BY <1>0, <2>1, <2>2 DEF Placed
<1>6. ASSUME NEW n \in Name, BeginFunction(n) PROVE Placed'
  BY <1>0, <1>6 DEF BeginFunction, Placed
<1>7. CASE EndDeclaration
  BY <1>0, <1>7 DEF EndDeclaration, Placed
<1>8. CASE RefuseDeclaration
  BY <1>0, <1>8 DEF RefuseDeclaration, Placed
<1>9. CASE EnterFunction
  <2>1. /\ Len(calls) = 1 /\ pending = Nothing /\ pending' = pending
        /\ where' = "params" /\ clone
    BY <1>0, <1>9 DEF EnterFunction, Placed
  <2>2. Len(calls') = 2
    BY <1>2, <2>1
  <2> QED BY <2>1, <2>2 DEF Placed
<1>10. CASE BeginBody
  BY <1>0, <1>1, <1>2, <1>10 DEF BeginBody, Placed
<1>11. CASE OpenBlock
  BY <1>0, <1>1, <1>2, <1>11 DEF OpenBlock, Placed
<1>12. CASE CloseBlock
  <2>1. /\ Return /\ Len(calls) > 2 /\ data' = data /\ UNCHANGED pending
        /\ pending = Nothing
        /\ where' = IF Len(calls) = 3 THEN "leaving" ELSE "body"
    BY <1>0, <1>12 DEF CloseBlock, Placed
  <2>2. Len(calls') = Len(calls) - 1
    BY <1>0, <1>1, <2>1, ReturnData
  <2> QED BY <1>1, <2>1, <2>2 DEF Placed
<1>13. CASE EndFunction
  <2>1. Return /\ Len(calls) = 2 /\ data' = data /\ UNCHANGED pending
        /\ where' = "functions" /\ pending = Nothing
    BY <1>0, <1>13 DEF EndFunction, Placed
  <2>2. Len(calls') = Len(calls) - 1
    BY <1>0, <1>1, <2>1, ReturnData
  <2> QED BY <1>1, <2>1, <2>2 DEF Placed
<1> QED BY <1>3, <1>4, <1>5, <1>6, <1>7, <1>8, <1>9, <1>10, <1>11, <1>12, <1>13 DEF Next

\* Every step keeps the chains of environments.
LEMMA StepLinked ==
    ASSUME IInv, Next
    PROVE  Linked'
<1>0. TypeOK /\ Placed /\ Linked
  BY DEF IInv
<1>1. /\ Len(calls) \in Nat \ {0} /\ Len(data) \in Nat /\ env \in 1 .. Len(data)
      /\ \A i \in 1 .. Len(calls) : calls[i] \in 1 .. Len(data)
  BY <1>0, EnvType, SMTT(30) DEF TypeOK
<1>2. CASE Still
  BY <1>0, <1>2 DEF Still, Linked
<1>3. CASE Entering
  <2>1. Len(data') = Len(data) /\ UNCHANGED <<chain, calls>>
    BY <1>0, <1>3, EnteredData DEF Entering
  <2> QED BY <1>0, <2>1 DEF Linked
<1>4. CASE Cloning
  <2>1. clone
    BY <1>4 DEF Cloning
  <2>2. /\ Len(data') = Len(data) + 1
        /\ \A e \in 1 .. Len(data) : chain'[e] = chain[e]
        /\ chain'[Len(data) + 1] = <<Len(data) + 1>> \o chain[env]
        /\ Len(calls') = Len(calls) + 1
        /\ \A i \in 1 .. Len(calls) : calls'[i] = calls[i]
        /\ calls'[Len(calls) + 1] = Len(data) + 1
    BY <1>0, <2>1, CloneData
  <2>3. ASSUME NEW e \in 1 .. Len(data')
        PROVE  /\ Len(chain'[e]) > 0
               /\ chain'[e][1] = e
               /\ \A i \in 1 .. Len(chain'[e]) : chain'[e][i] \in 1 .. e
    <3>1. CASE e \in 1 .. Len(data)
      BY <1>0, <2>2, <3>1 DEF Linked
    <3>2. CASE e = Len(data) + 1
      <4>0. chain[env] \in Seq(Nat) /\ Len(chain[env]) \in Nat
        BY <1>0, <1>1 DEF TypeOK
      <4>1. <<e>> \in Seq(Nat) /\ chain[env] \in Seq(Nat) /\ Len(chain[env]) \in Nat
        BY <1>1, <3>2, <4>0
      <4>2. chain'[e] = <<e>> \o chain[env]
        BY <2>2, <3>2
      <4>3. /\ Len(chain'[e]) = Len(chain[env]) + 1
            /\ chain'[e][1] = e
            /\ \A i \in 1 .. Len(chain[env]) : chain'[e][i + 1] = chain[env][i]
        BY <4>1, <4>2, ConcatProperties
      <4>4. ASSUME NEW i \in 1 .. Len(chain'[e]) PROVE chain'[e][i] \in 1 .. e
        <5>1. CASE i = 1
          BY <1>1, <3>2, <4>3, <5>1
        <5>2. CASE i # 1
          <6>1. i - 1 \in 1 .. Len(chain[env]) /\ (i - 1) + 1 = i
            BY <4>1, <4>3, <5>2
          <6>2. chain'[e][i] = chain[env][i - 1]
            BY <4>3, <6>1
          <6>3. chain[env][i - 1] \in 1 .. env
            BY <1>0, <1>1, <6>1 DEF Linked
          <6> QED BY <1>1, <3>2, <6>2, <6>3
        <5> QED BY <5>1, <5>2
      <4> QED BY <4>1, <4>3, <4>4
    <3>3. Len(data') = Len(data) + 1
      BY <2>2
    <3>4. e \in 1 .. Len(data) \/ e = Len(data) + 1
      BY <1>1, <3>3
    <3> QED BY <3>1, <3>2, <3>4
  <2>4. ASSUME NEW i \in 1 .. Len(calls'), NEW j \in 1 .. Len(calls'), i < j
        PROVE  calls'[i] < calls'[j]
    <3>1. i \in 1 .. Len(calls) /\ calls'[i] = calls[i] /\ calls[i] \in 1 .. Len(data)
      BY <1>1, <2>2, <2>4
    <3>2. CASE j \in 1 .. Len(calls)
      BY <2>2, <2>4, <1>0, <3>1, <3>2 DEF Linked
    <3>3. CASE j = Len(calls) + 1
      BY <1>1, <2>2, <3>1, <3>3
    <3>4. Len(calls') = Len(calls) + 1
      BY <2>2
    <3> QED BY <1>1, <3>2, <3>3, <3>4
  <2> QED BY <2>3, <2>4 DEF Linked
<1>5. CASE Returning
  <2>1. Return /\ Len(calls) > 1 /\ data' = data /\ chain' = chain
    BY <1>5 DEF Returning
  <2>2. Len(calls') = Len(calls) - 1 /\ \A i \in 1 .. Len(calls) - 1 : calls'[i] = calls[i]
    BY <1>0, <2>1, ReturnData
  <2>3. ASSUME NEW i \in 1 .. Len(calls'), NEW j \in 1 .. Len(calls'), i < j
        PROVE  calls'[i] < calls'[j]
    <3>1. /\ i \in 1 .. Len(calls) /\ calls'[i] = calls[i]
          /\ j \in 1 .. Len(calls) /\ calls'[j] = calls[j]
      BY <1>1, <2>2
    <3> QED BY <1>0, <2>3, <3>1 DEF Linked
  <2> QED BY <1>0, <2>1, <2>3 DEF Linked
<1> QED BY <1>0, <1>2, <1>3, <1>4, <1>5, Shape

\* Every step keeps entries on declarations that exist.
LEMMA StepPointed ==
    ASSUME IInv, Next
    PROVE  Pointed'
<1>0. TypeOK /\ Placed /\ Linked /\ Pointed
  BY DEF IInv
<1>1. Len(nodes) \in Nat /\ env \in 1 .. Len(data) /\ Len(data) \in Nat
  BY <1>0, EnvType DEF TypeOK
<1>2. \A n \in Name : at(env, n).ptr <= Len(nodes)
  BY <1>0, <1>1, AtPointed
<1>3. answer'.ptr <= Len(nodes)
  <2>1. answer' = answer \/ \E n \in Name : answer' = at(env, n)
    BY DEF Next, BeginDeclaration, Dimension, Use, BeginFunction, EndDeclaration,
           RefuseDeclaration, EnterFunction, BeginBody, OpenBlock, CloseBlock, EndFunction
  <2> QED BY <1>0, <1>2, <2>1 DEF Pointed
<1>4. answer.ptr \in Int /\ answer'.ptr \in Int
  <2>1. answer \in Info \cup {NoInfo} /\ answer' \in Info \cup {NoInfo}
    BY <1>0, StepType DEF TypeOK
  <2> QED BY <2>1 DEF Info, NoInfo
<1>5. CASE Still \/ Returning
  BY <1>0, <1>3, <1>5 DEF Still, Returning, Pointed
<1>6. CASE Entering
  <2>1. PICK kind \in Kind \cup {"function"}, n \in Name, count \in Nat :
            Entered(kind, n, count)
    BY <1>6 DEF Entering
  <2> DEFINE info == [category |-> category_of(kind), count |-> count,
                      ptr |-> Len(nodes) + 1]
  <2>2. info.ptr = Len(nodes) + 1
    OBVIOUS
  <2> HIDE DEF info
  <2>3. /\ Len(data') = Len(data)
        /\ \A e \in 1 .. Len(data) : \A m \in Name :
               (e # env \/ m # n) => data'[e][m] = data[e][m]
        /\ data'[env][n] = info \/ data'[env][n] = data[env][n]
    BY <1>0, <2>1, EnteredData DEF info
  <2>4. Len(nodes') = Len(nodes) + 1
    BY <1>0, <2>1, EnteredNodes
  <2>5. ASSUME NEW e \in 1 .. Len(data'), NEW m \in Name
        PROVE  data'[e][m].ptr <= Len(nodes')
    <3>1. data[e][m].ptr <= Len(nodes) /\ data[e][m] \in Info \cup {NoInfo}
      BY <1>0, <2>3 DEF Pointed, TypeOK
    <3>2. data[e][m].ptr \in Int
      BY <3>1 DEF Info, NoInfo
    <3>3. data'[e][m] = data[e][m] \/ data'[e][m] = info
      BY <2>3
    <3> QED BY <1>1, <2>2, <2>4, <3>1, <3>2, <3>3
  <2> QED BY <1>1, <1>3, <1>4, <2>4, <2>5 DEF Pointed
<1>7. CASE Cloning
  <2>1. /\ Len(data') = Len(data) + 1
        /\ \A e \in 1 .. Len(data) : data'[e] = data[e]
        /\ \A m \in Name : data'[Len(data) + 1][m] = NoInfo
    BY <1>0, <1>7, CloneData DEF Cloning
  <2>2. nodes' = nodes
    BY <1>7 DEF Cloning
  <2>3. ASSUME NEW e \in 1 .. Len(data'), NEW m \in Name
        PROVE  data'[e][m].ptr <= Len(nodes)
    <3>1. CASE e \in 1 .. Len(data)
      BY <1>0, <2>1, <3>1 DEF Pointed
    <3>2. CASE e = Len(data) + 1
      <4>1. data'[e][m] = NoInfo
        BY <2>1, <3>2
      <4> QED BY <1>1, <4>1 DEF NoInfo
    <3>3. Len(data') = Len(data) + 1
      BY <2>1
    <3> QED BY <1>1, <3>1, <3>2, <3>3
  <2> QED BY <1>3, <2>2, <2>3 DEF Pointed
<1> QED BY <1>0, <1>5, <1>6, <1>7, Shape

(* A later declaration never takes the place of the first one.             *)
LEMMA StepKept ==
    ASSUME IInv, Next
    PROVE  Kept'
<1>0. TypeOK /\ Placed /\ Linked /\ Pointed /\ Kept
  BY DEF IInv
<1>1. Len(nodes) \in Nat /\ env \in 1 .. Len(data) /\ Len(data) \in Nat
  BY <1>0, EnvType DEF TypeOK
<1>2. CASE Still \/ Returning
  BY <1>0, <1>2 DEF Still, Returning, Kept
<1>3. CASE Cloning
  <2>1. /\ Len(data') = Len(data) + 1
        /\ \A e \in 1 .. Len(data) : data'[e] = data[e]
        /\ \A m \in Name : data'[Len(data) + 1][m] = NoInfo
    BY <1>0, <1>3, CloneData DEF Cloning
  <2>2. nodes' = nodes
    BY <1>3 DEF Cloning
  <2>3. \A e \in 1 .. Len(data') : e \in 1 .. Len(data) \/ e = Len(data) + 1
    BY <1>1, <2>1
  <2>4. \A d \in 1 .. Len(nodes) :
            /\ nodes[d].env \in 1 .. Len(data) /\ nodes[d].env \in 1 .. Len(data')
            /\ data'[nodes[d].env] = data[nodes[d].env]
    BY <1>0, <1>1, <2>1 DEF Kept
  <2> QED BY <1>0, <2>1, <2>2, <2>3, <2>4, SMTT(30) DEF Kept
<1>4. CASE Entering
  <2>1. PICK kind \in Kind \cup {"function"}, n \in Name, count \in Nat :
            Entered(kind, n, count)
    BY <1>4 DEF Entering
  <2> DEFINE info == [category |-> category_of(kind), count |-> count,
                      ptr |-> Len(nodes) + 1]
             k == Len(nodes) + 1
  <2>2. info.ptr = k
    OBVIOUS
  <2>3. /\ info \in Info /\ Len(data') = Len(data)
        /\ \A e \in 1 .. Len(data) : \A m \in Name :
               (e # env \/ m # n) => data'[e][m] = data[e][m]
        /\ data[env][n] = NoInfo => data'[env][n] = info
        /\ data[env][n] # NoInfo => data'[env][n] = data[env][n]
    BY <1>0, <2>1, EnteredData
  <2>4. /\ Len(nodes') = k
        /\ \A d \in 1 .. Len(nodes) : nodes'[d] = nodes[d]
        /\ nodes'[k].env = env /\ nodes'[k].name = n
    <3>1. /\ Len(nodes') = Len(nodes) + 1
          /\ \A d \in 1 .. Len(nodes) : nodes'[d] = nodes[d]
          /\ nodes'[Len(nodes) + 1] =
                 [kind |-> kind, name |-> n, env |-> env, count |-> count]
      BY <1>0, <2>1, EnteredNodes
    <3> QED BY <3>1
  <2> HIDE DEF info
  <2>5. k \in 1 .. k /\ \A d \in 1 .. Len(nodes) : d \in 1 .. k
    BY <1>1
  <2>6. \A d \in 1 .. k : d \in 1 .. Len(nodes) \/ d = k
    BY <1>1
  <2>7. k \in Nat
    BY <1>1
  <2> HIDE DEF k
  <2>8. info # NoInfo
    BY <2>3 DEF Info, NoInfo
  <2>9. ASSUME NEW e \in 1 .. Len(data), NEW m \in Name, data'[e][m] # NoInfo
        PROVE  \/ e = 1 /\ m \in Library /\ data'[e][m].ptr = 0
               \/ /\ data'[e][m].ptr \in 1 .. k
                  /\ nodes'[data'[e][m].ptr].env = e /\ nodes'[data'[e][m].ptr].name = m
    <3>1. CASE e = env /\ m = n /\ data[env][n] = NoInfo
      BY <2>2, <2>3, <2>4, <2>5, <3>1
    <3>2. CASE ~ (e = env /\ m = n /\ data[env][n] = NoInfo)
      <4>1. data'[e][m] = data[e][m]
        BY <2>3, <3>2
      <4>2. \/ e = 1 /\ m \in Library /\ data[e][m].ptr = 0
            \/ /\ data[e][m].ptr \in 1 .. Len(nodes)
               /\ nodes[data[e][m].ptr].env = e /\ nodes[data[e][m].ptr].name = m
        BY <1>0, <2>9, <4>1 DEF Kept
      <4> QED BY <2>4, <2>5, <4>1, <4>2
    <3> QED BY <3>1, <3>2
  <2>10. ASSUME NEW d \in 1 .. k
         PROVE  /\ nodes'[d].env \in 1 .. Len(data')
                /\ data'[nodes'[d].env][nodes'[d].name] # NoInfo
                /\ data'[nodes'[d].env][nodes'[d].name].ptr <= d
    <3>1. CASE d \in 1 .. Len(nodes)
      <4> DEFINE e == nodes[d].env
                 m == nodes[d].name
      <4>1. m \in Name
        <5>1. nodes[d] \in Node
          BY <1>0, <3>1 DEF TypeOK
        <5> QED BY <5>1 DEF Node
      <4>2. e \in 1 .. Len(data) /\ data[e][m] # NoInfo /\ data[e][m].ptr <= d
        BY <1>0, <3>1 DEF Kept
      <4>3. nodes'[d].env = e /\ nodes'[d].name = m
        BY <2>4, <3>1
      <4> HIDE DEF e, m
      <4>4. data'[e][m] = data[e][m]
        BY <2>3, <4>1, <4>2
      <4> QED BY <2>3, <4>2, <4>3, <4>4
    <3>2. CASE d = k
      <4>1. data'[env][n] = info \/ data'[env][n] = data[env][n]
        BY <2>3
      <4>2. data'[env][n] # NoInfo
        BY <2>3, <2>8
      <4>3. data[env][n].ptr <= Len(nodes) /\ data[env][n] \in Info \cup {NoInfo}
        <5>1. data[env] \in [Name -> Info \cup {NoInfo}]
          BY <1>0, <1>1 DEF TypeOK
        <5> QED BY <1>0, <1>1, <2>1, <5>1 DEF Pointed
      <4>4. data[env][n].ptr <= k
        BY <1>1, <4>3 DEF Info, NoInfo, k
      <4>5. data'[env][n].ptr <= k
        BY <2>2, <2>7, <4>1, <4>4
      <4>6. nodes'[d].env = env /\ nodes'[d].name = n
        BY <2>4, <3>2
      <4> QED BY <1>1, <2>3, <3>2, <4>2, <4>5, <4>6
    <3> QED BY <2>6, <3>1, <3>2
  <2> QED BY <2>3, <2>4, <2>9, <2>10 DEF Kept
<1> QED BY <1>0, <1>2, <1>3, <1>4, Shape

\* The parts of a declaration.
LEMMA NodeType ==
    ASSUME TypeOK, NEW d \in 1 .. Len(nodes)
    PROVE  /\ nodes[d].kind \in {"variable", "const", "parameter", "function"}
           /\ nodes[d].name \in Name /\ nodes[d].count \in Nat /\ nodes[d].env \in Nat
<1>1. nodes[d] \in Node
  BY DEF TypeOK
<1> QED BY <1>1 DEF Node, Kind

(* Steps that enter no declaration leave the numbers apart.                *)
LEMMA StepUnnumbered ==
    ASSUME IInv, nodes' = nodes, variable_count' = variable_count,
           where' = "params" => \/ env' = env /\ where = "params" /\ param_cnt' = param_cnt
                                \/ env' = Len(data) + 1
    PROVE  Numbered' /\ DistinctIds'
<1>0. TypeOK /\ Kept /\ Numbered /\ DistinctIds
  BY DEF IInv
<1>1. DistinctIds'
  BY <1>0 DEF DistinctIds
<1>2. \A d \in 1 .. Len(nodes) : nodes[d].env # Len(data) + 1
  BY <1>0, EnvType DEF Kept
<1>3. ASSUME NEW d \in 1 .. Len(nodes), where' = "params",
             nodes[d].kind = "parameter", nodes[d].env = env'
      PROVE  nodes[d].count < param_cnt'
  BY <1>0, <1>2, <1>3 DEF Numbered
<1>4. \A d \in 1 .. Len(nodes) :
          category_of(nodes[d].kind) = "variable" => nodes[d].count < variable_count
  BY <1>0 DEF Numbered
<1>5. Numbered'
  BY <1>3, <1>4 DEF Numbered
<1> QED BY <1>1, <1>5

\* Every step keeps the numbers of variables and parameters apart.
LEMMA StepNumbered ==
    ASSUME IInv, Next
    PROVE  Numbered' /\ DistinctIds'
<1>0. TypeOK /\ Placed /\ Kept /\ Numbered /\ DistinctIds
  BY DEF IInv
<1>1. /\ variable_count \in Nat /\ param_cnt \in Nat /\ Len(nodes) \in Nat
      /\ env \in 1 .. Len(data) /\ Len(data) \in Nat /\ Len(calls) \in Nat
  BY <1>0, EnvType DEF TypeOK
<1>2. calls' = calls => env' = env
  BY DEF env
<1>3. CASE \/ \E kind \in Kind, n \in Name : BeginDeclaration(kind, n)
           \/ \E n \in Name : Dimension(n) \/ Use(n)
           \/ RefuseDeclaration
  <2>1. UNCHANGED <<calls, where, nodes, variable_count, param_cnt>>
    BY <1>3 DEF BeginDeclaration, Dimension, Use, RefuseDeclaration
  <2> QED BY <1>2, <2>1, StepUnnumbered
<1>4. CASE EnterFunction
  <2>1. clone /\ nodes' = nodes /\ variable_count' = variable_count
    BY <1>4 DEF EnterFunction
  <2>2. Len(calls') = Len(calls) + 1 /\ calls'[Len(calls) + 1] = Len(data) + 1
    BY <1>0, <2>1, CloneData
  <2>3. env' = Len(data) + 1
    BY <2>2 DEF env
  <2> QED BY <2>1, <2>3, StepUnnumbered
<1>5. CASE BeginBody \/ OpenBlock \/ CloseBlock \/ EndFunction
  <2>1. nodes' = nodes /\ variable_count' = variable_count /\ where' # "params"
    BY <1>5 DEF BeginBody, OpenBlock, CloseBlock, EndFunction
  <2> QED BY <2>1, StepUnnumbered
<1>6. CASE EndDeclaration \/ \E n \in Name : BeginFunction(n)
  <2>1. \E kind \in {"variable", "const", "parameter", "function"}, n \in Name, count \in Nat :
            /\ Entered(kind, n, count) /\ calls' = calls
            /\ kind = "parameter" => /\ count = param_cnt /\ param_cnt' = param_cnt + 1
                                     /\ where = "params" /\ variable_count' = variable_count
            /\ kind \in {"variable", "const"} =>
                   count = variable_count /\ variable_count' = variable_count + 1
            /\ kind # "parameter" => where' # "params"
            /\ kind = "function" => variable_count' = variable_count
    <3>1. CASE EndDeclaration
      <4>1. pending \in Pending /\ pending # Nothing
        BY <1>0, <3>1 DEF TypeOK, EndDeclaration
      <4>2. pending.kind \in Kind /\ pending.name \in Name
        BY <4>1 DEF Pending
      <4>3. calls' = calls /\ where' = where
        BY <3>1 DEF EndDeclaration
      <4>4. pending.kind = "parameter" <=> where = "params"
        BY <1>0, <4>1 DEF Placed
      <4>5. CASE pending.kind = "parameter"
        <5>1. Entered("parameter", pending.name, param_cnt) /\ param_cnt' = param_cnt + 1
              /\ variable_count' = variable_count
          BY <3>1, <4>5 DEF EndDeclaration
        <5> QED BY <1>1, <4>2, <4>3, <4>4, <4>5, <5>1
      <4>6. CASE pending.kind # "parameter"
        <5>1. Entered(pending.kind, pending.name, variable_count)
              /\ variable_count' = variable_count + 1
          BY <3>1, <4>6 DEF EndDeclaration
        <5>2. pending.kind \in {"variable", "const"}
          BY <4>2, <4>6 DEF Kind
        <5>3. where' # "params"
          BY <4>3, <4>4, <4>6
        <5> QED BY <1>1, <4>2, <4>3, <4>6, <5>1, <5>2, <5>3
      <4> QED BY <4>5, <4>6
    <3>2. ASSUME NEW n \in Name, BeginFunction(n)
          PROVE  /\ Entered("function", n, 0) /\ calls' = calls
                 /\ where' # "params" /\ variable_count' = variable_count
      BY <3>2 DEF BeginFunction
    <3> QED BY <1>6, <3>1, <3>2
  <2>2. PICK kind \in {"variable", "const", "parameter", "function"}, n \in Name,
             count \in Nat :
            /\ Entered(kind, n, count) /\ calls' = calls
            /\ kind = "parameter" => /\ count = param_cnt /\ param_cnt' = param_cnt + 1
                                     /\ where = "params" /\ variable_count' = variable_count
            /\ kind \in {"variable", "const"} =>
                   count = variable_count /\ variable_count' = variable_count + 1
            /\ kind # "parameter" => where' # "params"
            /\ kind = "function" => variable_count' = variable_count
    BY <2>1
  <2>3. kind \in Kind \cup {"function"}
    BY <2>2 DEF Kind
  <2> DEFINE k == Len(nodes) + 1
  <2>4. /\ Len(nodes') = k
        /\ \A d \in 1 .. Len(nodes) : nodes'[d] = nodes[d]
        /\ nodes'[k] = [kind |-> kind, name |-> n, env |-> env, count |-> count]
    BY <1>0, <2>2, <2>3, EnteredNodes
  <2>5. \A d \in 1 .. k : d \in 1 .. Len(nodes) \/ d = k
    BY <1>1
  <2> HIDE DEF k
  <2>6. nodes'[k].kind = kind /\ nodes'[k].env = env /\ nodes'[k].count = count
    BY <2>4
  <2>7. env' = env
    BY <1>2, <2>2
  <2>8. ASSUME NEW d \in 1 .. Len(nodes)
        PROVE  /\ category_of(nodes[d].kind) = "variable" =>
                      nodes[d].count < variable_count /\ nodes[d].count < variable_count'
               /\ nodes[d].kind = "parameter" /\ nodes[d].env = env /\ kind = "parameter" =>
                      nodes[d].count < count /\ nodes[d].count < param_cnt'
    <3>1. nodes[d].count \in Nat
      BY <1>0, NodeType
    <3>2. variable_count' = variable_count \/ variable_count' = variable_count + 1
      BY <2>2
    <3> QED BY <1>0, <1>1, <2>2, <3>1, <3>2 DEF Numbered
  <2>9. category_of(kind) = "variable" <=> kind \in {"variable", "const"}
    BY <2>2 DEF category_of
  <2>10. Numbered'
    <3>1. ASSUME NEW d \in 1 .. k
          PROVE  /\ category_of(nodes'[d].kind) = "variable" =>
                        nodes'[d].count < variable_count'
                 /\ where' = "params" /\ nodes'[d].kind = "parameter"
                        /\ nodes'[d].env = env =>  nodes'[d].count < param_cnt'
      <4>1. CASE d \in 1 .. Len(nodes)
        BY <2>2, <2>4, <2>8, <4>1
      <4>2. CASE d = k
        BY <1>1, <2>2, <2>6, <2>9, <4>2
      <4> QED BY <2>5, <4>1, <4>2
    <3> QED BY <2>4, <2>7, <3>1 DEF Numbered
  <2>11. DistinctIds'
    <3>1. ASSUME NEW c \in 1 .. Len(nodes),
                 category_of(nodes[c].kind) = category_of(kind),
                 \/ category_of(kind) = "variable"
                 \/ nodes[c].kind = "parameter" /\ nodes[c].env = env
          PROVE  nodes[c].count # count
      <4>1. nodes[c].count \in Nat
        BY <1>0, NodeType
      <4>2. CASE category_of(kind) = "variable"
        BY <1>1, <2>2, <2>8, <2>9, <3>1, <4>1, <4>2
      <4>3. CASE nodes[c].kind = "parameter" /\ nodes[c].env = env
        <5>1. kind = "parameter"
          BY <2>2, <3>1, <4>3 DEF category_of
        <5> QED BY <2>8, <4>1, <4>3, <5>1
      <4> QED BY <3>1, <4>2, <4>3
    <3>2. ASSUME NEW c \in 1 .. k, NEW d \in 1 .. k, c # d,
                 category_of(nodes'[c].kind) = category_of(nodes'[d].kind),
                 \/ category_of(nodes'[c].kind) = "variable"
                 \/ nodes'[c].kind = "parameter" /\ nodes'[c].env = nodes'[d].env
          PROVE  nodes'[c].count # nodes'[d].count
      <4>1. CASE c \in 1 .. Len(nodes) /\ d \in 1 .. Len(nodes)
        BY <1>0, <2>4, <3>2, <4>1 DEF DistinctIds
      <4>2. CASE c \in 1 .. Len(nodes) /\ d = k
        BY <2>4, <2>6, <3>1, <3>2, <4>2
      <4>3. CASE c = k /\ d \in 1 .. Len(nodes)
        <5>1. nodes'[d] = nodes[d]
          BY <2>4, <4>3
        <5>2. category_of(nodes[d].kind) = category_of(kind)
          BY <2>6, <3>2, <4>3, <5>1
        <5>3. \/ category_of(kind) = "variable"
              \/ kind = "parameter" /\ nodes[d].env = env
          BY <2>6, <3>2, <4>3, <5>1
        <5>4. kind = "parameter" => nodes[d].kind = "parameter"
          BY <5>2 DEF category_of
        <5> QED BY <2>6, <3>1, <4>3, <5>1, <5>2, <5>3, <5>4
      <4> QED BY <2>5, <3>2, <4>1, <4>2, <4>3
    <3> QED BY <2>4, <3>2 DEF DistinctIds
  <2> QED BY <2>10, <2>11
<1> QED BY <1>3, <1>4, <1>5, <1>6 DEF Next

\* At first there are the functions of the library.
LEMMA InitInv ==
    ASSUME Init
    PROVE  IInv
<1> DEFINE library == [n \in Name |->
               IF n \in Library
               THEN [category |-> "function", count |-> 0, ptr |-> 0]
               ELSE NoInfo]
<1>1. library \in [Name -> Info \cup {NoInfo}]
  BY DEF Info
<1>2. \A n \in Name : library[n].ptr <= 0 /\ (library[n] # NoInfo =>
                              n \in Library /\ library[n].ptr = 0)
  BY DEF NoInfo
<1> HIDE DEF library
<1>3. /\ data = <<library>> /\ chain = <<<<1>>>> /\ calls = <<1>> /\ where = "globals"
      /\ pending = Nothing /\ nodes = <<>> /\ variable_count = 0 /\ param_cnt = 0
      /\ answer = NoInfo /\ outcome = "running"
  BY DEF Init, library
<1>4. /\ data \in Seq([Name -> Info \cup {NoInfo}]) /\ Len(data) = 1
      /\ data[1] = library
  BY <1>1, <1>3
<1>5. /\ chain \in Seq(Seq(Nat)) /\ Len(chain) = 1 /\ chain[1] = <<1>>
      /\ calls \in Seq(1 .. 1) /\ Len(calls) = 1
      /\ nodes \in Seq(Node) /\ Len(nodes) = 0
  BY <1>3
<1>6. TypeOK
  BY <1>3, <1>4, <1>5, ScopesAssumption DEF TypeOK
<1>7. Linked
  BY <1>4, <1>5 DEF Linked
<1>8. Placed
  BY <1>3, <1>5 DEF Placed
<1>9. Pointed
  <2>1. answer.ptr <= Len(nodes)
    BY <1>3, <1>5 DEF NoInfo
  <2> QED BY <1>2, <1>4, <1>5, <2>1 DEF Pointed
<1>10. Kept
  BY <1>2, <1>4, <1>5 DEF Kept
<1>11. Numbered /\ DistinctIds
  BY <1>5 DEF Numbered, DistinctIds
<1> QED BY <1>6, <1>7, <1>8, <1>9, <1>10, <1>11 DEF IInv

\* Every step keeps the invariant.
LEMMA StepInv == IInv /\ [Next]_vars => IInv'
<1> SUFFICES ASSUME IInv, [Next]_vars PROVE IInv'
  OBVIOUS
<1>1. CASE Next
  BY <1>1, StepType, StepLinked, StepPlaced, StepPointed, StepKept, StepNumbered DEF IInv
<1>2. CASE UNCHANGED vars
  BY <1>2 DEF vars, IInv, TypeOK, Linked, Placed, Pointed, Kept, Numbered, DistinctIds, env
<1> QED BY <1>1, <1>2

(* IInv is inductive, for any names and bounds.                            *)
THEOREM Inductive == Spec => []IInv
  BY InitInv, StepInv, PTL DEF Spec

(* The walk keeps to its types, however many declarations and blocks.      *)
THEOREM TypeCorrect == Spec => []TypeOK
<1>1. IInv => TypeOK
  BY DEF IInv
<1> QED BY Inductive, <1>1, PTL

(* No two variables of a program, and no two parameters of a function,     *)
(* share a number.                                                         *)
THEOREM NumbersAreDistinct == Spec => []DistinctIds
<1>1. IInv => DistinctIds
  BY DEF IInv
<1> QED BY Inductive, <1>1, PTL

(* When code is generated, a declaration is found under its name.          *)
THEOREM LookupIsLate == Spec => []LateLookup
<1>1. IInv => LateLookup
  <2> SUFFICES ASSUME IInv, NEW d \in 1 .. Len(nodes)
               PROVE  LET info == at(nodes[d].env, nodes[d].name) IN
                      \/ info.ptr \in SameBlock(d) /\ \A c \in SameBlock(d) : info.ptr <= c
                      \/ nodes[d].env = 1 /\ nodes[d].name \in Library /\ info.ptr = 0
    BY DEF LateLookup
  <2> DEFINE e == nodes[d].env
             n == nodes[d].name
  <2>1. TypeOK /\ Linked /\ Kept
    BY DEF IInv
  <2>2. e \in 1 .. Len(data) /\ data[e][n] # NoInfo
    BY <2>1 DEF Kept
  <2>3. n \in Name
    BY <2>1, NodeType
  <2>4. Len(chain[e]) > 0 /\ chain[e][1] = e
    BY <2>1, <2>2 DEF Linked
  <2> HIDE DEF e, n
  <2>5. at(e, n) = data[e][n]
    BY <2>1, <2>2, <2>3, <2>4, AtOwn
  <2>6. \/ e = 1 /\ n \in Library /\ data[e][n].ptr = 0
        \/ /\ data[e][n].ptr \in 1 .. Len(nodes)
           /\ nodes[data[e][n].ptr].env = e /\ nodes[data[e][n].ptr].name = n
    BY <2>1, <2>2, <2>3 DEF Kept
  <2>7. \A c \in SameBlock(d) : data[e][n].ptr <= c
    BY <2>1 DEF Kept, SameBlock, e, n
  <2> QED BY <2>5, <2>6, <2>7 DEF SameBlock, e, n
<1> QED BY Inductive, <1>1, PTL

-----------------------------------------------------------------------------

Outer == [i \in 1 .. Len(calls) - 1 |->
             [bind |-> Bound(calls[i]), here |-> Declared(calls[i])]]

(* Declarations stay what they were.                                       *)
Growing == Len(nodes') >= Len(nodes) /\ \A d \in 1 .. Len(nodes) : nodes'[d] = nodes[d]

\* Every step keeps the declarations entered.
LEMMA Grows ==
    ASSUME IInv, Next
    PROVE  Growing
<1>1. TypeOK /\ Placed
  BY DEF IInv
<1>2. CASE Entering
  <2>1. PICK kind \in Kind \cup {"function"}, n \in Name, count \in Nat :
            Entered(kind, n, count)
    BY <1>2 DEF Entering
  <2>2. /\ Len(nodes') = Len(nodes) + 1 /\ Len(nodes) \in Nat
        /\ \A d \in 1 .. Len(nodes) : nodes'[d] = nodes[d]
    BY <1>1, <2>1, EnteredNodes
  <2> QED BY <2>2 DEF Growing
<1>3. CASE nodes' = nodes
  BY <1>1, <1>3 DEF Growing, TypeOK
<1> QED BY <1>1, <1>2, <1>3, Shape DEF Still, Cloning, Returning

\* An answer goes on meaning the same.
LEMMA AnswerSame ==
    ASSUME IInv, Growing, answer' = answer
    PROVE  Meaning(answer)' = Meaning(answer)
<1>1. answer.ptr <= Len(nodes) /\ answer \in Info \cup {NoInfo} /\ Len(nodes) \in Nat
  BY DEF IInv, Pointed, TypeOK
<1>2. answer.ptr > 0 => answer.ptr \in 1 .. Len(nodes)
  BY <1>1 DEF Info, NoInfo
<1> QED BY <1>2 DEF Meaning, IsConst, Growing

(* An environment that shows the same gives names the same meaning.        *)
LEMMA MeaningSame ==
    ASSUME IInv, Growing, NEW e \in 1 .. Len(data), NEW f, NEW n \in Name,
           at(f, n)' = at(e, n)
    PROVE  Meaning(at(f, n))' = Meaning(at(e, n))
<1>1. TypeOK /\ Linked /\ Pointed
  BY DEF IInv
<1>2. at(e, n).ptr <= Len(nodes) /\ at(e, n) \in Info \cup {NoInfo} /\ Len(nodes) \in Nat
  BY <1>1, AtPointed, AtType DEF TypeOK
<1>3. at(e, n).ptr > 0 => at(e, n).ptr \in 1 .. Len(nodes)
  BY <1>2 DEF Info, NoInfo
<1> QED BY <1>3 DEF Meaning, IsConst, Growing

\* An environment that answers as another did binds as it did.
LEMMA BoundSame ==
    ASSUME IInv, Growing, NEW e \in 1 .. Len(data), NEW f,
           \A n \in Name : at(f, n)' = at(e, n)
    PROVE  Bound(f)' = Bound(e)
<1>1. \A n \in Name : Meaning(at(f, n))' = Meaning(at(e, n))
  BY MeaningSame
<1> QED BY <1>1 DEF Bound

(* What the walk has on its stack is what lexical scoping saves.           *)
LEMMA OuterType ==
    ASSUME TypeOK
    PROVE  /\ Outer \in Seq([bind : {Bound(calls[i]) : i \in 1 .. Len(calls)},
                             here : {Declared(calls[i]) : i \in 1 .. Len(calls)}])
           /\ Len(Outer) = Len(calls) - 1
<1>1. Len(calls) - 1 \in Nat /\ Len(calls) \in Nat
  BY EnvType
<1> QED BY <1>1 DEF Outer

\* A step that leaves the environments alone leaves the scopes alone.
LEMMA MapStill ==
    ASSUME IInv, Still
    PROVE  /\ Bound(env)' = Bound(env) /\ Declared(env)' = Declared(env)
           /\ Outer' = Outer
<1>1. UNCHANGED <<data, chain, calls, nodes>>
  BY DEF Still
<1> QED BY <1>1 DEF Bound, Declared, Outer, Meaning, IsConst, at, Hits, env

\* Return goes back to the enclosing scope.
LEMMA MapReturning ==
    ASSUME IInv, Returning
    PROVE  /\ Outer # <<>>
           /\ Bound(env)' = Outer[Len(Outer)].bind
           /\ Declared(env)' = Outer[Len(Outer)].here
           /\ Outer' = SubSeq(Outer, 1, Len(Outer) - 1)
<1>1. TypeOK /\ Return /\ Len(calls) > 1 /\ UNCHANGED <<data, chain, nodes>>
  BY DEF IInv, Returning
<1>2. Len(calls) \in Nat /\ Len(Outer) = Len(calls) - 1
  BY <1>1, EnvType, OuterType
<1>3. Len(calls') = Len(calls) - 1 /\ \A i \in 1 .. Len(calls) - 1 : calls'[i] = calls[i]
  BY <1>1, ReturnData
<1>4. env' = calls[Len(calls) - 1]
  BY <1>1, <1>2, <1>3 DEF env
<1>5. \A e : Bound(e)' = Bound(e) /\ Declared(e)' = Declared(e)
  BY <1>1 DEF Bound, Declared, Meaning, IsConst, at, Hits
<1>6. /\ Bound(env)' = Bound(calls[Len(calls) - 1])
      /\ Declared(env)' = Declared(calls[Len(calls) - 1])
  BY <1>1, <1>4 DEF Bound, Declared, Meaning, IsConst, at, Hits
<1>7. Outer[Len(calls) - 1] = [bind |-> Bound(calls[Len(calls) - 1]),
                               here |-> Declared(calls[Len(calls) - 1])]
  BY <1>1, <1>2 DEF Outer
<1>8. Outer' = [i \in 1 .. Len(calls) - 2 |->
                   [bind |-> Bound(calls[i]), here |-> Declared(calls[i])]]
  <2>1. Outer' = [i \in 1 .. Len(calls') - 1 |->
                     [bind |-> Bound(calls'[i]), here |-> Declared(calls'[i])]]
    BY <1>1 DEF Outer, Bound, Declared, Meaning, IsConst, at, Hits
  <2>2. Len(calls') - 1 = Len(calls) - 2
    BY <1>2, <1>3
  <2>3. \A i \in 1 .. Len(calls) - 2 : calls'[i] = calls[i]
    BY <1>2, <1>3
  <2> QED BY <2>1, <2>2, <2>3
<1>9. SubSeq(Outer, 1, Len(Outer) - 1) =
          [i \in 1 .. Len(calls) - 2 |->
              [bind |-> Bound(calls[i]), here |-> Declared(calls[i])]]
  <2>1. Outer \in Seq([bind : {Bound(calls[i]) : i \in 1 .. Len(calls)},
                       here : {Declared(calls[i]) : i \in 1 .. Len(calls)}])
    BY <1>1, OuterType
  <2>2. SubSeq(Outer, 1, Len(calls) - 2) = [i \in 1 .. Len(calls) - 2 |-> Outer[i]]
    BY <1>1, <1>2, <2>1
  <2>3. \A i \in 1 .. Len(calls) - 2 :
            Outer[i] = [bind |-> Bound(calls[i]), here |-> Declared(calls[i])]
    BY <1>2 DEF Outer
  <2>4. Len(Outer) - 1 = Len(calls) - 2
    BY <1>2
  <2> QED BY <2>2, <2>3, <2>4
<1>10. Outer # <<>>
  BY <1>1, <1>2
<1> QED BY <1>2, <1>6, <1>7, <1>8, <1>9, <1>10

(* A new level shows what is under it, after the step that adds it.        *)
LEMMA AtCloned ==
    ASSUME TypeOK, NEW e \in 1 .. Len(data), NEW k, chain'[k] = <<k>> \o chain[e],
           k \in Nat, NEW n \in Name, data'[k][n] = NoInfo,
           \A i \in 1 .. Len(chain[e]) :
               data'[chain[e][i]][n] = data[chain[e][i]][n]
    PROVE  at(k, n)' = at(e, n)
<1> DEFINE new == Hits(k, n)'
<1>0. /\ new = {i \in 1 .. Len(chain'[k]) : data'[chain'[k][i]][n] # NoInfo}
      /\ at(k, n)' = IF new = {} THEN NoInfo
                     ELSE data'[chain'[k][CHOOSE h \in new : \A j \in new : h <= j]][n]
  BY DEF Hits, at
<1> HIDE DEF new
<1>1. chain[e] \in Seq(Nat) /\ Len(chain[e]) \in Nat /\ <<k>> \in Seq(Nat)
  BY DEF TypeOK
<1>2. /\ Len(chain'[k]) = Len(chain[e]) + 1
      /\ chain'[k][1] = k
      /\ \A i \in 1 .. Len(chain[e]) : chain'[k][i + 1] = chain[e][i]
  BY <1>1, ConcatProperties
<1>3. \A i \in Hits(e, n) : i + 1 \in new
  <2>1. ASSUME NEW i \in Hits(e, n) PROVE i + 1 \in new
    <3>1. i \in 1 .. Len(chain[e]) /\ data[chain[e][i]][n] # NoInfo
      BY DEF Hits
    <3>2. i + 1 \in 1 .. Len(chain'[k])
      BY <1>1, <1>2, <3>1
    <3>3. data'[chain'[k][i + 1]][n] # NoInfo
      BY <1>2, <3>1
    <3> QED BY <1>0, <3>2, <3>3
  <2> QED BY <2>1
<1>4. \A i \in new : i - 1 \in Hits(e, n)
  <2>1. ASSUME NEW i \in new PROVE i - 1 \in Hits(e, n)
    <3>1. i \in 1 .. Len(chain[e]) + 1 /\ i # 1
      BY <1>0, <1>1, <1>2
    <3>2. i - 1 \in 1 .. Len(chain[e]) /\ (i - 1) + 1 = i
      BY <1>1, <3>1
    <3>3. chain'[k][i] = chain[e][i - 1]
      BY <1>2, <3>2
    <3> QED BY <1>0, <3>2, <3>3 DEF Hits
  <2> QED BY <2>1
<1>5. new \subseteq Nat /\ Hits(e, n) \subseteq Nat
  <2>1. new \subseteq 1 .. Len(chain[e]) + 1
    BY <1>0, <1>2
  <2>2. Hits(e, n) \subseteq 1 .. Len(chain[e])
    BY DEF Hits
  <2> QED BY <1>1, <2>1, <2>2
<1>6. CASE Hits(e, n) = {}
  BY <1>0, <1>4, <1>6 DEF at
<1>7. CASE Hits(e, n) # {}
  <2>1. PICK l \in Hits(e, n) : \A j \in Hits(e, n) : l <= j
    BY <1>5, <1>7, Least
  <2>2. \A h \in Hits(e, n) : (\A j \in Hits(e, n) : h <= j) => h = l
    BY <1>5, <2>1
  <2>3. (CHOOSE h \in Hits(e, n) : \A j \in Hits(e, n) : h <= j) = l
    BY <2>1, <2>2
  <2>4. l + 1 \in new /\ \A j \in new : l + 1 <= j
    BY <1>3, <1>4, <1>5, <2>1
  <2>5. \A h \in new : (\A j \in new : h <= j) => h = l + 1
    BY <1>5, <2>4
  <2>6. (CHOOSE h \in new : \A j \in new : h <= j) = l + 1
    BY <2>4, <2>5
  <2>7. l \in 1 .. Len(chain[e]) /\ chain'[k][l + 1] = chain[e][l]
    BY <1>2, <2>1 DEF Hits
  <2>8. at(k, n)' = data'[chain[e][l]][n]
    BY <1>0, <2>4, <2>6, <2>7
  <2>9. at(e, n) = data[chain[e][l]][n]
    BY <1>7, <2>3 DEF at
  <2> QED BY <2>7, <2>8, <2>9
<1> QED BY <1>6, <1>7

(* The same environments, where nothing that they look through changes.    *)
LEMMA SeenSame ==
    ASSUME IInv, Growing, NEW e \in 1 .. Len(data), chain'[e] = chain[e],
           \A x \in 1 .. e : data'[x] = data[x]
    PROVE  Bound(e)' = Bound(e) /\ Declared(e)' = Declared(e)
<1>1. TypeOK /\ Linked
  BY DEF IInv
<1>2. \A i \in 1 .. Len(chain[e]) : chain[e][i] \in 1 .. e
  BY <1>1 DEF Linked
<1>3. e \in 1 .. e
  BY <1>1, EnvType
<1>4. \A n \in Name : at(e, n)' = at(e, n)
  BY <1>1, <1>2, AtSame
<1>5. Bound(e)' = Bound(e)
  BY <1>4, BoundSame
<1>6. data'[e] = data[e]
  BY <1>3
<1>7. Declared(e)' = {n \in Name : data'[e][n] # NoInfo}
  BY DEF Declared
<1> QED BY <1>5, <1>6, <1>7 DEF Declared

\* clone opens an empty scope within the present one.
LEMMA MapCloning ==
    ASSUME IInv, Cloning
    PROVE  /\ Bound(env)' = Bound(env) /\ Declared(env)' = {}
           /\ Outer' = Append(Outer, [bind |-> Bound(env), here |-> Declared(env)])
<1> DEFINE Level(e) == [bind |-> Bound(e), here |-> Declared(e)]
<1>1. TypeOK /\ Linked /\ clone /\ nodes' = nodes
  BY DEF IInv, Cloning
<1>2. Growing
  BY <1>1 DEF Growing, TypeOK
<1>3. PICK c : c = env
  OBVIOUS
<1>4. PICK k : k = Len(data) + 1
  OBVIOUS
<1>5. c \in 1 .. Len(data) /\ Len(data) \in Nat /\ Len(calls) \in Nat \ {0} /\ k \in Nat
  BY <1>1, <1>3, <1>4, EnvType
<1>6. /\ \A e \in 1 .. Len(data) : data'[e] = data[e] /\ chain'[e] = chain[e]
      /\ \A m \in Name : data'[k][m] = NoInfo
      /\ chain'[k] = <<k>> \o chain[c]
      /\ Len(calls') = Len(calls) + 1
      /\ \A i \in 1 .. Len(calls) : calls'[i] = calls[i]
      /\ calls'[Len(calls) + 1] = k
  BY <1>1, <1>3, <1>4, CloneData
<1>7. env' = k
  BY <1>6 DEF env
<1>8. \A i \in 1 .. Len(chain[c]) : chain[c][i] \in 1 .. Len(data)
  BY <1>1, <1>5 DEF Linked
<1>9. \A n \in Name : at(k, n)' = at(c, n)
  <2>1. ASSUME NEW n \in Name PROVE at(k, n)' = at(c, n)
    <3>1. \A i \in 1 .. Len(chain[c]) :
              data'[chain[c][i]][n] = data[chain[c][i]][n]
      BY <1>6, <1>8
    <3>2. data'[k][n] = NoInfo /\ chain'[k] = <<k>> \o chain[c]
      BY <1>6
    <3> QED BY <1>1, <1>5, <3>1, <3>2, AtCloned
  <2> QED BY <2>1
<1>10. Bound(k)' = Bound(c)
  BY <1>2, <1>5, <1>9, BoundSame
<1>11. Declared(k)' = {}
  <2>1. Declared(k)' = {n \in Name : data'[k][n] # NoInfo}
    BY DEF Declared
  <2> QED BY <1>6, <2>1
<1>12. Bound(env)' = Bound(env) /\ Declared(env)' = {}
  <2>1. Bound(env)' = Bound(k)' /\ Declared(env)' = Declared(k)'
    BY <1>7 DEF Bound, Declared, Meaning, IsConst, at, Hits
  <2>2. Bound(env) = Bound(c)
    BY <1>3
  <2> QED BY <1>10, <1>11, <2>1, <2>2
<1>13. \A e \in 1 .. Len(data) : Bound(e)' = Bound(e) /\ Declared(e)' = Declared(e)
  <2>1. ASSUME NEW e \in 1 .. Len(data)
        PROVE  chain'[e] = chain[e] /\ \A x \in 1 .. e : data'[x] = data[x]
    BY <1>5, <1>6
  <2> QED BY <1>2, <2>1, SeenSame
<1>14. \A i \in 1 .. Len(calls) : calls[i] \in 1 .. Len(data)
  BY <1>1, SMTT(30) DEF TypeOK
<1>15. Outer' = [i \in 1 .. Len(calls) |-> Level(calls[i])]
  <2>1. \A i \in 1 .. Len(calls) : Level(calls[i])' = Level(calls[i])
    <3>1. ASSUME NEW i \in 1 .. Len(calls) PROVE Level(calls[i])' = Level(calls[i])
      <4>1. PICK e \in 1 .. Len(data) : e = calls[i]
        BY <1>14
      <4>2. calls'[i] = e
        BY <1>6, <4>1
      <4>3. Level(calls[i])' = Level(e)'
        BY <4>2 DEF Bound, Declared, Meaning, IsConst, at, Hits
      <4>4. Level(e)' = Level(e)
        BY <1>13
      <4> QED BY <4>1, <4>3, <4>4
    <3> QED BY <3>1
  <2>2. Outer' = [i \in 1 .. Len(calls') - 1 |-> Level(calls[i])']
    BY DEF Outer
  <2>3. Len(calls') - 1 = Len(calls)
    BY <1>5, <1>6
  <2> QED BY <2>1, <2>2, <2>3
<1>16. Append(Outer, Level(env)) = [i \in 1 .. Len(calls) |-> Level(calls[i])]
  <2> DEFINE S == {Level(calls[i]) : i \in 1 .. Len(calls)}
             all == [i \in 1 .. Len(calls) |-> Level(calls[i])]
  <2>1. Outer = [i \in 1 .. Len(calls) - 1 |-> Level(calls[i])]
    BY DEF Outer
  <2>2. env = calls[Len(calls)] /\ Len(calls) \in 1 .. Len(calls)
    BY <1>5 DEF env
  <2> HIDE DEF Level
  <2>3. Level(env) \in S
    BY <2>2
  <2>4. Len(calls) - 1 \in Nat
    BY <1>5
  <2>5. Outer \in Seq(S) /\ Len(Outer) = Len(calls) - 1
    BY <2>1, <2>4
  <2>6. all \in Seq(S) /\ Len(all) = Len(calls)
    BY <1>5
  <2>7. /\ Append(Outer, Level(env)) \in Seq(S)
        /\ Len(Append(Outer, Level(env))) = Len(calls)
        /\ \A i \in 1 .. Len(Outer) : Append(Outer, Level(env))[i] = Outer[i]
        /\ Append(Outer, Level(env))[Len(calls)] = Level(env)
    BY <1>5, <2>3, <2>5, AppendProperties
  <2>8. \A i \in 1 .. Len(calls) : Append(Outer, Level(env))[i] = all[i]
    <3>1. ASSUME NEW i \in 1 .. Len(calls) PROVE Append(Outer, Level(env))[i] = all[i]
      <4>1. CASE i \in 1 .. Len(calls) - 1
        <5>1. Append(Outer, Level(env))[i] = Outer[i]
          BY <2>5, <2>7, <4>1
        <5>2. Outer[i] = Level(calls[i])
          BY <2>1, <4>1
        <5> QED BY <5>1, <5>2
      <4>2. CASE i = Len(calls)
        BY <2>2, <2>7, <4>2
      <4>3. i \in 1 .. Len(calls) - 1 \/ i = Len(calls)
        BY <1>5
      <4> QED BY <4>1, <4>2, <4>3
    <3> QED BY <3>1
  <2> HIDE DEF all, S
  <2>9. Append(Outer, Level(env)) = all
    BY <2>6, <2>7, <2>8, SeqEqual
  <2> QED BY <2>9 DEF all
<1> QED BY <1>12, <1>15, <1>16

(* AtOwn, after a step.                                                    *)
LEMMA AtEntered ==
    ASSUME NEW e, Len(chain'[e]) \in Nat \ {0}, chain'[e][1] = e,
           NEW n \in Name, data'[e][n] # NoInfo
    PROVE  at(e, n)' = data'[e][n]
<1> DEFINE new == Hits(e, n)'
<1>1. /\ new = {i \in 1 .. Len(chain'[e]) : data'[chain'[e][i]][n] # NoInfo}
      /\ at(e, n)' = IF new = {} THEN NoInfo
                     ELSE data'[chain'[e][CHOOSE h \in new : \A j \in new : h <= j]][n]
  BY DEF Hits, at
<1> HIDE DEF new
<1>2. 1 \in new /\ \A j \in new : 1 <= j
  <2>1. \A j \in new : j \in 1 .. Len(chain'[e])
    BY <1>1, Zenon
  <2>2. 1 \in 1 .. Len(chain'[e]) /\ data'[chain'[e][1]][n] # NoInfo
    OBVIOUS
  <2>3. 1 \in new
    BY <1>1, <2>2, Zenon
  <2>4. \A j \in 1 .. Len(chain'[e]) : 1 <= j /\ j \in Int
    OBVIOUS
  <2> QED BY <2>1, <2>3, <2>4, Zenon
<1>3. \A h \in new : (\A j \in new : h <= j) => h = 1
  <2>1. \A h \in new : h \in 1 .. Len(chain'[e])
    BY <1>1, Zenon
  <2>2. \A h \in 1 .. Len(chain'[e]) : h <= 1 => h = 1
    OBVIOUS
  <2> QED BY <1>2, <2>1, <2>2, Zenon
<1>4. (CHOOSE h \in new : \A j \in new : h <= j) = 1
  BY <1>2, <1>3
<1> QED BY <1>1, <1>2, <1>4

\* A declaration is bound in the innermost scope.
LEMMA MapEntering ==
    ASSUME IInv, NEW kind \in Kind \cup {"function"}, NEW n \in Name,
           NEW count \in Nat, Entered(kind, n, count), UNCHANGED <<chain, calls>>
    PROVE  /\ Declared(env)' = Declared(env) \cup {n}
           /\ \/ \E b \in [decl : 1 .. MaxNodes, const : BOOLEAN] :
                     Bound(env)' = [Bound(env) EXCEPT ![n] = b]
              \/ n \in Declared(env) /\ Bound(env)' = Bound(env)
           /\ Outer' = Outer
<1> DEFINE Level(e) == [bind |-> Bound(e), here |-> Declared(e)]
           info == [category |-> category_of(kind), count |-> count,
                    ptr |-> Len(nodes) + 1]
<1>1. TypeOK /\ Linked
  BY DEF IInv
<1>2. PICK c : c = env
  OBVIOUS
<1>3. c \in 1 .. Len(data) /\ Len(calls) \in Nat \ {0} /\ env' = c
  BY <1>1, <1>2, EnvType DEF env
<1>4. /\ info \in Info
      /\ data' \in Seq([Name -> Info \cup {NoInfo}]) /\ Len(data') = Len(data)
      /\ \A e \in 1 .. Len(data) : \A m \in Name :
             (e # c \/ m # n) => data'[e][m] = data[e][m]
      /\ data[c][n] = NoInfo => data'[c][n] = info
      /\ data[c][n] # NoInfo => data'[c][n] = data[c][n]
  BY <1>1, <1>2, EnteredData
<1>5. /\ Len(nodes') = Len(nodes) + 1 /\ Len(nodes') <= MaxNodes /\ Len(nodes) \in Nat
      /\ \A d \in 1 .. Len(nodes) : nodes'[d] = nodes[d]
  BY <1>1, EnteredNodes
<1>6. Growing
  BY <1>5 DEF Growing
<1>7. info # NoInfo /\ info.ptr = Len(nodes) + 1
  BY <1>5 DEF NoInfo
<1> HIDE DEF info
<1>8. \A e \in 1 .. Len(data) : data[e] \in [Name -> Info \cup {NoInfo}]
                             /\ data'[e] \in [Name -> Info \cup {NoInfo}]
  BY <1>1, <1>4 DEF TypeOK
<1>9. \A e \in 1 .. Len(data) : (e # c \/ data[c][n] # NoInfo) => data'[e] = data[e]
  <2>1. ASSUME NEW e \in 1 .. Len(data), e # c \/ data[c][n] # NoInfo
        PROVE  data'[e] = data[e]
    <3>1. \A m \in Name : data'[e][m] = data[e][m]
      BY <1>4, <2>1
    <3>2. /\ data[e] \in [Name -> Info \cup {NoInfo}]
          /\ data'[e] \in [Name -> Info \cup {NoInfo}]
      BY <1>8
    <3> QED BY <3>1, <3>2
  <2> QED BY <2>1
<1>10. \A e \in 1 .. Len(data) : (e < c \/ data[c][n] # NoInfo) =>
           Bound(e)' = Bound(e) /\ Declared(e)' = Declared(e)
  <2>1. ASSUME NEW e \in 1 .. Len(data), e < c \/ data[c][n] # NoInfo
        PROVE  Bound(e)' = Bound(e) /\ Declared(e)' = Declared(e)
    <3>1. \A x \in 1 .. e : x \in 1 .. Len(data) /\ (e < c => x # c)
      BY <1>1, <1>3, EnvType
    <3>2. \A x \in 1 .. e : data'[x] = data[x]
      BY <1>9, <2>1, <3>1
    <3>3. chain'[e] = chain[e]
      OBVIOUS
    <3> QED BY <1>6, <3>2, <3>3, SeenSame
  <2> QED BY <2>1
<1>11. Outer' = Outer
  <2>1. \A i \in 1 .. Len(calls) - 1 : Level(calls[i])' = Level(calls[i])
    <3>1. ASSUME NEW i \in 1 .. Len(calls) - 1 PROVE Level(calls[i])' = Level(calls[i])
      <4>1. i \in 1 .. Len(calls) /\ Len(calls) \in 1 .. Len(calls) /\ i < Len(calls)
        BY <1>3
      <4>2. calls[i] \in 1 .. Len(data)
        BY <1>1, <4>1 DEF TypeOK
      <4>3. calls[i] < c
        BY <1>1, <1>2, <4>1 DEF Linked, env
      <4>4. PICK e \in 1 .. Len(data) : e = calls[i]
        BY <4>2
      <4>5. calls'[i] = e
        BY <4>4
      <4>6. Level(calls[i])' = Level(e)'
        BY <4>5 DEF Bound, Declared, Meaning, IsConst, at, Hits
      <4>7. Level(e)' = Level(e)
        BY <1>10, <4>3, <4>4
      <4> QED BY <4>4, <4>6, <4>7
    <3> QED BY <3>1
  <2>2. Outer' = [i \in 1 .. Len(calls') - 1 |-> Level(calls[i])']
    BY DEF Outer
  <2>3. Outer = [i \in 1 .. Len(calls) - 1 |-> Level(calls[i])]
    BY DEF Outer
  <2>4. Len(calls') = Len(calls)
    OBVIOUS
  <2> HIDE DEF Level
  <2> QED BY <2>1, <2>2, <2>3, <2>4
<1>12. Bound(env)' = Bound(c)' /\ Declared(env)' = Declared(c)'
  BY <1>3 DEF Bound, Declared, Meaning, IsConst, at, Hits
<1>13. CASE data[c][n] # NoInfo
  <2>1. Bound(c)' = Bound(c) /\ Declared(c)' = Declared(c)
    BY <1>3, <1>10, <1>13
  <2>2. n \in Declared(c)
    BY <1>13 DEF Declared
  <2>3. Declared(c) = Declared(c) \cup {n}
    BY <2>2
  <2> QED BY <1>2, <1>11, <1>12, <2>1, <2>2, <2>3
<1>14. CASE data[c][n] = NoInfo
  <2>1. Declared(c)' = Declared(c) \cup {n}
    <3>1. Declared(c)' = {m \in Name : data'[c][m] # NoInfo}
      BY DEF Declared
    <3>2. data'[c][n] # NoInfo
      BY <1>4, <1>7, <1>14
    <3>3. \A m \in Name : m # n => data'[c][m] = data[c][m]
      BY <1>3, <1>4
    <3> QED BY <3>1, <3>2, <3>3 DEF Declared
  <2>2. Len(chain'[c]) \in Nat \ {0} /\ chain'[c][1] = c
    BY <1>1, <1>3 DEF Linked, TypeOK
  <2>3. at(c, n)' = info
    BY <1>4, <1>7, <1>14, <2>2, AtEntered
  <2>4. \A m \in Name : m # n => Meaning(at(c, m))' = Meaning(at(c, m))
    <3>1. ASSUME NEW m \in Name, m # n
          PROVE  Meaning(at(c, m))' = Meaning(at(c, m))
      <4>1. \A i \in 1 .. Len(chain[c]) : chain[c][i] \in 1 .. Len(data)
        BY <1>1, <1>3, EnvType DEF Linked
      <4>2. \A i \in 1 .. Len(chain[c]) :
                data'[chain[c][i]][m] = data[chain[c][i]][m]
        BY <1>4, <3>1, <4>1
      <4>3. chain'[c] = chain[c]
        OBVIOUS
      <4>4. at(c, m)' = at(c, m)
        BY <1>1, <1>3, <4>2, <4>3, AtSame
      <4> QED BY <1>3, <1>6, <4>4, MeaningSame
    <3> QED BY <3>1
  <2> DEFINE b == Meaning(at(c, n))'
  <2>5. b \in [decl : 1 .. MaxNodes, const : BOOLEAN]
    <3>1. b = [decl |-> info.ptr, const |-> IsConst(at(c, n))']
      BY <2>3 DEF Meaning
    <3>2. info.ptr \in 1 .. MaxNodes
      BY <1>5, <1>7, ScopesAssumption
    <3>3. IsConst(at(c, n))' \in BOOLEAN
      BY DEF IsConst
    <3> QED BY <3>1, <3>2, <3>3
  <2>6. Bound(c)' = [Bound(c) EXCEPT ![n] = b]
    <3>1. Bound(c)' = [m \in Name |-> Meaning(at(c, m))']
      BY DEF Bound
    <3>2. Bound(c) = [m \in Name |-> Meaning(at(c, m))]
      BY DEF Bound
    <3> QED BY <2>4, <3>1, <3>2
  <2> HIDE DEF b
  <2> QED BY <1>2, <1>11, <1>12, <2>1, <2>5, <2>6
<1> QED BY <1>13, <1>14

\* The initial states are those of lexical scoping.
LEMMA InitMaps ==
    ASSUME Init
    PROVE  Lexical!Init
<1>1. IInv
  BY InitInv
<1>2. /\ data[1] = [n \in Name |-> IF n \in Library
                       THEN [category |-> "function", count |-> 0, ptr |-> 0]
                       ELSE NoInfo]
      /\ Len(data) = 1 /\ calls[1] = 1 /\ Len(calls) = 1
      /\ Len(chain[1]) = 1 /\ chain[1][1] = 1 /\ answer = NoInfo /\ Running
  BY DEF Init, Running
<1>3. env = 1 /\ Outer = <<>>
  BY <1>2 DEF env, Outer
<1>4. \A n \in Name : at(1, n) = data[1][n]
  <2>1. ASSUME NEW n \in Name PROVE at(1, n) = data[1][n]
    <3>1. CASE data[1][n] # NoInfo
      BY <1>1, <1>2, <3>1, AtOwn DEF IInv
    <3>2. CASE data[1][n] = NoInfo
      <4>1. Hits(1, n) = {}
        BY <1>2, <3>2 DEF Hits
      <4> QED BY <3>2, <4>1 DEF at
    <3> QED BY <3>1, <3>2
  <2> QED BY <2>1
<1>5. \A n \in Name : Meaning(at(1, n)) = IF n \in Library THEN Lexical!OfLibrary
                                                          ELSE Lexical!Free
  <2>1. ASSUME NEW n \in Name, NEW i, i = at(1, n)
        PROVE  Meaning(i) = IF n \in Library THEN Lexical!OfLibrary ELSE Lexical!Free
    <3>1. i.ptr = IF n \in Library THEN 0 ELSE -1
      BY <1>2, <1>4, <2>1 DEF NoInfo
    <3>2. IsConst(i) = FALSE
      BY <3>1 DEF IsConst
    <3> QED BY <3>1, <3>2 DEF Meaning, Lexical!OfLibrary, Lexical!Free
  <2> QED BY <2>1
<1>6. Bound(env) = [n \in Name |-> IF n \in Library THEN Lexical!OfLibrary
                                                   ELSE Lexical!Free]
  BY <1>3, <1>5 DEF Bound
<1>7. Declared(env) = Library
  <2>1. [category |-> "function", count |-> 0, ptr |-> 0] # NoInfo
    BY DEF NoInfo
  <2>2. \A n \in Name : data[1][n] # NoInfo <=> n \in Library
    BY <1>2, <2>1
  <2> QED BY <1>3, <2>2, ScopesAssumption DEF Declared
<1>8. Meaning(answer) = Lexical!Free /\ (~Running) = FALSE
  <2>1. answer.ptr = -1
    BY <1>2 DEF NoInfo
  <2>2. IsConst(answer) = FALSE
    BY <2>1 DEF IsConst
  <2> QED BY <1>2, <2>1, <2>2 DEF Meaning, Lexical!Free
<1> QED BY <1>3, <1>6, <1>7, <1>8 DEF Lexical!Init, Outer

(* A name that is asked for, or that stops the walk.                       *)
LEMMA MapAsking ==
    ASSUME IInv, Still, NEW n \in Name, Running, at(env, n) # NoInfo,
           answer' = at(env, n), outcome' = outcome
    PROVE  Lexical!Next
<1>1. TypeOK /\ Linked /\ Growing
  BY DEF IInv, Still, Growing, TypeOK
<1>2. PICK e \in 1 .. Len(data) : e = env
  BY <1>1, EnvType
<1>3. at(e, n).ptr \in Nat
  BY <1>1, <1>2, AtType DEF Info
<1>4. Bound(env)[n] = Meaning(at(e, n))
  BY <1>2 DEF Bound
<1>5. Bound(env)[n] # Lexical!Free
  BY <1>3, <1>4 DEF Meaning, Lexical!Free
<1>6. Meaning(answer)' = Bound(env)[n]
  BY <1>2, <1>4 DEF Still, Meaning, IsConst
<1>7. Bound(env)' = Bound(env) /\ Declared(env)' = Declared(env) /\ Outer' = Outer
  BY MapStill
<1>8. ~~Running /\ (~Running)' = (~Running)
  BY DEF Running
<1>9. Lexical!Ask(n)
  BY <1>5, <1>6, <1>7, <1>8 DEF Lexical!Ask, Outer
<1> QED BY <1>9 DEF Lexical!Next

\* A use that is refused is a failure of lexical scoping.
LEMMA MapFailing ==
    ASSUME IInv, Still, NEW n \in Name, Running, ~IsConst(at(env, n)),
           answer' = answer, outcome' # "running"
    PROVE  Lexical!Next
<1>1. TypeOK /\ Growing
  BY DEF IInv, Still, Growing, TypeOK
<1>2. ~Bound(env)[n].const
  BY DEF Bound, Meaning
<1>3. Meaning(answer)' = Meaning(answer)
  BY <1>1, AnswerSame
<1>4. Bound(env)' = Bound(env) /\ Declared(env)' = Declared(env) /\ Outer' = Outer
  BY MapStill
<1>5. ~~Running /\ (~Running)' = TRUE
  BY DEF Running
<1>6. Lexical!Fail(n)
  BY <1>2, <1>3, <1>4, <1>5 DEF Lexical!Fail, Outer
<1> QED BY <1>6 DEF Lexical!Next

\* A declaration is one of lexical scoping.
LEMMA MapDeclaring ==
    ASSUME IInv, NEW kind \in Kind \cup {"function"}, NEW n \in Name,
           NEW count \in Nat, Entered(kind, n, count), Next, Running,
           UNCHANGED <<chain, calls, answer, outcome>>
    PROVE  Lexical!Next
<1>1. Growing
  BY Grows
<1>2. Meaning(answer)' = Meaning(answer)
  BY <1>1, AnswerSame
<1>3. /\ Declared(env)' = Declared(env) \cup {n}
      /\ \/ \E b \in [decl : 1 .. MaxNodes, const : BOOLEAN] :
                Bound(env)' = [Bound(env) EXCEPT ![n] = b]
         \/ n \in Declared(env) /\ Bound(env)' = Bound(env)
      /\ Outer' = Outer
  BY MapEntering
<1>4. ~~Running /\ (~Running)' = (~Running)
  BY DEF Running
<1>5. Lexical!Declare(n)
  BY <1>2, <1>3, <1>4 DEF Lexical!Declare, Outer
<1> QED BY <1>5 DEF Lexical!Next

\* Opening and closing a scope are those of lexical scoping.
LEMMA MapNesting ==
    ASSUME IInv, Cloning \/ Returning, Next, Running, UNCHANGED <<answer, outcome>>
    PROVE  Lexical!Next
<1>1. Growing
  BY Grows
<1>2. Meaning(answer)' = Meaning(answer)
  BY <1>1, AnswerSame
<1>3. ~~Running /\ (~Running)' = (~Running)
  BY DEF Running
<1>4. CASE Cloning
  <2>1. Lexical!Enter
    BY <1>2, <1>3, <1>4, MapCloning DEF Lexical!Enter, Outer
  <2> QED BY <2>1 DEF Lexical!Next
<1>5. CASE Returning
  <2>1. Lexical!Leave
    BY <1>2, <1>3, <1>5, MapReturning DEF Lexical!Leave, Outer
  <2> QED BY <2>1 DEF Lexical!Next
<1> QED BY <1>4, <1>5

\* Every step is a step of lexical scoping or none.
LEMMA StepMaps ==
    ASSUME IInv, Next
    PROVE  [Lexical!Next]_(Lexical!vars)
<1>1. TypeOK /\ Placed
  BY DEF IInv
<1>2. ASSUME NEW kind \in Kind, NEW n \in Name, BeginDeclaration(kind, n)
      PROVE  UNCHANGED Lexical!vars
  <2>1. Still /\ Growing
    BY <1>1, <1>2, Grows DEF BeginDeclaration, Still
  <2>2. Meaning(answer)' = Meaning(answer)
    BY <1>2, <2>1, AnswerSame DEF BeginDeclaration
  <2>3. (~Running)' = (~Running)
    BY <1>2 DEF BeginDeclaration, Running
  <2> QED BY <2>1, <2>2, <2>3, MapStill DEF Lexical!vars, Outer
<1>3. ASSUME NEW n \in Name, Dimension(n) PROVE Lexical!Next
  <2>1. Still /\ Running
    BY <1>3 DEF Dimension, Still
  <2>2. CASE IsConst(at(env, n)) /\ answer' = at(env, n) /\ outcome' = outcome
    <3>1. at(env, n) # NoInfo
      BY <2>2 DEF IsConst, NoInfo
    <3> QED BY <2>1, <2>2, <3>1, MapAsking
  <2>3. CASE ~IsConst(at(env, n)) /\ outcome' = "refused" /\ answer' = answer
    BY <2>1, <2>3, MapFailing
  <2> QED BY <1>3, <2>2, <2>3 DEF Dimension
<1>4. ASSUME NEW n \in Name, Use(n) PROVE Lexical!Next
  <2>1. Still /\ Running
    BY <1>4 DEF Use, Still
  <2>2. CASE at(env, n) # NoInfo /\ answer' = at(env, n) /\ outcome' = outcome
    BY <2>1, <2>2, MapAsking
  <2>3. CASE at(env, n) = NoInfo /\ outcome' = "aborted" /\ answer' = answer
    <3>1. ~IsConst(at(env, n))
      BY <2>3 DEF IsConst, NoInfo
    <3> QED BY <2>1, <2>3, <3>1, MapFailing
  <2> QED BY <1>4, <2>2, <2>3 DEF Use
<1>5. ASSUME NEW n \in Name, BeginFunction(n) PROVE Lexical!Next
  <2>1. /\ Entered("function", n, 0) /\ Running
        /\ UNCHANGED <<chain, calls, answer, outcome>>
    BY <1>5 DEF BeginFunction
  <2>2. Next
    OBVIOUS
  <2>3. "function" \in Kind \cup {"function"} /\ 0 \in Nat
    OBVIOUS
  <2> QED BY <2>1, <2>2, <2>3, MapDeclaring
<1>6. CASE EndDeclaration
  <2>1. pending \in Pending /\ variable_count \in Nat /\ param_cnt \in Nat
    BY <1>1, <1>6 DEF TypeOK, EndDeclaration
  <2>2. /\ pending.kind \in Kind \cup {"function"} /\ "parameter" \in Kind \cup {"function"}
        /\ pending.name \in Name
    BY <2>1 DEF Pending, Kind
  <2>3. Running /\ UNCHANGED <<chain, calls, answer, outcome>>
    BY <1>6 DEF EndDeclaration
  <2>4. \/ Entered("parameter", pending.name, param_cnt)
        \/ Entered(pending.kind, pending.name, variable_count)
    BY <1>6 DEF EndDeclaration
  <2> QED BY <2>1, <2>2, <2>3, <2>4, MapDeclaring
<1>7. CASE RefuseDeclaration
  <2>1. Still /\ Running /\ answer' = answer /\ outcome' # "running" /\ ~Evaluates
    BY <1>7 DEF RefuseDeclaration, Still
  <2>2. pending \in Pending
    BY <1>1, <1>7 DEF TypeOK, RefuseDeclaration
  <2>3. pending.used \subseteq Name
    BY <2>2 DEF Pending
  <2>4. PICK n \in pending.used : ~IsConst(at(env, n))
    BY <2>1 DEF Evaluates
  <2> QED BY <2>1, <2>3, <2>4, MapFailing
<1>8. CASE EnterFunction \/ BeginBody \/ OpenBlock
  <2>1. Cloning /\ Running /\ UNCHANGED <<answer, outcome>>
    BY <1>8 DEF EnterFunction, BeginBody, OpenBlock, Cloning
  <2> QED BY <2>1, MapNesting
<1>9. CASE CloseBlock \/ EndFunction
  <2>1. Len(calls) > 1
    <3>1. where \in {"body", "leaving"}
      BY <1>9 DEF CloseBlock, EndFunction
    <3> QED BY <1>1, <3>1, EnvType DEF Placed
  <2>2. Returning /\ Running /\ UNCHANGED <<answer, outcome>>
    BY <1>9, <2>1 DEF CloseBlock, EndFunction, Returning
  <2> QED BY <2>2, MapNesting
<1> QED BY <1>2, <1>3, <1>4, <1>5, <1>6, <1>7, <1>8, <1>9 DEF Next

(* The environments of typecheck() implement lexical scoping: every name   *)
(* that is resolved has the meaning of the innermost declaration read so   *)
(* far, and the walk stops only at names that have none or are no          *)
(* constants where constants are needed.                                   *)
THEOREM Refinement == Spec => ImplementsScoping
<1>1. UNCHANGED vars => UNCHANGED Lexical!vars
  BY DEF vars, Lexical!vars, Bound, Declared, Meaning, IsConst, at, Hits, env, Running
<1>2. IInv /\ [Next]_vars => [Lexical!Next]_(Lexical!vars)
  BY <1>1, StepMaps
<1> QED BY Inductive, InitMaps, <1>2, PTL DEF Spec, ImplementsScoping, Lexical!Spec
=============================================================================
