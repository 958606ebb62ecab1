--------------------------- MODULE CodeGenProofs ---------------------------
(***************************************************************************)
(* The code generator is right for every function, symbol, word, register  *)
(* file and layout: the generated code implements the Pinkie code.          *)
(*                                                                         *)
(* In order: what each generated unit does (ExecSets and on), the layout    *)
(* of memory (PlacesApart), runs of units (Execute...), the register pool   *)
(* (NextRegisters), what the code of each Pinkie unit does (Loaded, Stored, *)
(* ...Does), that every action keeps the inductive invariant IInv           *)
(* (...Keeps), and the theorems.                                            *)
(***************************************************************************)
EXTENDS CodeGen, FiniteSetTheorems, WellFoundedInduction, TLAPS

\* A well-founded relation has minimal elements.
LEMMA MinimalElement ==
    ASSUME NEW R, NEW S, IsWellFoundedOn(R, S), NEW T, T \subseteq S, T # {}
    PROVE  \E x \in T : \A y \in T : ~ (<<y, x>> \in R)
  BY WFMin, ZenonT(60)

\* Being smaller is well-founded on the natural numbers.
LEMMA SmallerIsWellFounded ==
    \E R : /\ IsWellFoundedOn(R, Nat)
           /\ \A x, y \in Nat : x < y => <<x, y>> \in R
<1>1. \A x, y \in Nat : x < y => <<x, y>> \in OpToRel(<, Nat)
  BY Zenon DEF OpToRel
<1> QED BY <1>1, NatLessThanWellFounded, Zenon

\* A set of natural numbers that is not empty has a least element: what stands
\* in for induction, which the provers cannot do.
LEMMA Least ==
    ASSUME NEW T, T \subseteq Nat, T # {}
    PROVE  \E x \in T : \A y \in T : x <= y
<1>1. PICK R : /\ IsWellFoundedOn(R, Nat)
               /\ \A x, y \in Nat : x < y => <<x, y>> \in R
  BY SmallerIsWellFounded, Zenon
<1>2. IsWellFoundedOn(R, Nat)
  BY <1>1
<1>3. \E x \in T : \A y \in T : ~ (<<y, x>> \in R)
  BY <1>2, MinimalElement, ZenonT(60)
<1>4. PICK x \in T : \A y \in T : ~ (<<y, x>> \in R)
  BY <1>3, Zenon
<1>5. ASSUME NEW y \in T PROVE x <= y
  <2>1. x \in Nat /\ y \in Nat /\ ~ (y < x)
    BY <1>1, <1>4, Zenon
  <2> QED BY <2>1
<1> QED BY <1>5, Zenon

-----------------------------------------------------------------------------
(* What one unit does, by its type.                                         *)
LEMMA ExecSets ==
    ASSUME NEW s, NEW c
    PROVE  /\ c.type = "cr" => Exec(s, c) = SetReg(s, c.dst, s.regs[c.src])
           /\ c.type = "ci" => Exec(s, c) = SetReg(s, c.dst, c.imm)
           /\ c.type \in {"rglo", "rstk"} => Exec(s, c) = SetReg(s, c.dst, Read(s, c.addr))
           /\ c.type \in {"ptrglo", "ptrstk"} => Exec(s, c) = SetReg(s, c.dst, c.addr)
           /\ c.type = "ur" => Exec(s, c) = SetReg(s, c.dst, Word1(Un, s.regs[c.src]))
           /\ c.type = "rbi" => Exec(s, c) = SetReg(s, c.dst, Word2(c.bop, s.regs[c.src1], c.imm))
           /\ c.type = "rbr" => Exec(s, c) = SetReg(s, c.dst, Word2(c.bop, s.regs[c.src1], s.regs[c.src2]))
           /\ c.type = "ar" => Exec(s, c) = SetReg(s, c.dst, Read(s, s.regs[c.src] + c.incr))
           /\ c.type = "wstk" => Exec(s, c) = SetMem(s, c.addr, s.regs[c.src])
           /\ c.type = "aw" => Exec(s, c) = SetMem(s, s.regs[c.dst] + c.incr, s.regs[c.src])
<1>1. ASSUME c.type = "cr" PROVE Exec(s, c) = SetReg(s, c.dst, s.regs[c.src])
  BY <1>1 DEF Exec
<1>2. ASSUME c.type = "ci" PROVE Exec(s, c) = SetReg(s, c.dst, c.imm)
  BY <1>2 DEF Exec
<1>3. ASSUME c.type \in {"rglo", "rstk"} PROVE Exec(s, c) = SetReg(s, c.dst, Read(s, c.addr))
  BY <1>3 DEF Exec
<1>4. ASSUME c.type \in {"ptrglo", "ptrstk"} PROVE Exec(s, c) = SetReg(s, c.dst, c.addr)
  BY <1>4 DEF Exec
<1>5. ASSUME c.type = "ur" PROVE Exec(s, c) = SetReg(s, c.dst, Word1(Un, s.regs[c.src]))
  BY <1>5 DEF Exec
<1>6. ASSUME c.type = "rbi" PROVE Exec(s, c) = SetReg(s, c.dst, Word2(c.bop, s.regs[c.src1], c.imm))
  BY <1>6 DEF Exec
<1>7. ASSUME c.type = "rbr" PROVE Exec(s, c) = SetReg(s, c.dst, Word2(c.bop, s.regs[c.src1], s.regs[c.src2]))
  BY <1>7 DEF Exec
<1>8. ASSUME c.type = "ar" PROVE Exec(s, c) = SetReg(s, c.dst, Read(s, s.regs[c.src] + c.incr))
  BY <1>8 DEF Exec
<1>9. ASSUME c.type = "wstk" PROVE Exec(s, c) = SetMem(s, c.addr, s.regs[c.src])
  BY <1>9 DEF Exec
<1>10. ASSUME c.type = "aw" PROVE Exec(s, c) = SetMem(s, s.regs[c.dst] + c.incr, s.regs[c.src])
  BY <1>10 DEF Exec
<1> QED BY <1>1, <1>2, <1>3, <1>4, <1>5, <1>6, <1>7, <1>8, <1>9, <1>10, Zenon

(* The shapes of the code.                                                  *)
LEMMA CodeUnary ==
    ASSUME NEW f, NEW u, NEW t0, NEW t1, NEW t2, u.type = "unary"
    PROVE  Code(f, u, t0, t1, t2) =
           <<load(f, t0, u.src), [type |-> "ur", dst |-> t0, src |-> t0]>>
             \o store(f, t0, u.dst, t2)
BY DEF Code

(* A binary unit whose second operand is a literal.                         *)
LEMMA CodeBinaryLiteral ==
    ASSUME NEW f, NEW u, NEW t0, NEW t1, NEW t2, u.type = "binary" /\ u.src2.ns = "literal"
    PROVE  Code(f, u, t0, t1, t2) =
           <<load(f, t0, u.src1),
             [type |-> "rbi", bop |-> u.bop, dst |-> t0, src1 |-> t0, imm |-> u.src2.id]>>
             \o store(f, t0, u.dst, t2)
BY DEF Code

(* A binary unit on two variables.                                          *)
LEMMA CodeBinary ==
    ASSUME NEW f, NEW u, NEW t0, NEW t1, NEW t2, u.type = "binary" /\ u.src2.ns # "literal"
    PROVE  Code(f, u, t0, t1, t2) =
           <<load(f, t0, u.src1), load(f, t1, u.src2), rbr(u.bop, t0, t0, t1)>>
             \o store(f, t0, u.dst, t2)
BY DEF Code

(* A copy.                                                                  *)
LEMMA CodeCopy ==
    ASSUME NEW f, NEW u, NEW t0, NEW t1, NEW t2, u.type = "copy"
    PROVE  Code(f, u, t0, t1, t2) = <<load(f, t0, u.src)>> \o store(f, t0, u.dst, t2)
BY DEF Code

(* A write to an array at a literal offset.                                 *)
LEMMA CodeAwLiteral ==
    ASSUME NEW f, NEW u, NEW t0, NEW t1, NEW t2, u.type = "aw" /\ u.incr.ns = "literal"
    PROVE  Code(f, u, t0, t1, t2) =
           <<load(f, t0, u.dst), load(f, t1, u.src),
             [type |-> "aw", dst |-> t0, src |-> t1, incr |-> u.incr.id]>>
BY DEF Code

(* A write to an array at an offset that is computed.                       *)
LEMMA CodeAw ==
    ASSUME NEW f, NEW u, NEW t0, NEW t1, NEW t2, u.type = "aw" /\ u.incr.ns # "literal"
    PROVE  Code(f, u, t0, t1, t2) =
           <<load(f, t0, u.dst), load(f, t1, u.incr), rbr("plus", t0, t0, t1),
             load(f, t1, u.src), [type |-> "aw", dst |-> t0, src |-> t1, incr |-> 0]>>
BY DEF Code

(* A read of an array at a literal offset.                                  *)
LEMMA CodeArLiteral ==
    ASSUME NEW f, NEW u, NEW t0, NEW t1, NEW t2, u.type = "ar" /\ u.incr.ns = "literal"
    PROVE  Code(f, u, t0, t1, t2) =
           <<load(f, t1, u.src), [type |-> "ar", dst |-> t0, src |-> t1, incr |-> u.incr.id]>>
             \o store(f, t0, u.dst, t2)
BY DEF Code

(* A read of an array at an offset that is computed.                        *)
LEMMA CodeAr ==
    ASSUME NEW f, NEW u, NEW t0, NEW t1, NEW t2, u.type = "ar" /\ u.incr.ns # "literal"
    PROVE  Code(f, u, t0, t1, t2) =
           <<load(f, t1, u.src), load(f, t0, u.incr), rbr("plus", t1, t1, t0),
             [type |-> "ar", dst |-> t0, src |-> t1, incr |-> 0]>>
             \o store(f, t0, u.dst, t2)
BY DEF Code

(* A conditional jump loads what it tests.                                  *)
LEMMA CodeJc ==
    ASSUME NEW f, NEW u, NEW t0, NEW t1, NEW t2, u.type = "jc"
    PROVE  Code(f, u, t0, t1, t2) = <<load(f, t0, u.src1)>>
BY DEF Code

(* An argument is loaded into its register.                                 *)
LEMMA CodeParam ==
    ASSUME NEW f, NEW u, NEW t0, NEW t1, NEW t2, u.type = "param"
    PROVE  Code(f, u, t0, t1, t2) = <<load(f, abi_argument(param_c), u.src)>>
BY DEF Code

(* A call with a result stores a0.                                          *)
LEMMA CodeCalli ==
    ASSUME NEW f, NEW u, NEW t0, NEW t1, NEW t2, u.type = "calli"
    PROVE  Code(f, u, t0, t1, t2) = store(f, Arg(0), u.dst, t2)
BY DEF Code

(* A return with a value loads it into a0.                                  *)
LEMMA CodeReti ==
    ASSUME NEW f, NEW u, NEW t0, NEW t1, NEW t2, u.type = "reti"
    PROVE  Code(f, u, t0, t1, t2) = <<load(f, Arg(0), u.src)>>
BY DEF Code

(* The rest needs no code that touches a register.                          *)
LEMMA CodeNone ==
    ASSUME NEW f, NEW u, NEW t0, NEW t1, NEW t2, u.type \in {"label", "jmp", "callv", "retv"}
    PROVE  Code(f, u, t0, t1, t2) = <<>>
BY DEF Code

M(r, m) == [regs |-> r, mem |-> m]

(* Setting a register or a word of a machine state.                         *)
LEMMA Setters ==
    ASSUME NEW r, NEW m
    PROVE  /\ \A x, v : SetReg(M(r, m), x, v) = M([r EXCEPT ![x] = v], m)
           /\ \A a, v : SetMem(M(r, m), a, v) = M(r, [m EXCEPT ![a] = v])
           /\ M(r, m).regs = r /\ M(r, m).mem = m
BY DEF M, SetReg, SetMem

(* cr sets a register to another.                                           *)
LEMMA ExecCr ==
    ASSUME NEW r, NEW m, NEW c, c.type = "cr"
    PROVE  Exec(M(r, m), c) = M([r EXCEPT ![c.dst] = r[c.src]], m)
<1> DEFINE s == M(r, m)
<1>1. Exec(s, c) = SetReg(s, c.dst, s.regs[c.src])
  BY ExecSets
<1>2. s.regs = r
  BY Setters
<1>3. SetReg(s, c.dst, r[c.src]) = M([r EXCEPT ![c.dst] = r[c.src]], m)
  BY Setters
<1> QED BY <1>1, <1>2, <1>3, Zenon

(* ci sets a register to a constant.                                        *)
LEMMA ExecCi ==
    ASSUME NEW r, NEW m, NEW c, c.type = "ci"
    PROVE  Exec(M(r, m), c) = M([r EXCEPT ![c.dst] = c.imm], m)
<1> DEFINE s == M(r, m)
<1>1. Exec(s, c) = SetReg(s, c.dst, c.imm)
  BY ExecSets
<1>2. s.regs = r
  BY Setters
<1>3. SetReg(s, c.dst, c.imm) = M([r EXCEPT ![c.dst] = c.imm], m)
  BY Setters
<1> QED BY <1>1, <1>2, <1>3, Zenon

(* rglo and rstk set a register to a word of memory.                        *)
LEMMA ExecRead ==
    ASSUME NEW r, NEW m, NEW c, c.type \in {"rglo", "rstk"}
    PROVE  Exec(M(r, m), c) = M([r EXCEPT ![c.dst] = Read(M(r, m), c.addr)], m)
<1> DEFINE s == M(r, m)
<1>1. Exec(s, c) = SetReg(s, c.dst, Read(s, c.addr))
  BY ExecSets
<1>2. s.regs = r
  BY Setters
<1>3. SetReg(s, c.dst, Read(s, c.addr)) = M([r EXCEPT ![c.dst] = Read(s, c.addr)], m)
  BY Setters
<1> QED BY <1>1, <1>2, <1>3, Zenon

(* ptrglo and ptrstk set a register to an address.                          *)
LEMMA ExecPtr ==
    ASSUME NEW r, NEW m, NEW c, c.type \in {"ptrglo", "ptrstk"}
    PROVE  Exec(M(r, m), c) = M([r EXCEPT ![c.dst] = c.addr], m)
<1> DEFINE s == M(r, m)
<1>1. Exec(s, c) = SetReg(s, c.dst, c.addr)
  BY ExecSets
<1>2. s.regs = r
  BY Setters
<1>3. SetReg(s, c.dst, c.addr) = M([r EXCEPT ![c.dst] = c.addr], m)
  BY Setters
<1> QED BY <1>1, <1>2, <1>3, Zenon

(* ur applies the unary operator.                                           *)
LEMMA ExecUr ==
    ASSUME NEW r, NEW m, NEW c, c.type = "ur"
    PROVE  Exec(M(r, m), c) = M([r EXCEPT ![c.dst] = Word1(Un, r[c.src])], m)
<1> DEFINE s == M(r, m)
<1>1. Exec(s, c) = SetReg(s, c.dst, Word1(Un, s.regs[c.src]))
  BY ExecSets
<1>2. s.regs = r
  BY Setters
<1>3. SetReg(s, c.dst, Word1(Un, r[c.src])) = M([r EXCEPT ![c.dst] = Word1(Un, r[c.src])], m)
  BY Setters
<1> QED BY <1>1, <1>2, <1>3, Zenon

(* rbi applies a binary operator to a register and a constant.              *)
LEMMA ExecRbi ==
    ASSUME NEW r, NEW m, NEW c, c.type = "rbi"
    PROVE  Exec(M(r, m), c) = M([r EXCEPT ![c.dst] = Word2(c.bop, r[c.src1], c.imm)], m)
<1> DEFINE s == M(r, m)
<1>1. Exec(s, c) = SetReg(s, c.dst, Word2(c.bop, s.regs[c.src1], c.imm))
  BY ExecSets
<1>2. s.regs = r
  BY Setters
<1>3. SetReg(s, c.dst, Word2(c.bop, r[c.src1], c.imm)) = M([r EXCEPT ![c.dst] = Word2(c.bop, r[c.src1], c.imm)], m)
  BY Setters
<1> QED BY <1>1, <1>2, <1>3, Zenon

(* rbr applies a binary operator to two registers.                          *)
LEMMA ExecRbr ==
    ASSUME NEW r, NEW m, NEW c, c.type = "rbr"
    PROVE  Exec(M(r, m), c) = M([r EXCEPT ![c.dst] = Word2(c.bop, r[c.src1], r[c.src2])], m)
<1> DEFINE s == M(r, m)
<1>1. Exec(s, c) = SetReg(s, c.dst, Word2(c.bop, s.regs[c.src1], s.regs[c.src2]))
  BY ExecSets
<1>2. s.regs = r
  BY Setters
<1>3. SetReg(s, c.dst, Word2(c.bop, r[c.src1], r[c.src2])) = M([r EXCEPT ![c.dst] = Word2(c.bop, r[c.src1], r[c.src2])], m)
  BY Setters
<1> QED BY <1>1, <1>2, <1>3, Zenon

(* ar reads at an address that a register holds.                            *)
LEMMA ExecAr ==
    ASSUME NEW r, NEW m, NEW c, c.type = "ar"
    PROVE  Exec(M(r, m), c) = M([r EXCEPT ![c.dst] = Read(M(r, m), r[c.src] + c.incr)], m)
<1> DEFINE s == M(r, m)
<1>1. Exec(s, c) = SetReg(s, c.dst, Read(s, s.regs[c.src] + c.incr))
  BY ExecSets
<1>2. s.regs = r
  BY Setters
<1>3. SetReg(s, c.dst, Read(s, r[c.src] + c.incr)) = M([r EXCEPT ![c.dst] = Read(s, r[c.src] + c.incr)], m)
  BY Setters
<1> QED BY <1>1, <1>2, <1>3, Zenon

(* wstk writes a word of the frame.                                         *)
LEMMA ExecWstk ==
    ASSUME NEW r, NEW m, NEW c, c.type = "wstk"
    PROVE  Exec(M(r, m), c) = M(r, [m EXCEPT ![c.addr] = r[c.src]])
<1> DEFINE s == M(r, m)
<1>1. Exec(s, c) = SetMem(s, c.addr, s.regs[c.src])
  BY ExecSets
<1>2. s.regs = r
  BY Setters
<1>3. SetMem(s, c.addr, r[c.src]) = M(r, [m EXCEPT ![c.addr] = r[c.src]])
  BY Setters
<1> QED BY <1>1, <1>2, <1>3, Zenon

(* aw writes at an address that a register holds.                           *)
LEMMA ExecAw ==
    ASSUME NEW r, NEW m, NEW c, c.type = "aw"
    PROVE  Exec(M(r, m), c) = M(r, [m EXCEPT ![r[c.dst] + c.incr] = r[c.src]])
<1> DEFINE s == M(r, m)
<1>1. Exec(s, c) = SetMem(s, s.regs[c.dst] + c.incr, s.regs[c.src])
  BY ExecSets
<1>2. s.regs = r
  BY Setters
<1>3. SetMem(s, r[c.dst] + c.incr, r[c.src]) = M(r, [m EXCEPT ![r[c.dst] + c.incr] = r[c.src]])
  BY Setters
<1> QED BY <1>1, <1>2, <1>3, Zenon

-----------------------------------------------------------------------------
(* Layout: the words of a symbol, of the symbols before it, of the frame.   *)

Kinds == {"var", "param", "temp"}

(* A symbol of n bytes has its words at 0, 4, and so on below n.            *)
LEMMA OffsetsCount ==
    ASSUME NEW len \in Nat, len % 4 = 0
    PROVE  /\ IsFiniteSet(Offsets(len))
           /\ Cardinality(Offsets(len)) \in Nat
           /\ \A k \in Offsets(len) :
                k \in Nat /\ k % 4 = 0 /\ k < 4 * Cardinality(Offsets(len))
<1>1. CASE len = 0
  <2>1. Offsets(len) = {0}
    BY <1>1 DEF Offsets
  <2>2. IsFiniteSet(Offsets(len)) /\ Cardinality(Offsets(len)) = 1
    BY <2>1, FS_Singleton, Zenon
  <2> QED BY <2>1, <2>2
<1>2. CASE len # 0
  <2> DEFINE q == len \div 4
             at == [i \in 1 .. q |-> 4 * (i - 1)]
  <2>1. q \in Nat /\ len = 4 * q
    OBVIOUS
  <2>2. Offsets(len) = {k \in 0 .. len - 1 : k % 4 = 0}
    BY <1>2 DEF Offsets
  <2>3. \A i \in 1 .. q : at[i] \in Offsets(len)
    BY <2>1, <2>2
  <2>4. \A k \in Offsets(len) : \E i \in 1 .. q : at[i] = k
    <3> SUFFICES ASSUME NEW k \in Offsets(len) PROVE \E i \in 1 .. q : at[i] = k
      OBVIOUS
    <3>1. k \in 0 .. len - 1 /\ k % 4 = 0
      BY <2>2
    <3>2. (k \div 4) + 1 \in 1 .. q /\ 4 * (k \div 4) = k
      BY <3>1, <2>1
    <3>3. at[(k \div 4) + 1] = k
      BY <3>1, <3>2
    <3> QED BY <3>2, <3>3
  <2>5. \A i, j \in 1 .. q : at[i] = at[j] => i = j
    BY <2>1
  <2>6. at \in Bijection(1 .. q, Offsets(len))
    BY <2>3, <2>4, <2>5 DEF Bijection, Injection, Surjection, IsInjective
  <2>7. ExistsBijection(1 .. q, Offsets(len))
    BY <2>6, Zenon DEF ExistsBijection
  <2>8. Cardinality(Offsets(len)) = q
    BY <2>1, <2>7, FS_CountingElements, Zenon
  <2>9. IsFiniteSet(Offsets(len))
    BY <2>1, <2>7, FS_NatBijection, Zenon
  <2>10. \A k \in Offsets(len) : k \in Nat /\ k % 4 = 0 /\ k < 4 * q
    BY <2>1, <2>2
  <2> HIDE DEF q
  <2> QED BY <2>1, <2>8, <2>9, <2>10
<1> QED BY <1>1, <1>2

(* Finitely many symbols have finitely many words.                          *)
LEMMA CellsFinite ==
    ASSUME NEW S, IsFiniteSet(S), NEW kinds, S \subseteq Declared(kinds)
    PROVE  IsFiniteSet(CellsOf(S))
<1> DEFINE words == [s \in S |-> {s.name} \X Offsets(s.len)]
           R == {words[s] : s \in S}
<1>1. words \in Surjection(S, R)
  BY DEF Surjection
<1>2. IsFiniteSet(R)
  BY <1>1, FS_Surjection, Zenon
<1>3. ASSUME NEW s \in S PROVE IsFiniteSet(words[s])
  <2>1. s.len \in Nat /\ s.len % 4 = 0
    BY DEF Declared
  <2>2. IsFiniteSet(Offsets(s.len))
    BY <2>1, OffsetsCount
  <2>3. IsFiniteSet({s.name} \X Offsets(s.len))
    BY <2>2, FS_Singleton, FS_Product, Zenon
  <2> QED BY <2>3
<1>4. IsFiniteSet(UNION R)
  BY <1>2, <1>3, FS_UNION, Zenon
<1>5. UNION R = CellsOf(S)
  BY DEF CellsOf
<1> QED BY <1>4, <1>5

(* The locals are the declared ones and the parameters.                     *)
LEMMA LocalSymbols ==
    ASSUME NEW f \in DOMAIN Fun
    PROVE  /\ Local[f] = Fun[f].decl
                           \cup [name : {Param(i) : i \in 0 .. Fun[f].arity - 1}, len : {0}]
           /\ Local[f] \subseteq Declared(Kinds)
           /\ IsFiniteSet(Local[f])
<1>1. Local[f] = Fun[f].decl
                   \cup [name : {Param(i) : i \in 0 .. Fun[f].arity - 1}, len : {0}]
  BY DEF Local
<1>2. Fun[f].decl \subseteq Declared({"var", "temp"}) /\ Fun[f].arity \in Nat
  BY SymbolAssumption
<1>3. Fun[f].decl \subseteq Declared(Kinds)
  BY <1>2 DEF Declared, Kinds
<1> DEFINE P == [name : {Param(i) : i \in 0 .. Fun[f].arity - 1}, len : {0}]
           param == [i \in 0 .. Fun[f].arity - 1 |-> [name |-> Param(i), len |-> 0]]
<1>4. P \subseteq Declared(Kinds)
  BY <1>2 DEF Declared, Kinds, Param
<1>5. IsFiniteSet(P)
  <2>1. param \in Surjection(0 .. Fun[f].arity - 1, P)
    BY DEF Surjection
  <2>2. IsFiniteSet(0 .. Fun[f].arity - 1)
    <3>1. 0 \in Int /\ Fun[f].arity - 1 \in Int
      BY <1>2
    <3> QED BY <3>1, FS_Interval, Zenon
  <2> HIDE DEF P, param
  <2> QED BY <2>1, <2>2, FS_Surjection, Zenon
<1>6. IsFiniteSet(Fun[f].decl)
  BY SymbolAssumption
<1>7. IsFiniteSet(Local[f])
  <2> HIDE DEF P, param
  <2>1. Local[f] = Fun[f].decl \cup P
    BY <1>1 DEF P
  <2> QED BY <2>1, <1>5, <1>6, FS_Union, Zenon
<1> QED BY <1>1, <1>3, <1>4, <1>7

(* At least one saved register is used, and at most all are.                *)
LEMMA Heuristic ==
    ASSUME NEW f \in DOMAIN Fun
    PROVE  callee_saved_heuristic[f] \in 1 .. NSave
<1> DEFINE n == Cardinality(Fun[f].decl)
           x == IF n < 6 THEN 0 ELSE ((n - 6) * 8) \div 10
<1>1. n \in Nat
  <2>1. IsFiniteSet(Fun[f].decl)
    BY SymbolAssumption
  <2> QED BY <2>1, FS_CardinalityType, Zenon
<1>2. x \in Nat
  <2> HIDE DEF n
  <2> QED BY <1>1
<1>3. callee_saved_heuristic[f] = IF x < 1 THEN 1 ELSE IF x > NSave THEN NSave ELSE x
  BY DEF callee_saved_heuristic
<1> HIDE DEF x
<1> QED BY <1>2, <1>3, RegisterAssumption

(* Before is a strict total order on the names of a function.               *)
LEMMA BeforeOrders ==
    ASSUME NEW o \in [ns : Kinds, id : Nat], NEW p \in [ns : Kinds, id : Nat],
           NEW q \in [ns : Kinds, id : Nat]
    PROVE  /\ ~Before(o, o)
           /\ Before(o, p) /\ Before(p, q) => Before(o, q)
           /\ o # p => Before(o, p) \/ Before(p, o)
<1>1. \A k \in Kinds : Rank(k) \in 1 .. 3
  BY DEF Kinds, Rank
<1>2. \A k, l \in Kinds : Rank(k) = Rank(l) => k = l
  BY DEF Kinds, Rank
<1>3. o = p <=> o.ns = p.ns /\ o.id = p.id
  OBVIOUS
<1> QED BY <1>1, <1>2, <1>3 DEF Before

(* What an offset counts grows with the symbols counted.                    *)
LEMMA OffsetGrows ==
    ASSUME NEW f \in DOMAIN Fun, NEW S, NEW T, NEW s, s \in T, s \notin S,
           S \subseteq T, T \subseteq Local[f]
    PROVE  /\ OffsetAfter(f, S) \in Nat
           /\ OffsetAfter(f, S) % 4 = 0
           /\ OffsetAfter(f, S) >= 4 * callee_saved_heuristic[f]
           /\ OffsetAfter(f, S) + 4 * Cardinality(Offsets(s.len)) <= OffsetAfter(f, T)
<1> DEFINE A == CellsOf(S)
           B == {s.name} \X Offsets(s.len)
           C == CellsOf(T)
<1>1. T \subseteq Declared(Kinds) /\ IsFiniteSet(T)
  <2>1. T \subseteq Declared(Kinds)
    BY LocalSymbols
  <2>2. IsFiniteSet(T)
    BY LocalSymbols, FS_Subset, Zenon
  <2> QED BY <2>1, <2>2
<1>2. IsFiniteSet(C)
  BY <1>1, CellsFinite, Zenon
<1>3. A \subseteq C /\ B \subseteq C
  BY DEF CellsOf
<1>4. A \cap B = {}
  <2>1. \A t \in S : t.name # s.name
    <3>1. \A t \in S : t \in Symbols[f] /\ s \in Symbols[f] /\ t # s
      BY DEF Symbols
    <3> QED BY <3>1, SymbolAssumption
  <2> QED BY <2>1 DEF CellsOf
<1>5. IsFiniteSet(A) /\ IsFiniteSet(B)
  BY <1>2, <1>3, FS_Subset, Zenon
<1>6. Cardinality(B) = Cardinality(Offsets(s.len)) /\ Cardinality(B) \in Nat
  <2>1. s.len \in Nat /\ s.len % 4 = 0
    BY <1>1 DEF Declared
  <2>2. IsFiniteSet(Offsets(s.len)) /\ Cardinality(Offsets(s.len)) \in Nat
    BY <2>1, OffsetsCount
  <2>3. IsFiniteSet({s.name}) /\ Cardinality({s.name}) = 1
    BY FS_Singleton, Zenon
  <2>4. Cardinality(B) = Cardinality({s.name}) * Cardinality(Offsets(s.len))
    BY <2>2, <2>3, FS_Product, Zenon
  <2> HIDE DEF B
  <2> QED BY <2>2, <2>3, <2>4
<1>7. Cardinality(A) \in Nat /\ Cardinality(C) \in Nat
  BY <1>2, <1>5, FS_CardinalityType, Zenon
<1>8. Cardinality(A) + Cardinality(B) <= Cardinality(C)
  <2>1. Cardinality(A \cup B) = Cardinality(A) + Cardinality(B) - Cardinality(A \cap B)
    BY <1>5, FS_Union, Zenon
  <2>2. Cardinality(A \cap B) = 0
    <3>1. Cardinality({}) = 0
      BY FS_EmptySet, Zenon
    <3> QED BY <3>1, <1>4, Zenon
  <2>3. Cardinality(A \cup B) <= Cardinality(C)
    <3>1. A \cup B \in SUBSET C
      BY <1>3, Zenon
    <3> QED BY <3>1, <1>2, FS_Subset, Zenon
  <2> HIDE DEF A, B, C
  <2> QED BY <1>6, <1>7, <2>1, <2>2, <2>3
<1>9. callee_saved_heuristic[f] \in Nat
  BY Heuristic, RegisterAssumption
<1>10. OffsetAfter(f, S) = 4 * (callee_saved_heuristic[f] + Cardinality(A))
       /\ OffsetAfter(f, T) = 4 * (callee_saved_heuristic[f] + Cardinality(C))
  BY DEF OffsetAfter
<1> HIDE DEF A, B, C
<1> QED BY <1>6, <1>7, <1>8, <1>9, <1>10

(* A global is where g_lookup has it.                                       *)
LEMMA GlobalPlace ==
    ASSUME NEW f \in DOMAIN Fun, NEW g \in Global
    PROVE  Address[f][g.name] = GlobalBase[g.name] /\ g.name \in DOMAIN GlobalBase
<1>1. g \in Symbols[f] /\ g.name \in DOMAIN GlobalBase
  BY MemoryAssumption DEF Symbols
<1> QED BY <1>1 DEF Address

\* The symbols of the frame that come before a symbol.
Earlier(f, s) == {t \in Local[f] : Before(t.name, s.name)}

(* A local is in the frame, behind the words of the earlier ones.           *)
LEMMA LocalPlace ==
    ASSUME NEW f \in DOMAIN Fun, NEW s \in Local[f], s \notin Global
    PROVE  /\ Address[f][s.name] = Frame + OffsetAfter(f, Earlier(f, s))
           /\ s.name \notin DOMAIN GlobalBase
<1>1. s \in Symbols[f]
  BY DEF Symbols
<1>2. s.name \notin DOMAIN GlobalBase
  <2>1. \A g \in Global : g.name # s.name
    BY <1>1, SymbolAssumption DEF Symbols
  <2> QED BY <2>1, MemoryAssumption
<1>3. compute_offset[f][s.name] = OffsetAfter(f, Earlier(f, s))
  BY DEF compute_offset, Earlier
<1> QED BY <1>1, <1>2, <1>3 DEF Address

(* Before one symbol come all that come before an earlier one.              *)
LEMMA EarlierGrows ==
    ASSUME NEW f \in DOMAIN Fun, NEW s \in Local[f]
    PROVE  /\ s \notin Earlier(f, s) /\ Earlier(f, s) \subseteq Local[f]
           /\ \A t \in Local[f] : Before(s.name, t.name) =>
                s \in Earlier(f, t) /\ Earlier(f, s) \subseteq Earlier(f, t)
<1>1. \A t \in Local[f] : t.name \in [ns : Kinds, id : Nat]
  BY LocalSymbols DEF Declared
<1> QED BY <1>1, BeforeOrders DEF Earlier

(* A word of a local is a word of the frame above the saved registers.      *)
LEMMA LocalInFrame ==
    ASSUME NEW f \in DOMAIN Fun, NEW s \in Local[f], s \notin Global, NEW k \in Offsets(s.len)
    PROVE  /\ Address[f][s.name] + k \in FrameWords[f]
           /\ Address[f][s.name] + k >= Frame + 4 * callee_saved_heuristic[f]
           /\ Address[f][s.name] \in Nat
<1> DEFINE off == OffsetAfter(f, Earlier(f, s))
           n == Cardinality(Offsets(s.len))
<1>1. /\ off \in Nat /\ off % 4 = 0 /\ off >= 4 * callee_saved_heuristic[f]
      /\ off + 4 * n <= frame[f]
  <2>1. frame[f] = OffsetAfter(f, Local[f])
    BY DEF frame
  <2> QED BY <2>1, OffsetGrows, EarlierGrows
<1>2. k \in Nat /\ k % 4 = 0 /\ k < 4 * n /\ n \in Nat
  <2>1. s.len \in Nat /\ s.len % 4 = 0
    BY LocalSymbols DEF Declared
  <2> QED BY <2>1, OffsetsCount
<1>3. Address[f][s.name] = Frame + off /\ Frame \in Nat
  BY LocalPlace, MemoryAssumption
<1>4. FrameWords[f] = {Frame + j : j \in Offsets(frame[f])}
  BY DEF FrameWords
<1>5. callee_saved_heuristic[f] \in Nat /\ frame[f] \in Int
  <2>1. callee_saved_heuristic[f] \in Nat
    BY Heuristic, RegisterAssumption
  <2>2. IsFiniteSet(CellsOf(Local[f]))
    BY LocalSymbols, CellsFinite, Zenon
  <2>3. Cardinality(CellsOf(Local[f])) \in Nat
    BY <2>2, FS_CardinalityType, Zenon
  <2>4. frame[f] = 4 * (callee_saved_heuristic[f] + Cardinality(CellsOf(Local[f])))
    BY DEF frame, OffsetAfter
  <2> QED BY <2>1, <2>3, <2>4
<1> HIDE DEF off, n
<1>6. off + k \in 0 .. frame[f] - 1 /\ (off + k) % 4 = 0 /\ frame[f] # 0
  BY <1>1, <1>2, <1>5
<1>7. off + k \in Offsets(frame[f])
  BY <1>6 DEF Offsets
<1>8. Frame + (off + k) \in FrameWords[f]
  BY <1>4, <1>7
<1>9. Address[f][s.name] + k = Frame + (off + k)
  BY <1>1, <1>2, <1>3
<1>10. Address[f][s.name] + k >= Frame + 4 * callee_saved_heuristic[f]
  BY <1>1, <1>2, <1>3, <1>5
<1> QED BY <1>1, <1>3, <1>8, <1>9, <1>10

(* The words of a local end where a later one begins, or before.            *)
LEMMA LocalsApart ==
    ASSUME NEW f \in DOMAIN Fun, NEW s \in Local[f], NEW t \in Local[f],
           s \notin Global, t \notin Global, Before(s.name, t.name),
           NEW k \in Offsets(s.len), NEW l \in Offsets(t.len)
    PROVE  Address[f][s.name] + k < Address[f][t.name] + l
<1> DEFINE off == OffsetAfter(f, Earlier(f, s))
           next == OffsetAfter(f, Earlier(f, t))
           n == Cardinality(Offsets(s.len))
<1>1. off \in Nat /\ off + 4 * n <= next
  BY OffsetGrows, EarlierGrows
<1>2. next \in Nat
  BY OffsetGrows, EarlierGrows
<1>3. k \in Nat /\ k < 4 * n /\ n \in Nat /\ l \in Nat
  <2>1. s.len \in Nat /\ s.len % 4 = 0 /\ t.len \in Nat /\ t.len % 4 = 0
    BY LocalSymbols DEF Declared
  <2> QED BY <2>1, OffsetsCount
<1>4. Address[f][s.name] = Frame + off /\ Address[f][t.name] = Frame + next /\ Frame \in Nat
  BY LocalPlace, MemoryAssumption
<1> HIDE DEF off, next, n
<1> QED BY <1>1, <1>2, <1>3, <1>4

AddressOf(f, c) == Address[f][c[1]] + c[2]

(* A word belongs to a global or to a local.                                *)
LEMMA CellSymbol ==
    ASSUME NEW f \in DOMAIN Fun, NEW c \in Cells[f]
    PROVE  \/ c \in GlobalCells
           \/ \E s \in Local[f] \ Global : c[1] = s.name /\ c[2] \in Offsets(s.len)
BY DEF Cells, CellsOf, GlobalCells, Symbols

(* A word is a pair of a name and an offset.                                *)
LEMMA CellPair ==
    ASSUME NEW f \in DOMAIN Fun, NEW c \in Cells[f] PROVE c = <<c[1], c[2]>>
BY DEF Cells, CellsOf

(* A word of a global is among the words of the globals.                    *)
LEMMA GlobalSpot ==
    ASSUME NEW f \in DOMAIN Fun, NEW c \in GlobalCells
    PROVE  /\ AddressOf(f, c) = GlobalBase[c[1]] + c[2]
           /\ AddressOf(f, c) \in GlobalWords
           /\ AddressOf(f, c) \in Nat
           /\ c \in Cells[f]
<1>1. PICK g \in Global : c[1] = g.name /\ c[2] \in Offsets(g.len)
  BY DEF GlobalCells, CellsOf
<1>2. Address[f][c[1]] = GlobalBase[c[1]] /\ GlobalBase[c[1]] \in Nat
  BY <1>1, GlobalPlace, MemoryAssumption
<1>3. c[2] \in Nat
  <2>1. g.len \in Nat /\ g.len % 4 = 0
    BY SymbolAssumption DEF Declared
  <2> QED BY <1>1, <2>1, OffsetsCount
<1>4. c \in Cells[f]
  BY DEF GlobalCells, Cells, CellsOf, Symbols
<1> QED BY <1>2, <1>3, <1>4 DEF AddressOf, GlobalWords

(* A word of a local is in the frame, past the saved registers.             *)
LEMMA LocalSpot ==
    ASSUME NEW f \in DOMAIN Fun, NEW c \in Cells[f], c \notin GlobalCells
    PROVE  /\ AddressOf(f, c) \in FrameWords[f]
           /\ AddressOf(f, c) >= Frame + 4 * callee_saved_heuristic[f]
           /\ AddressOf(f, c) \in Nat
           /\ \A d \in Cells[f] \ GlobalCells : AddressOf(f, c) = AddressOf(f, d) => c = d
<1>1. PICK s \in Local[f] \ Global : c[1] = s.name /\ c[2] \in Offsets(s.len)
  BY CellSymbol
<1>2. c[2] \in Nat
  <2>1. s.len \in Nat /\ s.len % 4 = 0
    BY LocalSymbols DEF Declared
  <2> QED BY <1>1, <2>1, OffsetsCount
<1>3. /\ Address[f][s.name] + c[2] \in FrameWords[f]
      /\ Address[f][s.name] + c[2] >= Frame + 4 * callee_saved_heuristic[f]
      /\ Address[f][s.name] \in Nat
  BY <1>1, LocalInFrame
<1>4. ASSUME NEW d \in Cells[f] \ GlobalCells, AddressOf(f, c) = AddressOf(f, d) PROVE c = d
  <2>1. PICK t \in Local[f] \ Global : d[1] = t.name /\ d[2] \in Offsets(t.len)
    BY CellSymbol
  <2>2. d[2] \in Nat /\ Address[f][t.name] \in Nat
    <3>1. t.len \in Nat /\ t.len % 4 = 0
      BY LocalSymbols DEF Declared
    <3> QED BY <2>1, <3>1, OffsetsCount, LocalInFrame
  <2>3. ~Before(s.name, t.name) /\ ~Before(t.name, s.name)
    <3>1. Address[f][s.name] + c[2] = Address[f][t.name] + d[2]
      BY <1>1, <1>4, <2>1 DEF AddressOf
    <3>2. Before(s.name, t.name) => Address[f][s.name] + c[2] < Address[f][t.name] + d[2]
      BY <1>1, <2>1, LocalsApart
    <3>3. Before(t.name, s.name) => Address[f][t.name] + d[2] < Address[f][s.name] + c[2]
      BY <1>1, <2>1, LocalsApart
    <3> HIDE DEF AddressOf
    <3> QED BY <1>2, <1>3, <2>2, <3>1, <3>2, <3>3
  <2>4. s.name \in [ns : Kinds, id : Nat] /\ t.name \in [ns : Kinds, id : Nat]
    BY LocalSymbols DEF Declared
  <2>5. s.name = t.name
    BY <2>3, <2>4, BeforeOrders
  <2>6. c[2] = d[2]
    BY <1>1, <1>2, <1>3, <1>4, <2>1, <2>2, <2>5 DEF AddressOf
  <2> QED BY <1>1, <2>1, <2>5, <2>6, CellPair
<1> QED BY <1>1, <1>2, <1>3, <1>4 DEF AddressOf

(* The saved registers have their words in the frame.                       *)
LEMMA SavedInFrame ==
    ASSUME NEW f \in DOMAIN Fun, NEW i \in 0 .. callee_saved_heuristic[f] - 1
    PROVE  Frame + 4 * i \in FrameWords[f]
<1>1. callee_saved_heuristic[f] \in Nat
  BY Heuristic, RegisterAssumption
<1>2. Cardinality(CellsOf(Local[f])) \in Nat
  <2>1. IsFiniteSet(CellsOf(Local[f]))
    BY LocalSymbols, CellsFinite, Zenon
  <2> QED BY <2>1, FS_CardinalityType, Zenon
<1>3. frame[f] = 4 * (callee_saved_heuristic[f] + Cardinality(CellsOf(Local[f])))
  BY DEF frame, OffsetAfter
<1>4. 4 * i \in Offsets(frame[f])
  BY <1>1, <1>2, <1>3 DEF Offsets
<1> QED BY <1>4 DEF FrameWords

(* No two words of the symbols of a function share a place, and none is     *)
(* where the function saves a register.                                     *)
THEOREM PlacesApart ==
    ASSUME NEW f \in DOMAIN Fun, NEW c \in Cells[f]
    PROVE  /\ AddressOf(f, c) \in FrameWords[f] \cup GlobalWords
           /\ AddressOf(f, c) \in Nat
           /\ \A d \in Cells[f] : AddressOf(f, c) = AddressOf(f, d) => c = d
           /\ \A i \in 0 .. callee_saved_heuristic[f] - 1 : AddressOf(f, c) # Frame + 4 * i
<1>1. FrameWords[f] \cap GlobalWords = {}
  BY MemoryAssumption
<1>2. CASE c \in GlobalCells
  <2>1. /\ AddressOf(f, c) = GlobalBase[c[1]] + c[2]
        /\ AddressOf(f, c) \in GlobalWords /\ AddressOf(f, c) \in Nat
    BY <1>2, GlobalSpot
  <2>2. ASSUME NEW d \in Cells[f], AddressOf(f, c) = AddressOf(f, d) PROVE c = d
    <3>1. d \in GlobalCells
      BY <1>1, <2>1, <2>2, LocalSpot
    <3>2. AddressOf(f, d) = GlobalBase[d[1]] + d[2]
      BY <3>1, GlobalSpot
    <3> QED BY <1>2, <2>1, <2>2, <3>1, <3>2, MemoryAssumption
  <2> QED BY <1>1, <2>1, <2>2, SavedInFrame
<1>3. CASE c \notin GlobalCells
  <2>1. /\ AddressOf(f, c) \in FrameWords[f] /\ AddressOf(f, c) \in Nat
        /\ AddressOf(f, c) >= Frame + 4 * callee_saved_heuristic[f]
        /\ \A d \in Cells[f] \ GlobalCells : AddressOf(f, c) = AddressOf(f, d) => c = d
    BY <1>3, LocalSpot
  <2>2. \A d \in GlobalCells : AddressOf(f, d) # AddressOf(f, c)
    BY <1>1, <2>1, GlobalSpot
  <2>3. callee_saved_heuristic[f] \in Nat /\ Frame \in Nat
    BY Heuristic, RegisterAssumption, MemoryAssumption
  <2> QED BY <2>1, <2>2, <2>3
<1> QED BY <1>2, <1>3

-----------------------------------------------------------------------------
(* Execute: the recursion over a piece of code has an answer, and pieces    *)
(* run one after the other.                                                *)

IsRun(m, code, n, g) == g = [i \in 0 .. n |-> IF i = 0 THEN m ELSE Exec(g[i - 1], code[i])]

(* The states after each unit of a code, as a function, exist.              *)
LEMMA RunExists ==
    ASSUME NEW m, NEW code, NEW n \in Nat PROVE \E g : IsRun(m, code, n, g)
<1> DEFINE T == {k \in Nat : ~ \E g : IsRun(m, code, k, g)}
<1> SUFFICES ASSUME T # {} PROVE FALSE
  OBVIOUS
<1>1. PICK x \in T : \A y \in T : x <= y
  BY Least, Zenon
<1>2. CASE x = 0
  <2> DEFINE g == [i \in 0 .. 0 |-> m]
  <2>1. IsRun(m, code, 0, g)
    BY DEF IsRun
  <2> QED BY <1>2, <2>1
<1>3. CASE x # 0
  <2>1. x - 1 \in Nat /\ x - 1 \notin T
    BY <1>1, <1>3
  <2>2. PICK g : IsRun(m, code, x - 1, g)
    BY <2>1
  <2> DEFINE h == [i \in 0 .. x |-> IF i = 0 THEN m ELSE Exec(g[i - 1], code[i])]
  <2>3. \A j \in 0 .. x - 1 : g[j] = IF j = 0 THEN m ELSE Exec(g[j - 1], code[j])
    BY <2>2, Zenon DEF IsRun
  <2>4. \A j \in 0 .. x - 1 : h[j] = IF j = 0 THEN m ELSE Exec(g[j - 1], code[j])
    BY <2>1
  <2>5. \A j \in 0 .. x - 1 : h[j] = g[j]
    BY <2>3, <2>4
  <2>6. \A i \in 0 .. x : i # 0 => i - 1 \in 0 .. x - 1
    BY <2>1
  <2>7. \A i \in 0 .. x : h[i] = IF i = 0 THEN m ELSE Exec(h[i - 1], code[i])
    BY <2>5, <2>6
  <2>8. IsRun(m, code, x, h)
    BY <2>7 DEF IsRun
  <2> QED BY <2>8
<1> QED BY <1>2, <1>3

\* g goes through the states of n units of a piece of code.
Follows(g, code, n) == \A i \in 1 .. n : g[i] = Exec(g[i - 1], code[i])

RunOf(m, code) == CHOOSE g : IsRun(m, code, Len(code), g)

(* Execute goes through those states.                                       *)
LEMMA ExecuteRuns ==
    ASSUME NEW m, NEW code, Len(code) \in Nat
    PROVE  /\ Execute(m, code) = RunOf(m, code)[Len(code)]
           /\ RunOf(m, code)[0] = m
           /\ Follows(RunOf(m, code), code, Len(code))
<1> DEFINE g == RunOf(m, code)
           n == Len(code)
<1>1. IsRun(m, code, n, g)
  BY RunExists, Zenon DEF RunOf
<1>2. Execute(m, code) = g[n]
  BY Zenon DEF Execute, IsRun, RunOf
<1>3. g[0] = m /\ Follows(g, code, n)
  <2> HIDE DEF g
  <2>1. \A i \in 0 .. n : g[i] = IF i = 0 THEN m ELSE Exec(g[i - 1], code[i])
    BY <1>1, Zenon DEF IsRun
  <2> QED BY <2>1 DEF Follows
<1> QED BY <1>2, <1>3

(* Where they come from and how they follow determines them.                *)
LEMMA RunsAgree ==
    ASSUME NEW n \in Nat, NEW code, NEW a, NEW b, a[0] = b[0],
           Follows(a, code, n), Follows(b, code, n)
    PROVE  a[n] = b[n]
<1> DEFINE T == {k \in 0 .. n : a[k] # b[k]}
<1> SUFFICES ASSUME T # {} PROVE FALSE
  OBVIOUS
<1>1. PICK x \in T : \A y \in T : x <= y
  <2>1. T \subseteq Nat
    OBVIOUS
  <2> QED BY <2>1, Least, Zenon
<1>2. x \in 1 .. n
  OBVIOUS
<1>3. x - 1 \in 0 .. n /\ x - 1 \notin T
  BY <1>1, <1>2
<1>4. a[x - 1] = b[x - 1]
  BY <1>3
<1>5. a[x] = Exec(a[x - 1], code[x]) /\ b[x] = Exec(b[x - 1], code[x])
  BY <1>2 DEF Follows
<1> QED BY <1>4, <1>5

(* A concatenation runs one code after the other.                           *)
LEMMA ExecuteJoin ==
    ASSUME NEW S, NEW s \in Seq(S), NEW t \in Seq(S), NEW m
    PROVE  Execute(m, s \o t) = Execute(Execute(m, s), t)
<1> DEFINE st == s \o t
           k == Len(s)
           l == Len(t)
<1>1. /\ k \in Nat /\ l \in Nat /\ k + l = Len(st) /\ k + l \in Nat
      /\ k = Len(s) /\ l = Len(t)
      /\ \A i \in 1 .. k : st[i] = s[i]
      /\ \A i \in 1 .. l : st[k + i] = t[i]
  OBVIOUS
<1> DEFINE a == RunOf(m, st)
           b == RunOf(m, s)
           c == RunOf(Execute(m, s), t)
<1> HIDE DEF st
<1>2. a[0] = m /\ Follows(a, st, k + l) /\ Execute(m, st) = a[k + l]
  BY <1>1, ExecuteRuns, SMTT(60)
<1>3. b[0] = m /\ Follows(b, s, k) /\ Execute(m, s) = b[k]
  BY <1>1, ExecuteRuns
<1>4. /\ c[0] = Execute(m, s) /\ Follows(c, t, l)
      /\ Execute(Execute(m, s), t) = c[l]
  BY <1>1, ExecuteRuns
<1> HIDE DEF k, l, a, b, c
<1> DEFINE d == [i \in 0 .. l |-> a[k + i]]
<1>5. a[k] = b[k]
  <2>1. Follows(a, s, k)
    BY <1>1, <1>2 DEF Follows
  <2> QED BY <1>1, <1>2, <1>3, <2>1, RunsAgree
<1>6. d[0] = c[0]
  BY <1>1, <1>3, <1>4, <1>5
<1>7. Follows(d, t, l)
  <2> SUFFICES ASSUME NEW i \in 1 .. l PROVE d[i] = Exec(d[i - 1], t[i])
    BY DEF Follows
  <2>1. k + i \in 1 .. k + l /\ (k + i) - 1 = k + (i - 1)
    BY <1>1
  <2>2. a[k + i] = Exec(a[k + (i - 1)], t[i])
    BY <1>1, <1>2, <2>1 DEF Follows
  <2> QED BY <1>1, <2>2
<1>8. d[l] = a[k + l]
  BY <1>1
<1>9. d[l] = c[l]
  <2> HIDE DEF d
  <2> QED BY <1>1, <1>4, <1>6, <1>7, RunsAgree
<1> QED BY <1>2, <1>4, <1>8, <1>9 DEF st

(* Pieces of one to five units.                                             *)
LEMMA ExecutePiece ==
    ASSUME NEW m, NEW code, Len(code) \in 0 .. 5
    PROVE  /\ Len(code) = 1 => Execute(m, code) = Exec(m, code[1])
           /\ Len(code) = 2 => Execute(m, code) = Exec(Exec(m, code[1]), code[2])
           /\ Len(code) = 3 => Execute(m, code) = Exec(Exec(Exec(m, code[1]), code[2]), code[3])
           /\ Len(code) = 4 =>
                Execute(m, code) = Exec(Exec(Exec(Exec(m, code[1]), code[2]), code[3]), code[4])
           /\ Len(code) = 5 =>
                Execute(m, code) =
                  Exec(Exec(Exec(Exec(Exec(m, code[1]), code[2]), code[3]), code[4]), code[5])
<1> DEFINE g == RunOf(m, code)
<1>1. Len(code) \in Nat
  OBVIOUS
<1>2. Execute(m, code) = g[Len(code)] /\ g[0] = m /\ Follows(g, code, Len(code))
  BY <1>1, ExecuteRuns, Zenon
<1> HIDE DEF g
<1>3. /\ Len(code) >= 1 => g[1] = Exec(m, code[1])
      /\ Len(code) >= 2 => g[2] = Exec(g[1], code[2])
      /\ Len(code) >= 3 => g[3] = Exec(g[2], code[3])
      /\ Len(code) >= 4 => g[4] = Exec(g[3], code[4])
      /\ Len(code) >= 5 => g[5] = Exec(g[4], code[5])
  <2>1. \A i \in 1 .. Len(code) : g[i] = Exec(g[i - 1], code[i])
    BY <1>2 DEF Follows
  <2>2. /\ (Len(code) >= 1 => 1 \in 1 .. Len(code)) /\ (Len(code) >= 2 => 2 \in 1 .. Len(code))
        /\ (Len(code) >= 3 => 3 \in 1 .. Len(code)) /\ (Len(code) >= 4 => 4 \in 1 .. Len(code))
        /\ Len(code) >= 5 => 5 \in 1 .. Len(code)
    BY <1>1
  <2>3. Len(code) >= 1 => g[1] = Exec(g[0], code[1])
    BY <2>1, <2>2
  <2>4. Len(code) >= 2 => g[2] = Exec(g[1], code[2])
    BY <2>1, <2>2
  <2>5. Len(code) >= 3 => g[3] = Exec(g[2], code[3])
    BY <2>1, <2>2
  <2>6. Len(code) >= 4 => g[4] = Exec(g[3], code[4])
    BY <2>1, <2>2
  <2>7. Len(code) >= 5 => g[5] = Exec(g[4], code[5])
    BY <2>1, <2>2
  <2> QED BY <1>2, <2>3, <2>4, <2>5, <2>6, <2>7
<1>4. CASE Len(code) = 0
  BY <1>4
<1>5. CASE Len(code) = 1
  BY <1>2, <1>3, <1>5
<1>6. CASE Len(code) = 2
  BY <1>1, <1>2, <1>3, <1>6
<1>7. CASE Len(code) = 3
  BY <1>1, <1>2, <1>3, <1>7
<1>8. CASE Len(code) = 4
  BY <1>1, <1>2, <1>3, <1>8
<1>9. CASE Len(code) = 5
  BY <1>1, <1>2, <1>3, <1>9
<1> QED BY <1>4, <1>5, <1>6, <1>7, <1>8, <1>9

(* One unit.                                                                *)
LEMMA ExecuteOne ==
    ASSUME NEW m, NEW a
    PROVE  Execute(m, <<a>>) = Exec(m, a)
<1> DEFINE code == <<a>>
<1>1. Len(code) = 1 /\ code[1] = a
  OBVIOUS
<1> HIDE DEF code
<1>2. Execute(m, code) = Exec(m, a)
  BY <1>1, ExecutePiece
<1> QED BY <1>2 DEF code

(* Two units.                                                               *)
LEMMA ExecuteTwo ==
    ASSUME NEW m, NEW a, NEW b
    PROVE  Execute(m, <<a, b>>) = Exec(Exec(m, a), b)
<1> DEFINE code == <<a, b>>
<1>1. Len(code) = 2 /\ code[1] = a /\ code[2] = b
  OBVIOUS
<1> HIDE DEF code
<1>2. Execute(m, code) = Exec(Exec(m, a), b)
  BY <1>1, ExecutePiece
<1> QED BY <1>2 DEF code

(* Three units.                                                             *)
LEMMA ExecuteThree ==
    ASSUME NEW m, NEW a, NEW b, NEW c
    PROVE  Execute(m, <<a, b, c>>) = Exec(Exec(Exec(m, a), b), c)
<1> DEFINE code == <<a, b, c>>
<1>1. Len(code) = 3 /\ code[1] = a /\ code[2] = b /\ code[3] = c
  OBVIOUS
<1> HIDE DEF code
<1>2. Execute(m, code) = Exec(Exec(Exec(m, a), b), c)
  BY <1>1, ExecutePiece
<1> QED BY <1>2 DEF code

(* Four units.                                                              *)
LEMMA ExecuteFour ==
    ASSUME NEW m, NEW a, NEW b, NEW c, NEW d
    PROVE  Execute(m, <<a, b, c, d>>) = Exec(Exec(Exec(Exec(m, a), b), c), d)
<1> DEFINE code == <<a, b, c, d>>
<1>1. Len(code) = 4 /\ code[1] = a /\ code[2] = b /\ code[3] = c /\ code[4] = d
  OBVIOUS
<1> HIDE DEF code
<1>2. Execute(m, code) = Exec(Exec(Exec(Exec(m, a), b), c), d)
  BY <1>1, ExecutePiece
<1> QED BY <1>2 DEF code

(* Five units.                                                              *)
LEMMA ExecuteFive ==
    ASSUME NEW m, NEW a, NEW b, NEW c, NEW d, NEW e
    PROVE  Execute(m, <<a, b, c, d, e>>) = Exec(Exec(Exec(Exec(Exec(m, a), b), c), d), e)
<1> DEFINE code == <<a, b, c, d, e>>
<1>1. Len(code) = 5 /\ code[1] = a /\ code[2] = b /\ code[3] = c /\ code[4] = d /\ code[5] = e
  OBVIOUS
<1> HIDE DEF code
<1>2. Execute(m, code) = Exec(Exec(Exec(Exec(Exec(m, a), b), c), d), e)
  BY <1>1, ExecutePiece
<1> QED BY <1>2 DEF code

(* No code changes nothing.                                                 *)
LEMMA ExecuteNone ==
    ASSUME NEW m PROVE Execute(m, <<>>) = m
<1> DEFINE code == <<>>
<1>1. Len(code) = 0
  OBVIOUS
<1> HIDE DEF code
<1>2. Execute(m, code) = m
  BY <1>1, ExecuteRuns
<1> QED BY <1>2 DEF code

IsCode(t) == \E S : t \in Seq(S)

(* One unit, then a tail.                                                   *)
LEMMA ExecuteOneThen ==
    ASSUME NEW t, IsCode(t), NEW m, NEW a
    PROVE  Execute(m, <<a>> \o t) = Execute(Exec(m, a), t)
<1> DEFINE code == <<a>>
<1>1. PICK S : t \in Seq(S)
  BY DEF IsCode
<1>2. PICK T : S \subseteq T /\ a \in T
  <2> DEFINE T == S \cup {a}
  <2>1. S \subseteq T /\ a \in T
    OBVIOUS
  <2> QED BY <2>1, Zenon
<1>3. t \in Seq(T)
  BY <1>1, <1>2
<1>4. code \in Seq(T)
  BY <1>2
<1>5. Execute(m, code) = Exec(m, a)
  BY ExecuteOne
<1> HIDE DEF code
<1>6. Execute(m, code \o t) = Execute(Exec(m, a), t)
  BY <1>3, <1>4, <1>5, ExecuteJoin
<1> QED BY <1>6, Zenon DEF code

(* Two units, then a tail.                                                  *)
LEMMA ExecuteTwoThen ==
    ASSUME NEW t, IsCode(t), NEW m, NEW a, NEW b
    PROVE  Execute(m, <<a, b>> \o t) = Execute(Exec(Exec(m, a), b), t)
<1> DEFINE code == <<a, b>>
<1>1. PICK S : t \in Seq(S)
  BY DEF IsCode
<1>2. PICK T : S \subseteq T /\ a \in T /\ b \in T
  <2> DEFINE T == S \cup {a, b}
  <2>1. S \subseteq T /\ a \in T /\ b \in T
    OBVIOUS
  <2> QED BY <2>1, Zenon
<1>3. t \in Seq(T)
  BY <1>1, <1>2
<1>4. code \in Seq(T)
  BY <1>2
<1>5. Execute(m, code) = Exec(Exec(m, a), b)
  BY ExecuteTwo
<1> HIDE DEF code
<1>6. Execute(m, code \o t) = Execute(Exec(Exec(m, a), b), t)
  BY <1>3, <1>4, <1>5, ExecuteJoin
<1> QED BY <1>6, Zenon DEF code

(* Three units, then a tail.                                                *)
LEMMA ExecuteThreeThen ==
    ASSUME NEW t, IsCode(t), NEW m, NEW a, NEW b, NEW c
    PROVE  Execute(m, <<a, b, c>> \o t) = Execute(Exec(Exec(Exec(m, a), b), c), t)
<1> DEFINE code == <<a, b, c>>
<1>1. PICK S : t \in Seq(S)
  BY DEF IsCode
<1>2. PICK T : S \subseteq T /\ a \in T /\ b \in T /\ c \in T
  <2> DEFINE T == S \cup {a, b, c}
  <2>1. S \subseteq T /\ a \in T /\ b \in T /\ c \in T
    OBVIOUS
  <2> QED BY <2>1, Zenon
<1>3. t \in Seq(T)
  BY <1>1, <1>2
<1>4. code \in Seq(T)
  BY <1>2
<1>5. Execute(m, code) = Exec(Exec(Exec(m, a), b), c)
  BY ExecuteThree
<1> HIDE DEF code
<1>6. Execute(m, code \o t) = Execute(Exec(Exec(Exec(m, a), b), c), t)
  BY <1>3, <1>4, <1>5, ExecuteJoin
<1> QED BY <1>6, Zenon DEF code

(* Four units, then a tail.                                                 *)
LEMMA ExecuteFourThen ==
    ASSUME NEW t, IsCode(t), NEW m, NEW a, NEW b, NEW c, NEW d
    PROVE  Execute(m, <<a, b, c, d>> \o t) = Execute(Exec(Exec(Exec(Exec(m, a), b), c), d), t)
<1> DEFINE code == <<a, b, c, d>>
<1>1. PICK S : t \in Seq(S)
  BY DEF IsCode
<1>2. PICK T : S \subseteq T /\ a \in T /\ b \in T /\ c \in T /\ d \in T
  <2> DEFINE T == S \cup {a, b, c, d}
  <2>1. S \subseteq T /\ a \in T /\ b \in T /\ c \in T /\ d \in T
    OBVIOUS
  <2> QED BY <2>1, Zenon
<1>3. t \in Seq(T)
  BY <1>1, <1>2
<1>4. code \in Seq(T)
  BY <1>2
<1>5. Execute(m, code) = Exec(Exec(Exec(Exec(m, a), b), c), d)
  BY ExecuteFour
<1> HIDE DEF code
<1>6. Execute(m, code \o t) = Execute(Exec(Exec(Exec(Exec(m, a), b), c), d), t)
  BY <1>3, <1>4, <1>5, ExecuteJoin
<1> QED BY <1>6, Zenon DEF code

-----------------------------------------------------------------------------
(* Registers: a unit gets three that differ, of a pool that has no argument *)
(* register in it and no saved register that the function leaves alone.     *)

Pool(f) == {Temp(i) : i \in 1 .. NTemp} \cup {Save(i) : i \in 0 .. callee_saved_heuristic[f] - 1}

(* The pool has neither x0 nor a0 nor a saved register beyond its own.      *)
LEMMA PoolRegisters ==
    ASSUME NEW f \in DOMAIN Fun
    PROVE  /\ Pool(f) \subseteq Reg \ {Zero, Arg(0)}
           /\ \A i \in callee_saved_heuristic[f] .. NSave - 1 : Save(i) \in Reg \ Pool(f)
           /\ Zero \in Reg /\ Arg(0) \in Reg
BY Heuristic, RegisterAssumption DEF Pool, Reg, Zero, Temp, Save, Arg

(* tempos lists the pool, each register once.                               *)
LEMMA TemposPool ==
    ASSUME NEW f \in DOMAIN Fun
    PROVE  /\ Len(tempos[f]) = NTemp + callee_saved_heuristic[f]
           /\ Len(tempos[f]) \in Nat /\ Len(tempos[f]) >= 3
           /\ \A i \in 1 .. Len(tempos[f]) : tempos[f][i] \in Pool(f)
           /\ \A i, j \in 1 .. Len(tempos[f]) : tempos[f][i] = tempos[f][j] => i = j
<1> DEFINE h == callee_saved_heuristic[f]
           a == [i \in 1 .. NTemp |-> Temp(i)]
           b == [i \in 1 .. h |-> Save(i - 1)]
<1>1. h \in Nat /\ h > 0 /\ NTemp \in Nat /\ NTemp > 1
  BY Heuristic, RegisterAssumption
<1>2. tempos[f] = a \o b
  BY DEF tempos
<1> HIDE DEF h
<1>3. Len(a) = NTemp /\ Len(b) = h /\ a \in Seq(Pool(f)) /\ b \in Seq(Pool(f))
  <2>1. \A i \in 1 .. NTemp : a[i] \in Pool(f)
    BY DEF Pool
  <2>2. \A i \in 1 .. h : b[i] \in Pool(f)
    BY <1>1 DEF Pool, h
  <2> QED BY <1>1, <2>1, <2>2
<1>4. /\ Len(a \o b) = NTemp + h
      /\ \A i \in 1 .. NTemp + h : (a \o b)[i] = IF i <= NTemp THEN Temp(i) ELSE Save(i - NTemp - 1)
  BY <1>1, <1>3
<1> HIDE DEF a, b
<1>5. \A i \in 1 .. NTemp + h : tempos[f][i] = IF i <= NTemp THEN Temp(i) ELSE Save(i - NTemp - 1)
  BY <1>2, <1>4
<1>6. Len(tempos[f]) = NTemp + h
  BY <1>2, <1>4
<1>7. \A i \in 1 .. NTemp + h : tempos[f][i] \in Pool(f)
  BY <1>1, <1>5 DEF Pool, h
<1>8. \A i, j \in 1 .. NTemp + h : tempos[f][i] = tempos[f][j] => i = j
  <2> SUFFICES ASSUME NEW i \in 1 .. NTemp + h, NEW j \in 1 .. NTemp + h,
                      tempos[f][i] = tempos[f][j]
               PROVE  i = j
    OBVIOUS
  <2>1. \A x, y \in Int : (Temp(x) = Temp(y) => x = y) /\ (Save(x) = Save(y) => x = y)
                           /\ Temp(x) # Save(y)
    BY DEF Temp, Save
  <2>2. CASE i <= NTemp /\ j <= NTemp
    <3>1. Temp(i) = Temp(j)
      BY <1>5, <2>2
    <3> QED BY <2>1, <3>1
  <2>3. CASE i > NTemp /\ j > NTemp
    <3>1. Save(i - NTemp - 1) = Save(j - NTemp - 1)
      BY <1>1, <1>5, <2>3
    <3>2. i - NTemp - 1 = j - NTemp - 1
      BY <1>1, <2>1, <3>1
    <3> QED BY <1>1, <3>2
  <2>4. CASE i <= NTemp /\ j > NTemp
    <3>1. Temp(i) = Save(j - NTemp - 1)
      BY <1>1, <1>5, <2>4
    <3> QED BY <1>1, <2>1, <3>1
  <2>5. CASE i > NTemp /\ j <= NTemp
    <3>1. Temp(j) = Save(i - NTemp - 1)
      BY <1>1, <1>5, <2>5
    <3> QED BY <1>1, <2>1, <3>1
  <2> QED BY <1>1, <2>2, <2>3, <2>4, <2>5
<1> QED BY <1>1, <1>6, <1>7, <1>8 DEF h

(* A unit gets the first register of its three for itself.                  *)
LEMMA NextRegisters ==
    ASSUME fun \in DOMAIN Fun, tempo_cnt \in 0 .. Len(tempos[fun]) - 1
    PROVE  /\ next_reg(1) \in Pool(fun) /\ next_reg(2) \in Pool(fun) /\ next_reg(3) \in Pool(fun)
           /\ next_reg(1) # next_reg(2) /\ next_reg(1) # next_reg(3)
<1> DEFINE n == Len(tempos[fun])
<1>1. n \in Nat /\ n >= 3 /\ tempo_cnt \in 0 .. n - 1
  BY TemposPool
<1>2. /\ \A i \in 1 .. n : tempos[fun][i] \in Pool(fun)
      /\ \A i, j \in 1 .. n : tempos[fun][i] = tempos[fun][j] => i = j
  BY TemposPool
<1>3. /\ turned(1) = IF tempo_cnt + 1 >= n THEN tempo_cnt + 1 - n ELSE tempo_cnt + 1
      /\ turned(2) = IF tempo_cnt + 2 >= n THEN tempo_cnt + 2 - n ELSE tempo_cnt + 2
      /\ turned(3) = IF tempo_cnt + 3 >= n THEN tempo_cnt + 3 - n ELSE tempo_cnt + 3
  BY DEF turned
<1> HIDE DEF n
<1>4. /\ turned(1) + 1 \in 1 .. n /\ turned(2) + 1 \in 1 .. n /\ turned(3) + 1 \in 1 .. n
      /\ turned(1) + 1 # turned(2) + 1 /\ turned(1) + 1 # turned(3) + 1
  BY <1>1, <1>3
<1>5. \A k : next_reg(k) = tempos[fun][turned(k) + 1]
  BY DEF next_reg
<1> QED BY <1>2, <1>4, <1>5

(* Each argument has a register of its own, never a saved one.              *)
LEMMA ArgumentRegisters ==
    /\ \A i \in 0 .. NArg + NSpill - 1 : abi_argument(i) \in Reg \ {Zero}
    /\ \A i, j \in 0 .. NArg + NSpill - 1 : abi_argument(i) = abi_argument(j) => i = j
    /\ \A i, j \in Nat : abi_argument(i) # Save(j)
BY RegisterAssumption DEF abi_argument, Reg, Zero, Temp, Save, Arg

-----------------------------------------------------------------------------
(* Units and operands.                                                      *)

(* The source machine is about the same functions.                          *)
LEMMA SourceNames ==
    /\ Source!Arrays = Arrays /\ Source!Scalars = Scalars
    /\ Source!Cells = Cells /\ Source!Elements = Elements
    /\ Source!Units = Units
    /\ Source!GlobalCells = GlobalCells
<1>1. Source!Symbols = Symbols
  BY DEF Source!Symbols, Symbols, Source!Local, Local, Source!Param, Param
<1>2. Source!Arrays = Arrays /\ Source!Scalars = Scalars
  BY <1>1 DEF Source!Arrays, Arrays, Source!Scalars, Scalars
<1>3. \A x : Source!CellsOf(x) = CellsOf(x)
  BY DEF Source!CellsOf, CellsOf, Source!Offsets, Offsets
<1>4. Source!Cells = Cells
  BY <1>1, <1>3 DEF Source!Cells, Cells
<1>5. Source!Elements = Elements
  BY <1>2, <1>4 DEF Source!Elements, Elements
<1>6. Source!Units = Units
  BY <1>2 DEF Source!Units, Units, Source!Literal, Literal
<1>7. Source!GlobalCells = GlobalCells
  BY <1>3 DEF Source!GlobalCells, GlobalCells
<1> QED BY <1>2, <1>4, <1>5, <1>6, <1>7

(* A scalar is one word, found at its own address.                          *)
LEMMA ScalarCell ==
    ASSUME NEW f \in DOMAIN Fun, NEW o \in Scalars[f] \cup Fun[f].ptr
    PROVE  /\ <<o, 0>> \in Cells[f] /\ o \notin Arrays[f] /\ o.ns # "literal"
           /\ o \in {s.name : s \in Symbols[f]}
           /\ AddressOf(f, <<o, 0>>) = Address[f][o]
<1>1. PICK s \in Symbols[f] : s.name = o /\ s.len = 0
  <2>1. CASE o \in Scalars[f]
    BY <2>1 DEF Scalars
  <2>2. CASE o \in Fun[f].ptr
    <3>1. [name |-> o, len |-> 0] \in Symbols[f]
      BY <2>2, SymbolAssumption DEF Symbols
    <3> QED BY <3>1
  <2> QED BY <2>1, <2>2
<1>2. <<o, 0>> \in Cells[f]
  BY <1>1 DEF Cells, CellsOf, Offsets
<1>3. o \notin Arrays[f]
  BY <1>1, SymbolAssumption DEF Arrays
<1>4. o.ns \in Kinds
  BY <1>1, LocalSymbols, SymbolAssumption DEF Symbols, Declared, Kinds
<1>5. AddressOf(f, <<o, 0>>) = Address[f][o]
  <2>1. AddressOf(f, <<o, 0>>) = Address[f][o] + 0
    BY DEF AddressOf
  <2>2. Address[f][o] \in Int
    <3>1. CASE s \in Global
      BY <1>1, <3>1, GlobalPlace, MemoryAssumption
    <3>2. CASE s \in Local[f] \ Global
      <4>1. 0 \in Offsets(s.len)
        BY <1>1 DEF Offsets
      <4>2. Address[f][s.name] \in Nat
        BY <3>2, <4>1, LocalInFrame
      <4> QED BY <1>1, <4>2
    <3> QED BY <1>1, <3>1, <3>2 DEF Symbols
  <2> QED BY <2>1, <2>2
<1> QED BY <1>1, <1>2, <1>3, <1>4, <1>5 DEF Kinds

(* An array has an address.                                                 *)
LEMMA ArrayPlace ==
    ASSUME NEW f \in DOMAIN Fun, NEW o \in Arrays[f]
    PROVE  /\ Address[f][o] \in Nat /\ o.ns # "literal" /\ o \in {s.name : s \in Symbols[f]}
<1>1. PICK s \in Symbols[f] : s.name = o /\ s.len > 0
  BY DEF Arrays
<1>2. CASE s \in Global
  BY <1>1, <1>2, GlobalPlace, MemoryAssumption, SymbolAssumption DEF Declared
<1>3. CASE s \in Local[f] \ Global
  <2>1. s.len \in Nat /\ s.name.ns \in Kinds
    BY <1>3, LocalSymbols DEF Declared
  <2>2. 0 \in Offsets(s.len)
    BY <1>1, <2>1 DEF Offsets
  <2>3. Address[f][s.name] \in Nat
    BY <1>3, <2>2, LocalInFrame
  <2> QED BY <1>1, <2>1, <2>3 DEF Kinds
<1> QED BY <1>1, <1>2, <1>3 DEF Symbols

\* What a unit can use: its numbers and, as bases of arrays, its pointers.
Numbers(f) == Scalars[f] \cup Literal
Bases(f) == Arrays[f] \cup Fun[f].ptr

(* What the operands of each unit are.                                      *)
LEMMA UnitShape ==
    ASSUME NEW f \in DOMAIN Fun, NEW u \in Units[f]
    PROVE  /\ u.type = "unary" => u.dst \in Scalars[f] /\ u.src \in Scalars[f]
           /\ u.type = "binary" =>
                \/ /\ u.bop = "bop" /\ u.dst \in Scalars[f]
                   /\ u.src1 \in Numbers(f) /\ u.src2 \in Numbers(f)
                \/ /\ u.bop = "plus" /\ u.dst \in Fun[f].ptr
                   /\ u.src1 \in Bases(f) /\ u.src2 \in Numbers(f)
           /\ u.type = "copy" =>
                \/ u.dst \in Scalars[f] /\ u.src \in Numbers(f)
                \/ u.dst \in Fun[f].ptr /\ u.src \in Bases(f)
           /\ u.type = "aw" => u.dst \in Bases(f) /\ u.incr \in Numbers(f) /\ u.src \in Numbers(f)
           /\ u.type = "ar" => u.dst \in Scalars[f] /\ u.src \in Bases(f) /\ u.incr \in Numbers(f)
           /\ u.type = "jc" => u.src1 \in Scalars[f]
           /\ u.type = "param" => u.src \in Numbers(f) \cup Fun[f].ptr
           /\ u.type = "calli" => u.dst \in Scalars[f]
           /\ u.type = "reti" => u.src \in Numbers(f)
<1> QED BY DEF Units, Numbers, Bases

-----------------------------------------------------------------------------
(* What a unit's code does to the registers and to memory.                  *)

Registers == [Reg -> Int]
Memories(f) == [FrameWords[f] \cup GlobalWords -> Int]

\* Memory m holds the variables e.
Holds(f, m, e) == \A c \in Cells[f] : m[AddressOf(f, c)] = e[c]

\* The variables have the values that the front end gives them.
EnvOK ==
    /\ env \in [Cells[fun] -> Nat]
    /\ \A o \in Scalars[fun] : env[<<o, 0>>] \in Word
    /\ \A c \in Elements[fun] : env[c] \in Word

(* A literal stands for itself.                                             *)
LEMMA LiteralValue ==
    ASSUME fun \in DOMAIN Fun, NEW o \in Literal
    PROVE  o.ns = "literal" /\ o.id \in Word /\ Source!Value(o) = o.id
<1>1. o.ns = "literal" /\ o.id \in Word
  BY DEF Literal
<1>2. o \notin Arrays[fun]
  BY <1>1, ArrayPlace
<1> QED BY <1>1, <1>2, SourceNames DEF Source!Value

(* Operands have values, and numbers have words for them.                   *)
LEMMA Values ==
    ASSUME fun \in DOMAIN Fun, EnvOK, NEW o \in Numbers(fun) \cup Bases(fun)
    PROVE  Source!Value(o) \in Nat /\ (o \in Numbers(fun) => Source!Value(o) \in Word)
<1>1. CASE o \in Literal
  <2>1. Source!Value(o) \in Word
    BY <1>1, LiteralValue
  <2> QED BY <2>1, PinkieAssumption
<1>2. CASE o \in Scalars[fun]
  <2>1. o.ns # "literal" /\ o \notin Arrays[fun] /\ env[<<o, 0>>] \in Word
    BY <1>2, ScalarCell DEF EnvOK
  <2>2. Source!Value(o) = env[<<o, 0>>]
    BY <2>1, SourceNames DEF Source!Value
  <2> QED BY <2>1, <2>2, PinkieAssumption
<1>3. CASE o \in Fun[fun].ptr
  <2>1. o.ns # "literal" /\ o \notin Arrays[fun] /\ env[<<o, 0>>] \in Nat
    BY <1>3, ScalarCell DEF EnvOK
  <2>2. o \notin Numbers(fun)
    BY <1>3, <2>1 DEF Numbers, Scalars, Literal
  <2>3. Source!Value(o) = env[<<o, 0>>]
    BY <2>1, SourceNames DEF Source!Value
  <2> QED BY <2>1, <2>2, <2>3
<1>4. CASE o \in Arrays[fun]
  <2>1. o.ns # "literal" /\ Address[fun][o] \in Nat
    BY <1>4, ArrayPlace
  <2>2. o \notin Numbers(fun)
    BY <1>4, <2>1, ScalarCell DEF Numbers, Literal
  <2>3. Source!Value(o) = Address[fun][o]
    BY <1>4, <2>1, SourceNames DEF Source!Value
  <2> QED BY <2>1, <2>2, <2>3
<1> QED BY <1>1, <1>2, <1>3, <1>4 DEF Numbers, Bases

(* A number that says it is a literal is one.                               *)
LEMMA LiteralOperand ==
    ASSUME fun \in DOMAIN Fun, NEW o \in Numbers(fun), o.ns = "literal"
    PROVE  o.id \in Word /\ Source!Value(o) = o.id
<1>1. o \in Literal
  BY ScalarCell DEF Numbers
<1> QED BY <1>1, LiteralValue

(* load() brings the value of any operand, wherever it is.                  *)
LEMMA Loaded ==
    ASSUME fun \in DOMAIN Fun, EnvOK, NEW o \in Numbers(fun) \cup Bases(fun),
           NEW m \in Memories(fun), Holds(fun, m, env),
           NEW r \in Registers, r[Zero] = 0, NEW d \in Reg
    PROVE  Exec(M(r, m), load(fun, d, o)) = M([r EXCEPT ![d] = Source!Value(o)], m)
<1> DEFINE c == load(fun, d, o)
<1>1. CASE o \in Literal
  <2>1. o.ns = "literal" /\ Source!Value(o) = o.id
    BY <1>1, LiteralValue
  <2>2. CASE o.id = 0
    <3>1. c = [type |-> "cr", dst |-> d, src |-> Zero]
      BY <2>1, <2>2 DEF load
    <3>2. c.type = "cr" /\ c.dst = d /\ c.src = Zero
      BY <3>1
    <3> HIDE DEF c
    <3>3. Exec(M(r, m), c) = M([r EXCEPT ![d] = r[Zero]], m)
      BY <3>2, ExecCr, Zenon
    <3> QED BY <2>1, <2>2, <3>3, Zenon DEF c
  <2>3. CASE o.id # 0
    <3>1. c = [type |-> "ci", dst |-> d, imm |-> o.id]
      BY <2>1, <2>3 DEF load
    <3>2. c.type = "ci" /\ c.dst = d /\ c.imm = o.id
      BY <3>1
    <3> HIDE DEF c
    <3>3. Exec(M(r, m), c) = M([r EXCEPT ![d] = o.id], m)
      BY <3>2, ExecCi
    <3> QED BY <2>1, <3>3, Zenon DEF c
  <2> QED BY <2>2, <2>3
<1>2. CASE o \in Scalars[fun] \cup Fun[fun].ptr
  <2>1. /\ <<o, 0>> \in Cells[fun] /\ o \notin Arrays[fun] /\ o.ns # "literal"
        /\ AddressOf(fun, <<o, 0>>) = Address[fun][o]
    BY <1>2, ScalarCell
  <2>2. Source!Value(o) = env[<<o, 0>>]
    BY <2>1, SourceNames DEF Source!Value
  <2>3. Address[fun][o] \in DOMAIN m /\ m[Address[fun][o]] = env[<<o, 0>>]
    BY <2>1, PlacesApart DEF Holds, Memories
  <2>4. PICK t \in {"rglo", "rstk"} : c = [type |-> t, dst |-> d, addr |-> Address[fun][o]]
    BY <2>1 DEF load
  <2>5. c.type \in {"rglo", "rstk"} /\ c.dst = d /\ c.addr = Address[fun][o]
    BY <2>4
  <2>6. Read(M(r, m), Address[fun][o]) = m[Address[fun][o]]
    BY <2>3, Setters DEF Read
  <2> HIDE DEF c
  <2>7. Exec(M(r, m), c) = M([r EXCEPT ![d] = Read(M(r, m), Address[fun][o])], m)
    BY <2>5, ExecRead
  <2> QED BY <2>2, <2>3, <2>6, <2>7, Zenon DEF c
<1>3. CASE o \in Arrays[fun]
  <2>1. o.ns # "literal" /\ Source!Value(o) = Address[fun][o]
    BY <1>3, ArrayPlace, SourceNames DEF Source!Value
  <2>2. PICK t \in {"ptrglo", "ptrstk"} : c = [type |-> t, dst |-> d, addr |-> Address[fun][o]]
    BY <1>3, <2>1 DEF load
  <2>3. c.type \in {"ptrglo", "ptrstk"} /\ c.dst = d /\ c.addr = Address[fun][o]
    BY <2>2
  <2> HIDE DEF c
  <2>4. Exec(M(r, m), c) = M([r EXCEPT ![d] = Address[fun][o]], m)
    BY <2>3, ExecPtr
  <2> QED BY <2>1, <2>4, Zenon DEF c
<1> QED BY <1>1, <1>2, <1>3 DEF Numbers, Bases

(* store() writes the word of a variable, and may use a register for that.  *)
LEMMA Stored ==
    ASSUME fun \in DOMAIN Fun, NEW o \in Scalars[fun] \cup Fun[fun].ptr,
           NEW m \in Memories(fun), NEW r \in Registers, NEW d \in Reg, NEW t1 \in Reg, d # t1
    PROVE  \E r1 \in Registers :
             /\ \A x \in Reg \ {t1} : r1[x] = r[x]
             /\ Execute(M(r, m), store(fun, d, o, t1))
                  = M(r1, [m EXCEPT ![AddressOf(fun, <<o, 0>>)] = r[d]])
<1> DEFINE a == Address[fun][o]
           code == store(fun, d, o, t1)
<1>1. AddressOf(fun, <<o, 0>>) = a /\ o \in {s.name : s \in Symbols[fun]} /\ a \in Nat
  BY ScalarCell, PlacesApart
<1>2. CASE o \in DOMAIN GlobalBase
  <2> DEFINE ptr == [type |-> "ptrglo", dst |-> t1, addr |-> GlobalBase[o]]
             write == [type |-> "aw", dst |-> t1, src |-> d, incr |-> 0]
             r1 == [r EXCEPT ![t1] = a]
  <2>1. GlobalBase[o] = a /\ a + 0 = a
    BY <1>1, <1>2 DEF Address
  <2>2. Len(code) = 2 /\ code[1] = ptr /\ code[2] = write
    BY <1>2 DEF store
  <2>3. ptr.type = "ptrglo" /\ ptr.dst = t1 /\ ptr.addr = a
    BY <2>1
  <2>4. write.type = "aw" /\ write.dst = t1 /\ write.src = d /\ write.incr = 0
    OBVIOUS
  <2>5. r1 \in Registers /\ (\A x \in Reg \ {t1} : r1[x] = r[x]) /\ r1[t1] = a /\ r1[d] = r[d]
    BY <1>1 DEF Registers
  <2> HIDE DEF ptr, write, code
  <2>6. Exec(M(r, m), ptr) = M(r1, m)
    <3>1. Exec(M(r, m), ptr) = M([r EXCEPT ![ptr.dst] = ptr.addr], m)
      BY <2>3, ExecPtr
    <3> QED BY <2>3, <3>1, Zenon
  <2> HIDE DEF r1, a
  <2>7. Exec(M(r1, m), write) = M(r1, [m EXCEPT ![a] = r[d]])
    <3>1. Exec(M(r1, m), write) = M(r1, [m EXCEPT ![r1[write.dst] + write.incr] = r1[write.src]])
      BY <2>4, ExecAw, ZenonT(60)
    <3>2. r1[write.dst] + write.incr = a /\ r1[write.src] = r[d]
      BY <2>1, <2>4, <2>5
    <3> QED BY <3>1, <3>2, Zenon
  <2>8. Execute(M(r, m), code) = Exec(Exec(M(r, m), ptr), write)
    <3>1. code \in Seq({ptr, write})
      BY <1>2 DEF store, code, ptr, write
    <3>2. Execute(M(r, m), code) = Exec(Exec(M(r, m), code[1]), code[2])
      BY <2>2, <3>1, ExecutePiece
    <3> QED BY <2>2, <3>2, Zenon
  <2> QED BY <1>1, <2>5, <2>6, <2>7, <2>8, Zenon DEF code
<1>3. CASE o \notin DOMAIN GlobalBase
  <2> DEFINE write == [type |-> "wstk", src |-> d, addr |-> a]
  <2>1. code = <<write>>
    BY <1>3 DEF store
  <2>2. write.type = "wstk" /\ write.src = d /\ write.addr = a
    OBVIOUS
  <2> HIDE DEF write, a
  <2>3. Exec(M(r, m), write) = M(r, [m EXCEPT ![a] = r[d]])
    <3>1. Exec(M(r, m), write) = M(r, [m EXCEPT ![write.addr] = r[write.src]])
      BY <2>2, ExecWstk
    <3> QED BY <2>2, <3>1, Zenon
  <2>4. Execute(M(r, m), <<write>>) = Exec(M(r, m), write)
    BY ExecuteOne
  <2> HIDE DEF code
  <2>5. Execute(M(r, m), code) = M(r, [m EXCEPT ![AddressOf(fun, <<o, 0>>)] = r[d]])
    BY <1>1, <2>1, <2>3, <2>4, Zenon
  <2> QED BY <2>5 DEF code
<1> QED BY <1>2, <1>3

-----------------------------------------------------------------------------
(* The code of a unit, run between two units.                               *)

\* What changes is a register of the pool.
Agree(r, s) == s \in Registers /\ \A x \in Reg \ Pool(fun) : s[x] = r[x]

\* Where a unit puts its result, and the result.
Target(u) == IF u.type = "aw" THEN CHOOSE c \in Source!At(u.dst, u.incr) : TRUE ELSE <<u.dst, 0>>
Result(u) ==
    CASE u.type = "unary"  -> Un[Source!Value(u.src)]
      [] u.type = "binary" -> Source!Binary(u.bop, Source!Value(u.src1), Source!Value(u.src2))
      [] u.type = "copy"   -> Source!Value(u.src)
      [] u.type = "aw"     -> Source!Value(u.src)
      [] u.type = "ar"     -> env[CHOOSE c \in Source!At(u.src, u.incr) : TRUE]

Computes == {"unary", "binary", "copy", "aw", "ar"}

(* store() gives a sequence of units.                                       *)
LEMMA StoreIsCode ==
    ASSUME NEW f, NEW r, NEW o, NEW t1
    PROVE  IsCode(store(f, r, o, t1))
<1>1. CASE o \in DOMAIN GlobalBase
  <2> DEFINE a == [type |-> "ptrglo", dst |-> t1, addr |-> GlobalBase[o]]
             b == [type |-> "aw", dst |-> t1, src |-> r, incr |-> 0]
  <2>1. store(f, r, o, t1) = <<a, b>>
    BY <1>1 DEF store
  <2> HIDE DEF a, b
  <2>2. <<a, b>> \in Seq({a, b})
    OBVIOUS
  <2> QED BY <2>1, <2>2, Zenon DEF IsCode
<1>2. CASE o \notin DOMAIN GlobalBase
  <2> DEFINE a == [type |-> "wstk", src |-> r, addr |-> Address[f][o]]
  <2>1. store(f, r, o, t1) = <<a>>
    BY <1>2 DEF store
  <2> HIDE DEF a
  <2>2. <<a>> \in Seq({a})
    OBVIOUS
  <2> QED BY <2>1, <2>2, Zenon DEF IsCode
<1> QED BY <1>1, <1>2

(* Setting a register changes that one only.                                *)
LEMMA Sets ==
    ASSUME NEW r \in Registers, NEW d \in Reg, NEW v \in Int
    PROVE  /\ [r EXCEPT ![d] = v] \in Registers
           /\ [r EXCEPT ![d] = v][d] = v
           /\ \A x \in Reg \ {d} : [r EXCEPT ![d] = v][x] = r[x]
BY DEF Registers

(* A load into the pool, with what stays as it was.                         *)
LEMMA LoadStep ==
    ASSUME fun \in DOMAIN Fun, EnvOK, NEW o \in Numbers(fun) \cup Bases(fun),
           NEW m \in Memories(fun), Holds(fun, m, env),
           NEW r \in Registers, r[Zero] = 0, NEW d \in Pool(fun)
    PROVE  \E s \in Registers :
             /\ Exec(M(r, m), load(fun, d, o)) = M(s, m)
             /\ s[d] = Source!Value(o) /\ s[Zero] = 0
             /\ \A x \in Reg \ {d} : s[x] = r[x]
<1>1. d \in Reg /\ d # Zero /\ Zero \in Reg
  BY PoolRegisters
<1>2. Source!Value(o) \in Int
  BY Values
<1>3. Exec(M(r, m), load(fun, d, o)) = M([r EXCEPT ![d] = Source!Value(o)], m)
  BY <1>1, Loaded
<1> QED BY <1>1, <1>2, <1>3, Sets

(* A unit that sets a register of the pool, likewise.                       *)
LEMMA SetStep ==
    ASSUME fun \in DOMAIN Fun, NEW m, NEW c,
           NEW r \in Registers, r[Zero] = 0, NEW d \in Pool(fun), NEW v \in Int,
           Exec(M(r, m), c) = M([r EXCEPT ![d] = v], m)
    PROVE  \E s \in Registers :
             /\ Exec(M(r, m), c) = M(s, m)
             /\ s[d] = v /\ s[Zero] = 0
             /\ \A x \in Reg \ {d} : s[x] = r[x]
<1>1. d \in Reg /\ d # Zero /\ Zero \in Reg
  BY PoolRegisters
<1> QED BY <1>1, Sets

(* The store that ends a unit.                                              *)
LEMMA StoreEnds ==
    ASSUME fun \in DOMAIN Fun, NEW o \in Scalars[fun] \cup Fun[fun].ptr,
           NEW m \in Memories(fun), NEW r, NEW s, Agree(r, s),
           NEW d \in Reg, NEW t2 \in Pool(fun), d # t2
    PROVE  \E q : /\ Agree(r, q)
                  /\ Execute(M(s, m), store(fun, d, o, t2))
                       = M(q, [m EXCEPT ![AddressOf(fun, <<o, 0>>)] = s[d]])
<1>1. t2 \in Reg /\ s \in Registers
  BY PoolRegisters DEF Agree
<1>2. PICK q \in Registers :
        /\ \A x \in Reg \ {t2} : q[x] = s[x]
        /\ Execute(M(s, m), store(fun, d, o, t2))
             = M(q, [m EXCEPT ![AddressOf(fun, <<o, 0>>)] = s[d]])
  BY <1>1, Stored
<1>3. Agree(r, q)
  BY <1>2 DEF Agree
<1> QED BY <1>2, <1>3, Zenon

\* Between two units: the registers r, and the memory m, which holds the variables.
Ready(r, m) ==
    /\ fun \in DOMAIN Fun /\ EnvOK
    /\ m \in Memories(fun) /\ Holds(fun, m, env)
    /\ r \in Registers /\ r[Zero] = 0

(* A load leaves the registers ready for more.                              *)
LEMMA ReadyLoad ==
    ASSUME NEW r, NEW m, Ready(r, m), NEW o \in Numbers(fun) \cup Bases(fun), NEW d \in Pool(fun)
    PROVE  \E s \in Registers :
             /\ Exec(M(r, m), load(fun, d, o)) = M(s, m)
             /\ s[d] = Source!Value(o) /\ Ready(s, m)
             /\ \A x \in Reg \ {d} : s[x] = r[x]
BY LoadStep DEF Ready

(* In particular the register that is zero is left zero.                    *)
LEMMA ReadyZero ==
    ASSUME NEW r, NEW m, Ready(r, m), NEW o \in Numbers(fun) \cup Bases(fun), NEW d \in Pool(fun)
    PROVE  \E s \in Registers :
             /\ Exec(M(r, m), load(fun, d, o)) = M(s, m)
             /\ s[d] = Source!Value(o) /\ s[Zero] = 0
             /\ \A x \in Reg \ {d} : s[x] = r[x]
BY ReadyLoad DEF Ready

(* So does an operation.                                                    *)
LEMMA ReadySet ==
    ASSUME NEW r, NEW m, Ready(r, m), NEW c, NEW d \in Pool(fun), NEW v \in Int,
           Exec(M(r, m), c) = M([r EXCEPT ![d] = v], m)
    PROVE  \E s \in Registers :
             /\ Exec(M(r, m), c) = M(s, m)
             /\ s[d] = v /\ Ready(s, m)
             /\ \A x \in Reg \ {d} : s[x] = r[x]
BY SetStep DEF Ready

\* What next_reg() hands out.
Hands(t0, t1, t2) ==
    t0 \in Pool(fun) /\ t1 \in Pool(fun) /\ t2 \in Pool(fun) /\ t0 # t1 /\ t0 # t2

Does(r, m, u, code) ==
    \E q : /\ Agree(r, q)
           /\ Execute(M(r, m), code) = M(q, [m EXCEPT ![AddressOf(fun, Target(u))] = Result(u)])

(* Words are numbers.                                                       *)
LEMMA WordIsNat == \A w \in Word : w \in Nat /\ w \in Int
BY PinkieAssumption

(* The code of a unary unit assigns its result.                             *)
LEMMA UnaryDoes ==
    ASSUME NEW r, NEW m, Ready(r, m), NEW t0, NEW t1, NEW t2, Hands(t0, t1, t2),
           NEW u \in Units[fun], u.type = "unary"
    PROVE  Does(r, m, u, Code(fun, u, t0, t1, t2))
<1> DEFINE a == load(fun, t0, u.src)
           c == [type |-> "ur", dst |-> t0, src |-> t0]
           tail == store(fun, t0, u.dst, t2)
<1>1. Code(fun, u, t0, t1, t2) = <<a, c>> \o tail
  BY CodeUnary, Zenon
<1>2. u.dst \in Scalars[fun] /\ u.src \in Scalars[fun] /\ fun \in DOMAIN Fun
  BY UnitShape DEF Ready
<1>3. PICK s1 \in Registers : /\ Exec(M(r, m), a) = M(s1, m)
                              /\ s1[t0] = Source!Value(u.src) /\ s1[Zero] = 0
                              /\ \A x \in Reg \ {t0} : s1[x] = r[x]
  <2>1. t0 \in Pool(fun) /\ u.src \in Numbers(fun) \cup Bases(fun)
    BY <1>2 DEF Hands, Numbers
  <2> QED BY <2>1, ReadyZero
<1>4. Source!Value(u.src) \in Word /\ Word1(Un, s1[t0]) = Result(u) /\ Result(u) \in Int
  <2>1. Source!Value(u.src) \in Word
    BY <1>2, Values DEF Ready, Numbers
  <2>2. Word1(Un, s1[t0]) = Un[Source!Value(u.src)]
    BY <1>3, <2>1 DEF Word1
  <2>3. Un[Source!Value(u.src)] \in Int
    <3>1. Un[Source!Value(u.src)] \in Word
      <4>1. Un \in [Word -> Word]
        BY PinkieAssumption
      <4> QED BY <2>1, <4>1
    <3> QED BY <3>1, WordIsNat
  <2> QED BY <2>1, <2>2, <2>3 DEF Result
<1>5. c.type = "ur" /\ c.dst = t0 /\ c.src = t0
  OBVIOUS
<1>6. IsCode(tail)
  BY StoreIsCode
<1> HIDE DEF a, c, tail
<1>7. Exec(M(s1, m), c) = M([s1 EXCEPT ![t0] = Result(u)], m)
  BY <1>4, <1>5, ExecUr
<1>8. PICK s2 \in Registers : /\ Exec(M(s1, m), c) = M(s2, m)
                              /\ s2[t0] = Result(u) /\ s2[Zero] = 0
                              /\ \A x \in Reg \ {t0} : s2[x] = s1[x]
  BY <1>2, <1>3, <1>4, <1>7, SetStep DEF Hands
<1>9. Execute(M(r, m), <<a, c>> \o tail) = Execute(M(s2, m), tail)
  <2>1. Execute(M(r, m), <<a, c>> \o tail) = Execute(Exec(Exec(M(r, m), a), c), tail)
    BY <1>6, ExecuteTwoThen
  <2> QED BY <1>3, <1>8, <2>1, Zenon
<1>10. Agree(r, s2)
  BY <1>3, <1>8 DEF Agree, Hands
<1>11. PICK q : /\ Agree(r, q)
                /\ Execute(M(s2, m), tail) = M(q, [m EXCEPT ![AddressOf(fun, <<u.dst, 0>>)] = s2[t0]])
  BY <1>2, <1>10, StoreEnds, PoolRegisters DEF Hands, tail, Ready
<1>12. Target(u) = <<u.dst, 0>>
  BY DEF Target
<1> QED BY <1>1, <1>8, <1>9, <1>11, <1>12, Zenon DEF Does

(* The code of a copy does.                                                 *)
LEMMA CopyDoes ==
    ASSUME NEW r, NEW m, Ready(r, m), NEW t0, NEW t1, NEW t2, Hands(t0, t1, t2),
           NEW u \in Units[fun], u.type = "copy"
    PROVE  Does(r, m, u, Code(fun, u, t0, t1, t2))
<1> DEFINE a == load(fun, t0, u.src)
           tail == store(fun, t0, u.dst, t2)
<1>1. Code(fun, u, t0, t1, t2) = <<a>> \o tail
  BY CodeCopy, Zenon
<1>2. /\ u.dst \in Scalars[fun] \cup Fun[fun].ptr /\ u.src \in Numbers(fun) \cup Bases(fun)
      /\ fun \in DOMAIN Fun
  BY UnitShape DEF Ready
<1>3. PICK s1 \in Registers : /\ Exec(M(r, m), a) = M(s1, m)
                              /\ s1[t0] = Source!Value(u.src) /\ s1[Zero] = 0
                              /\ \A x \in Reg \ {t0} : s1[x] = r[x]
  BY <1>2, LoadStep DEF Ready, Hands
<1>4. IsCode(tail)
  BY StoreIsCode
<1> HIDE DEF a, tail
<1>5. Execute(M(r, m), <<a>> \o tail) = Execute(M(s1, m), tail)
  <2>1. Execute(M(r, m), <<a>> \o tail) = Execute(Exec(M(r, m), a), tail)
    BY <1>4, ExecuteOneThen
  <2> QED BY <1>3, <2>1, Zenon
<1>6. Agree(r, s1)
  BY <1>3 DEF Agree, Hands
<1>7. PICK q : /\ Agree(r, q)
               /\ Execute(M(s1, m), tail) = M(q, [m EXCEPT ![AddressOf(fun, <<u.dst, 0>>)] = s1[t0]])
  BY <1>2, <1>6, StoreEnds, PoolRegisters DEF Hands, tail, Ready
<1>8. Target(u) = <<u.dst, 0>> /\ Result(u) = s1[t0]
  BY <1>3 DEF Target, Result
<1> QED BY <1>1, <1>5, <1>7, <1>8, Zenon DEF Does

\* What a binary unit computes, poison aside.
LEMMA BinaryWord ==
    ASSUME NEW r, NEW m, Ready(r, m), NEW u \in Units[fun], u.type = "binary"
    PROVE  /\ Word2(u.bop, Source!Value(u.src1), Source!Value(u.src2)) = Result(u)
           /\ Result(u) \in Nat /\ (u.bop = "bop" => Result(u) \in Word)
           /\ u.dst \in Scalars[fun] \cup Fun[fun].ptr
           /\ u.src1 \in Numbers(fun) \cup Bases(fun) /\ u.src2 \in Numbers(fun)
<1> DEFINE v == Source!Value(u.src1)
           w == Source!Value(u.src2)
<1>1. Result(u) = Source!Binary(u.bop, v, w)
  BY DEF Result
<1>2. fun \in DOMAIN Fun /\ EnvOK
  BY DEF Ready
<1>3. \/ /\ u.bop = "bop" /\ u.dst \in Scalars[fun]
         /\ u.src1 \in Numbers(fun) /\ u.src2 \in Numbers(fun)
      \/ /\ u.bop = "plus" /\ u.dst \in Fun[fun].ptr
         /\ u.src1 \in Bases(fun) /\ u.src2 \in Numbers(fun)
  BY <1>2, UnitShape
<1>4. CASE u.bop = "bop"
  <2>1. v \in Word /\ w \in Word
    BY <1>2, <1>3, <1>4, Values
  <2> HIDE DEF v, w
  <2>2. Source!Binary(u.bop, v, w) = Bin[<<v, w>>] /\ Word2(u.bop, v, w) = Bin[<<v, w>>]
    BY <1>4, <2>1 DEF Source!Binary, Word2
  <2>3. Bin[<<v, w>>] \in Word
    BY <2>1, PinkieAssumption
  <2>4. Word \subseteq Nat
    BY PinkieAssumption
  <2> QED BY <1>1, <1>3, <1>4, <2>2, <2>3, <2>4 DEF v, w
<1>5. CASE u.bop = "plus"
  <2>1. v \in Nat /\ w \in Nat
    BY <1>2, <1>3, <1>5, Values
  <2> HIDE DEF v, w
  <2>2. Source!Binary(u.bop, v, w) = v + w
    BY <1>5 DEF Source!Binary
  <2>3. Word2(u.bop, v, w) = v + w
    BY <1>5, <2>1 DEF Word2, Poison
  <2>4. v + w \in Nat
    BY <2>1
  <2> QED BY <1>1, <1>3, <1>5, <2>2, <2>3, <2>4 DEF v, w
<1> QED BY <1>3, <1>4, <1>5

(* The code of a binary unit with a literal does.                           *)
LEMMA BinaryLiteralDoes ==
    ASSUME NEW r, NEW m, Ready(r, m), NEW t0, NEW t1, NEW t2, Hands(t0, t1, t2),
           NEW u \in Units[fun], u.type = "binary", u.src2.ns = "literal"
    PROVE  Does(r, m, u, Code(fun, u, t0, t1, t2))
<1> DEFINE a == load(fun, t0, u.src1)
           c == [type |-> "rbi", bop |-> u.bop, dst |-> t0, src1 |-> t0, imm |-> u.src2.id]
           tail == store(fun, t0, u.dst, t2)
<1>1. Code(fun, u, t0, t1, t2) = <<a, c>> \o tail
  BY CodeBinaryLiteral, Zenon
<1>2. /\ Word2(u.bop, Source!Value(u.src1), Source!Value(u.src2)) = Result(u)
      /\ Result(u) \in Int
      /\ u.dst \in Scalars[fun] \cup Fun[fun].ptr
      /\ u.src1 \in Numbers(fun) \cup Bases(fun) /\ u.src2 \in Numbers(fun)
      /\ fun \in DOMAIN Fun
  BY BinaryWord DEF Ready
<1>3. u.src2.id = Source!Value(u.src2)
  BY <1>2, LiteralOperand
<1>4. PICK s1 \in Registers : /\ Exec(M(r, m), a) = M(s1, m)
                              /\ s1[t0] = Source!Value(u.src1) /\ s1[Zero] = 0
                              /\ \A x \in Reg \ {t0} : s1[x] = r[x]
  <2>1. t0 \in Pool(fun)
    BY DEF Hands
  <2> QED BY <1>2, <2>1, ReadyZero
<1>5. c.type = "rbi" /\ c.dst = t0 /\ c.src1 = t0 /\ c.bop = u.bop /\ c.imm = u.src2.id
  OBVIOUS
<1>6. IsCode(tail)
  BY StoreIsCode
<1> HIDE DEF a, c, tail
<1>7. Exec(M(s1, m), c) = M([s1 EXCEPT ![t0] = Result(u)], m)
  <2>1. Word2(c.bop, s1[c.src1], c.imm) = Result(u)
    BY <1>2, <1>3, <1>4, <1>5
  <2> QED BY <1>5, <2>1, ExecRbi
<1>8. PICK s2 \in Registers : /\ Exec(M(s1, m), c) = M(s2, m)
                              /\ s2[t0] = Result(u) /\ s2[Zero] = 0
                              /\ \A x \in Reg \ {t0} : s2[x] = s1[x]
  BY <1>2, <1>4, <1>7, SetStep DEF Hands
<1>9. Execute(M(r, m), <<a, c>> \o tail) = Execute(M(s2, m), tail)
  <2>1. Execute(M(r, m), <<a, c>> \o tail) = Execute(Exec(Exec(M(r, m), a), c), tail)
    BY <1>6, ExecuteTwoThen
  <2> QED BY <1>4, <1>8, <2>1, Zenon
<1>10. Agree(r, s2)
  BY <1>4, <1>8 DEF Agree, Hands
<1>11. PICK q : /\ Agree(r, q)
                /\ Execute(M(s2, m), tail) = M(q, [m EXCEPT ![AddressOf(fun, <<u.dst, 0>>)] = s2[t0]])
  BY <1>2, <1>10, StoreEnds, PoolRegisters DEF Hands, tail, Ready
<1>12. Target(u) = <<u.dst, 0>>
  BY DEF Target
<1> QED BY <1>1, <1>8, <1>9, <1>11, <1>12, Zenon DEF Does

(* The code of a binary unit on two variables does.                         *)
LEMMA BinaryDoes ==
    ASSUME NEW r, NEW m, Ready(r, m), NEW t0, NEW t1, NEW t2, Hands(t0, t1, t2),
           NEW u \in Units[fun], u.type = "binary", u.src2.ns # "literal"
    PROVE  Does(r, m, u, Code(fun, u, t0, t1, t2))
<1> DEFINE a == load(fun, t0, u.src1)
           b == load(fun, t1, u.src2)
           c == rbr(u.bop, t0, t0, t1)
           tail == store(fun, t0, u.dst, t2)
<1>1. Code(fun, u, t0, t1, t2) = <<a, b, c>> \o tail
  BY CodeBinary, Zenon
<1>2. /\ Word2(u.bop, Source!Value(u.src1), Source!Value(u.src2)) = Result(u)
      /\ Result(u) \in Int
      /\ u.dst \in Scalars[fun] \cup Fun[fun].ptr
      /\ u.src1 \in Numbers(fun) \cup Bases(fun)
      /\ u.src2 \in Numbers(fun) \cup Bases(fun)
      /\ fun \in DOMAIN Fun
  BY BinaryWord DEF Ready
<1>3. PICK s1 \in Registers : /\ Exec(M(r, m), a) = M(s1, m)
                              /\ s1[t0] = Source!Value(u.src1) /\ s1[Zero] = 0
                              /\ \A x \in Reg \ {t0} : s1[x] = r[x]
  <2>1. t0 \in Pool(fun)
    BY DEF Hands
  <2> QED BY <1>2, <2>1, ReadyZero
<1>4. PICK s2 \in Registers : /\ Exec(M(s1, m), b) = M(s2, m)
                              /\ s2[t1] = Source!Value(u.src2) /\ s2[Zero] = 0
                              /\ \A x \in Reg \ {t1} : s2[x] = s1[x]
  <2>1. EnvOK /\ m \in Memories(fun) /\ Holds(fun, m, env) /\ t1 \in Pool(fun)
    BY DEF Ready, Hands
  <2>2. u.src2 \in Numbers(fun) \cup Bases(fun) /\ s1 \in Registers /\ s1[Zero] = 0
    BY <1>2, <1>3
  <2>3. fun \in DOMAIN Fun
    BY <1>2
  <2> QED BY <2>1, <2>2, <2>3, LoadStep, ZenonT(60)
<1>5. c.type = "rbr" /\ c.dst = t0 /\ c.src1 = t0 /\ c.src2 = t1 /\ c.bop = u.bop
  BY DEF rbr
<1>6. IsCode(tail)
  BY StoreIsCode
<1>7. t0 \in Reg /\ t1 \in Reg /\ t0 # t1
  BY <1>2, PoolRegisters DEF Hands
<1> HIDE DEF a, b, c, tail
<1>8. Exec(M(s2, m), c) = M([s2 EXCEPT ![t0] = Result(u)], m)
  <2>1. Word2(c.bop, s2[c.src1], s2[c.src2]) = Result(u)
    BY <1>2, <1>3, <1>4, <1>5, <1>7
  <2> QED BY <1>5, <2>1, ExecRbr
<1>9. PICK s3 \in Registers : /\ Exec(M(s2, m), c) = M(s3, m)
                              /\ s3[t0] = Result(u) /\ s3[Zero] = 0
                              /\ \A x \in Reg \ {t0} : s3[x] = s2[x]
  BY <1>2, <1>4, <1>8, SetStep DEF Hands
<1>10. Execute(M(r, m), <<a, b, c>> \o tail) = Execute(M(s3, m), tail)
  <2>1. Execute(M(r, m), <<a, b, c>> \o tail) = Execute(Exec(Exec(Exec(M(r, m), a), b), c), tail)
    BY <1>6, ExecuteThreeThen
  <2> QED BY <1>3, <1>4, <1>9, <2>1, Zenon
<1>11. Agree(r, s3)
  BY <1>3, <1>4, <1>9 DEF Agree, Hands
<1>12. PICK q : /\ Agree(r, q)
                /\ Execute(M(s3, m), tail) = M(q, [m EXCEPT ![AddressOf(fun, <<u.dst, 0>>)] = s3[t0]])
  BY <1>2, <1>7, <1>11, StoreEnds DEF Hands, tail, Ready
<1>13. Target(u) = <<u.dst, 0>>
  BY DEF Target
<1> QED BY <1>1, <1>9, <1>10, <1>12, <1>13, Zenon DEF Does

(* The element that an array unit is about is where its code looks for it.  *)
LEMMA ElementAt ==
    ASSUME fun \in DOMAIN Fun, NEW base, NEW incr, Source!At(base, incr) # {}
    PROVE  LET c == CHOOSE x \in Source!At(base, incr) : TRUE
           IN  /\ c \in Elements[fun] /\ c \in Cells[fun]
               /\ AddressOf(fun, c) = Source!Value(base) + Source!Value(incr)
               /\ AddressOf(fun, c) \in FrameWords[fun] \cup GlobalWords
<1> DEFINE c == CHOOSE x \in Source!At(base, incr) : TRUE
<1>1. c \in Source!At(base, incr)
  OBVIOUS
<1> HIDE DEF c
<1>2. c \in Elements[fun] /\ Address[fun][c[1]] + c[2] = Source!Value(base) + Source!Value(incr)
  BY <1>1, SourceNames DEF Source!At
<1>3. c \in Cells[fun]
  BY <1>2 DEF Elements
<1>4. AddressOf(fun, c) \in FrameWords[fun] \cup GlobalWords
  BY <1>3, PlacesApart
<1> QED BY <1>2, <1>3, <1>4 DEF AddressOf, c

(* A write at a literal offset reaches the element that the source names.   *)
LEMMA AwLiteralDoes ==
    ASSUME NEW r, NEW m, Ready(r, m), NEW t0, NEW t1, NEW t2, Hands(t0, t1, t2),
           NEW u \in Units[fun], u.type = "aw", u.incr.ns = "literal",
           Source!At(u.dst, u.incr) # {}
    PROVE  Does(r, m, u, Code(fun, u, t0, t1, t2))
<1> DEFINE a == load(fun, t0, u.dst)
           b == load(fun, t1, u.src)
           c == [type |-> "aw", dst |-> t0, src |-> t1, incr |-> u.incr.id]
<1>1. Code(fun, u, t0, t1, t2) = <<a, b, c>>
  BY CodeAwLiteral
<1>2. /\ u.dst \in Numbers(fun) \cup Bases(fun) /\ u.src \in Numbers(fun) \cup Bases(fun)
      /\ u.incr \in Numbers(fun)
      /\ fun \in DOMAIN Fun /\ EnvOK /\ m \in Memories(fun) /\ Holds(fun, m, env)
      /\ t0 \in Pool(fun) /\ t1 \in Pool(fun)
  BY UnitShape DEF Ready, Hands
<1>3. u.incr.id = Source!Value(u.incr)
  BY <1>2, LiteralOperand
<1>4. PICK s1 \in Registers : /\ Exec(M(r, m), a) = M(s1, m)
                              /\ s1[t0] = Source!Value(u.dst) /\ Ready(s1, m)
                              /\ \A x \in Reg \ {t0} : s1[x] = r[x]
  BY <1>2, ReadyLoad, SMTT(60) DEF a
<1>5. PICK s2 \in Registers : /\ Exec(M(s1, m), b) = M(s2, m)
                              /\ s2[t1] = Source!Value(u.src) /\ Ready(s2, m)
                              /\ \A x \in Reg \ {t1} : s2[x] = s1[x]
  <2>1. t1 \in Pool(fun) /\ u.src \in Numbers(fun) \cup Bases(fun)
    BY <1>2
  <2> HIDE DEF a, c
  <2> QED BY <1>4, <2>1, ReadyLoad DEF b
<1>6. c.type = "aw" /\ c.dst = t0 /\ c.src = t1 /\ c.incr = u.incr.id
  OBVIOUS
<1>7. t0 \in Reg /\ t1 \in Reg /\ t0 # t1
  BY <1>2, PoolRegisters DEF Hands
<1> HIDE DEF a, b, c
<1>8. AddressOf(fun, Target(u)) = Source!Value(u.dst) + Source!Value(u.incr)
  BY <1>2, ElementAt DEF Target
<1>9. Exec(M(s2, m), c) = M(s2, [m EXCEPT ![AddressOf(fun, Target(u))] = Result(u)])
  <2>1. s2[c.dst] + c.incr = AddressOf(fun, Target(u)) /\ s2[c.src] = Source!Value(u.src)
    BY <1>3, <1>4, <1>5, <1>6, <1>7, <1>8
  <2>2. Exec(M(s2, m), c) = M(s2, [m EXCEPT ![s2[c.dst] + c.incr] = s2[c.src]])
    BY <1>6, ExecAw
  <2>3. Result(u) = Source!Value(u.src)
    BY DEF Result
  <2> QED BY <2>1, <2>2, <2>3, Zenon
<1>10. Execute(M(r, m), <<a, b, c>>) = Exec(Exec(Exec(M(r, m), a), b), c)
  BY ExecuteThree
<1>11. Agree(r, s2)
  BY <1>2, <1>4, <1>5 DEF Agree
<1> QED BY <1>1, <1>4, <1>5, <1>9, <1>10, <1>11, Zenon DEF Does

(* plus adds all but poison.                                                *)
LEMMA PlusWord ==
    ASSUME NEW v \in Nat, NEW w \in Nat PROVE Word2("plus", v, w) = v + w
BY DEF Word2, Poison

(* A write at a computed offset reaches that element too.                   *)
LEMMA AwDoes ==
    ASSUME NEW r, NEW m, Ready(r, m), NEW t0, NEW t1, NEW t2, Hands(t0, t1, t2),
           NEW u \in Units[fun], u.type = "aw", u.incr.ns # "literal",
           Source!At(u.dst, u.incr) # {}
    PROVE  Does(r, m, u, Code(fun, u, t0, t1, t2))
<1> DEFINE a == load(fun, t0, u.dst)
           b == load(fun, t1, u.incr)
           c == rbr("plus", t0, t0, t1)
           d == load(fun, t1, u.src)
           e == [type |-> "aw", dst |-> t0, src |-> t1, incr |-> 0]
<1>1. Code(fun, u, t0, t1, t2) = <<a, b, c, d, e>>
  BY CodeAw
<1>2. /\ u.dst \in Numbers(fun) \cup Bases(fun) /\ u.src \in Numbers(fun) \cup Bases(fun)
      /\ u.incr \in Numbers(fun) \cup Bases(fun)
      /\ fun \in DOMAIN Fun /\ EnvOK /\ m \in Memories(fun) /\ Holds(fun, m, env)
      /\ t0 \in Pool(fun) /\ t1 \in Pool(fun)
  BY UnitShape DEF Ready, Hands
<1>3. PICK s1 \in Registers : /\ Exec(M(r, m), a) = M(s1, m)
                              /\ s1[t0] = Source!Value(u.dst) /\ Ready(s1, m)
                              /\ \A x \in Reg \ {t0} : s1[x] = r[x]
  BY <1>2, ReadyLoad, SMTT(60) DEF a
<1>4. PICK s2 \in Registers : /\ Exec(M(s1, m), b) = M(s2, m)
                              /\ s2[t1] = Source!Value(u.incr) /\ Ready(s2, m)
                              /\ \A x \in Reg \ {t1} : s2[x] = s1[x]
  <2>1. t1 \in Pool(fun) /\ u.incr \in Numbers(fun) \cup Bases(fun)
    BY <1>2
  <2> HIDE DEF a, c
  <2> QED BY <1>3, <2>1, ReadyLoad DEF b
<1>5. c.type = "rbr" /\ c.dst = t0 /\ c.src1 = t0 /\ c.src2 = t1 /\ c.bop = "plus"
  BY DEF rbr
<1>6. e.type = "aw" /\ e.dst = t0 /\ e.src = t1 /\ e.incr = 0
  OBVIOUS
<1>7. t0 \in Reg /\ t1 \in Reg /\ t0 # t1
  BY <1>2, PoolRegisters DEF Hands
<1> HIDE DEF a, b, c, d, e
<1>8. /\ AddressOf(fun, Target(u)) = Source!Value(u.dst) + Source!Value(u.incr)
      /\ Source!Value(u.dst) \in Nat /\ Source!Value(u.incr) \in Nat
  BY <1>2, ElementAt, Values DEF Target
<1>9. Exec(M(s2, m), c) = M([s2 EXCEPT ![t0] = AddressOf(fun, Target(u))], m)
  <2>1. Word2(c.bop, s2[c.src1], s2[c.src2]) = AddressOf(fun, Target(u))
    BY <1>3, <1>4, <1>5, <1>7, <1>8, PlusWord
  <2> QED BY <1>5, <2>1, ExecRbr
<1>10. PICK s3 \in Registers : /\ Exec(M(s2, m), c) = M(s3, m)
                               /\ s3[t0] = AddressOf(fun, Target(u)) /\ Ready(s3, m)
                               /\ \A x \in Reg \ {t0} : s3[x] = s2[x]
  <2>1. AddressOf(fun, Target(u)) \in Int
    BY <1>8
  <2> QED BY <1>2, <1>4, <1>9, <2>1, ReadySet
<1>11. PICK s4 \in Registers : /\ Exec(M(s3, m), d) = M(s4, m)
                               /\ s4[t1] = Source!Value(u.src) /\ Ready(s4, m)
                               /\ \A x \in Reg \ {t1} : s4[x] = s3[x]
  <2>1. t1 \in Pool(fun) /\ u.src \in Numbers(fun) \cup Bases(fun)
    BY <1>2
  <2> HIDE DEF a, c
  <2> QED BY <1>10, <2>1, ReadyLoad DEF d
<1>12. Exec(M(s4, m), e) = M(s4, [m EXCEPT ![AddressOf(fun, Target(u))] = Result(u)])
  <2>1. s4[e.dst] + e.incr = AddressOf(fun, Target(u)) /\ s4[e.src] = Source!Value(u.src)
    BY <1>6, <1>7, <1>8, <1>10, <1>11
  <2>2. Exec(M(s4, m), e) = M(s4, [m EXCEPT ![s4[e.dst] + e.incr] = s4[e.src]])
    BY <1>6, ExecAw
  <2>3. Result(u) = Source!Value(u.src)
    BY DEF Result
  <2> QED BY <2>1, <2>2, <2>3, Zenon
<1>13. Execute(M(r, m), <<a, b, c, d, e>>) = Exec(Exec(Exec(Exec(Exec(M(r, m), a), b), c), d), e)
  BY ExecuteFive
<1>14. Agree(r, s4)
  BY <1>2, <1>3, <1>4, <1>10, <1>11 DEF Agree
<1>15. Execute(M(r, m), <<a, b, c, d, e>>) = Exec(M(s4, m), e)
  BY <1>3, <1>4, <1>10, <1>11, <1>13, Zenon
<1> QED BY <1>1, <1>12, <1>14, <1>15, Zenon DEF Does

(* A read at an element's address gives the element.                        *)
LEMMA ReadElement ==
    ASSUME NEW r, NEW m, Ready(r, m), NEW s,
           NEW u \in Units[fun], u.type = "ar", Source!At(u.src, u.incr) # {}
    PROVE  /\ Read(M(s, m), Source!Value(u.src) + Source!Value(u.incr)) = Result(u)
           /\ Result(u) \in Word
<1> DEFINE c == CHOOSE x \in Source!At(u.src, u.incr) : TRUE
<1>1. /\ c \in Elements[fun] /\ c \in Cells[fun]
      /\ AddressOf(fun, c) = Source!Value(u.src) + Source!Value(u.incr)
      /\ AddressOf(fun, c) \in FrameWords[fun] \cup GlobalWords
  BY ElementAt DEF Ready
<1>2. Result(u) = env[c]
  BY DEF Result
<1> HIDE DEF c
<1>3. AddressOf(fun, c) \in DOMAIN m /\ m[AddressOf(fun, c)] = env[c]
  BY <1>1 DEF Ready, Holds, Memories
<1>4. env[c] \in Word
  BY <1>1 DEF Ready, EnvOK
<1>5. Read(M(s, m), AddressOf(fun, c)) = m[AddressOf(fun, c)]
  BY <1>3, Setters DEF Read
<1> QED BY <1>1, <1>2, <1>3, <1>4, <1>5

(* A read at a literal offset assigns the element.                          *)
LEMMA ArLiteralDoes ==
    ASSUME NEW r, NEW m, Ready(r, m), NEW t0, NEW t1, NEW t2, Hands(t0, t1, t2),
           NEW u \in Units[fun], u.type = "ar", u.incr.ns = "literal",
           Source!At(u.src, u.incr) # {}
    PROVE  Does(r, m, u, Code(fun, u, t0, t1, t2))
<1> DEFINE a == load(fun, t1, u.src)
           c == [type |-> "ar", dst |-> t0, src |-> t1, incr |-> u.incr.id]
           tail == store(fun, t0, u.dst, t2)
<1>1. Code(fun, u, t0, t1, t2) = <<a, c>> \o tail
  BY CodeArLiteral, Zenon
<1>2. /\ u.src \in Numbers(fun) \cup Bases(fun) /\ u.incr \in Numbers(fun)
      /\ u.dst \in Scalars[fun]
      /\ fun \in DOMAIN Fun /\ EnvOK /\ m \in Memories(fun) /\ Holds(fun, m, env)
      /\ t0 \in Pool(fun) /\ t1 \in Pool(fun)
  BY UnitShape DEF Ready, Hands
<1>3. u.incr.id = Source!Value(u.incr)
  BY <1>2, LiteralOperand
<1>4. PICK s1 \in Registers : /\ Exec(M(r, m), a) = M(s1, m)
                              /\ s1[t1] = Source!Value(u.src) /\ Ready(s1, m)
                              /\ \A x \in Reg \ {t1} : s1[x] = r[x]
  BY <1>2, ReadyLoad DEF a
<1>5. c.type = "ar" /\ c.dst = t0 /\ c.src = t1 /\ c.incr = u.incr.id
  OBVIOUS
<1>6. IsCode(tail)
  BY StoreIsCode
<1> HIDE DEF a, c, tail
<1>7. Exec(M(s1, m), c) = M([s1 EXCEPT ![t0] = Result(u)], m)
  <2>1. Read(M(s1, m), s1[c.src] + c.incr) = Result(u)
    BY <1>3, <1>4, <1>5, ReadElement
  <2> QED BY <1>5, <2>1, ExecAr
<1>8. PICK s2 \in Registers : /\ Exec(M(s1, m), c) = M(s2, m)
                              /\ s2[t0] = Result(u) /\ Ready(s2, m)
                              /\ \A x \in Reg \ {t0} : s2[x] = s1[x]
  <2>1. Result(u) \in Int
    BY ReadElement, WordIsNat
  <2> QED BY <1>2, <1>4, <1>7, <2>1, ReadySet
<1>9. Execute(M(r, m), <<a, c>> \o tail) = Execute(M(s2, m), tail)
  <2>1. Execute(M(r, m), <<a, c>> \o tail) = Execute(Exec(Exec(M(r, m), a), c), tail)
    BY <1>6, ExecuteTwoThen
  <2> QED BY <1>4, <1>8, <2>1, Zenon
<1>10. Agree(r, s2)
  BY <1>2, <1>4, <1>8 DEF Agree
<1>11. PICK q : /\ Agree(r, q)
                /\ Execute(M(s2, m), tail) = M(q, [m EXCEPT ![AddressOf(fun, <<u.dst, 0>>)] = s2[t0]])
  BY <1>2, <1>10, StoreEnds, PoolRegisters DEF Hands, tail
<1>12. Target(u) = <<u.dst, 0>>
  BY DEF Target
<1> QED BY <1>1, <1>8, <1>9, <1>11, <1>12, Zenon DEF Does

(* A read at a computed offset does.                                        *)
LEMMA ArDoes ==
    ASSUME NEW r, NEW m, Ready(r, m), NEW t0, NEW t1, NEW t2, Hands(t0, t1, t2),
           NEW u \in Units[fun], u.type = "ar", u.incr.ns # "literal",
           Source!At(u.src, u.incr) # {}
    PROVE  Does(r, m, u, Code(fun, u, t0, t1, t2))
<1> DEFINE a == load(fun, t1, u.src)
           b == load(fun, t0, u.incr)
           c == rbr("plus", t1, t1, t0)
           d == [type |-> "ar", dst |-> t0, src |-> t1, incr |-> 0]
           tail == store(fun, t0, u.dst, t2)
           w == Source!Value(u.src) + Source!Value(u.incr)
<1>1. Code(fun, u, t0, t1, t2) = <<a, b, c, d>> \o tail
  BY CodeAr, Zenon
<1>2. /\ u.src \in Numbers(fun) \cup Bases(fun) /\ u.incr \in Numbers(fun) \cup Bases(fun)
      /\ u.dst \in Scalars[fun]
      /\ fun \in DOMAIN Fun /\ EnvOK /\ m \in Memories(fun) /\ Holds(fun, m, env)
      /\ t0 \in Pool(fun) /\ t1 \in Pool(fun)
  BY UnitShape DEF Ready, Hands
<1>3. PICK s1 \in Registers : /\ Exec(M(r, m), a) = M(s1, m)
                              /\ s1[t1] = Source!Value(u.src) /\ Ready(s1, m)
                              /\ \A x \in Reg \ {t1} : s1[x] = r[x]
  BY <1>2, ReadyLoad DEF a
<1>4. PICK s2 \in Registers : /\ Exec(M(s1, m), b) = M(s2, m)
                              /\ s2[t0] = Source!Value(u.incr) /\ Ready(s2, m)
                              /\ \A x \in Reg \ {t0} : s2[x] = s1[x]
  BY <1>2, <1>3, ReadyLoad, SMTT(60) DEF b
<1>5. c.type = "rbr" /\ c.dst = t1 /\ c.src1 = t1 /\ c.src2 = t0 /\ c.bop = "plus"
  BY DEF rbr
<1>6. d.type = "ar" /\ d.dst = t0 /\ d.src = t1 /\ d.incr = 0
  OBVIOUS
<1>7. t0 \in Reg /\ t1 \in Reg /\ t0 # t1
  BY <1>2, PoolRegisters DEF Hands
<1>8. IsCode(tail)
  BY StoreIsCode
<1>9. Source!Value(u.src) \in Nat /\ Source!Value(u.incr) \in Nat
  BY <1>2, Values
<1> HIDE DEF a, b, c, d, tail
<1>10. w \in Int /\ w + 0 = w
  BY <1>9
<1>11. Exec(M(s2, m), c) = M([s2 EXCEPT ![t1] = w], m)
  <2>1. Word2(c.bop, s2[c.src1], s2[c.src2]) = w
    BY <1>3, <1>4, <1>5, <1>7, <1>9, PlusWord
  <2> QED BY <1>5, <2>1, ExecRbr
<1>12. Read(M(r, m), w) = Result(u) /\ Result(u) \in Int /\ \A s : Read(M(s, m), w) = Result(u)
  BY ReadElement, WordIsNat, Zenon
<1> HIDE DEF w
<1>13. PICK s3 \in Registers : /\ Exec(M(s2, m), c) = M(s3, m)
                               /\ s3[t1] = w /\ Ready(s3, m)
                               /\ \A x \in Reg \ {t1} : s3[x] = s2[x]
  BY <1>2, <1>4, <1>10, <1>11, ReadySet
<1>14. Exec(M(s3, m), d) = M([s3 EXCEPT ![t0] = Result(u)], m)
  <2>1. Read(M(s3, m), s3[d.src] + d.incr) = Result(u)
    BY <1>6, <1>10, <1>12, <1>13
  <2> QED BY <1>6, <2>1, ExecAr
<1>15. PICK s4 \in Registers : /\ Exec(M(s3, m), d) = M(s4, m)
                               /\ s4[t0] = Result(u) /\ Ready(s4, m)
                               /\ \A x \in Reg \ {t0} : s4[x] = s3[x]
  BY <1>2, <1>12, <1>13, <1>14, ReadySet
<1>16. Execute(M(r, m), <<a, b, c, d>> \o tail) = Execute(M(s4, m), tail)
  <2>1. Execute(M(r, m), <<a, b, c, d>> \o tail)
          = Execute(Exec(Exec(Exec(Exec(M(r, m), a), b), c), d), tail)
    BY <1>8, ExecuteFourThen
  <2> QED BY <1>3, <1>4, <1>13, <1>15, <2>1, Zenon
<1>17. Agree(r, s4)
  BY <1>2, <1>3, <1>4, <1>13, <1>15 DEF Agree
<1>18. PICK q : /\ Agree(r, q)
                /\ Execute(M(s4, m), tail) = M(q, [m EXCEPT ![AddressOf(fun, <<u.dst, 0>>)] = s4[t0]])
  BY <1>2, <1>7, <1>17, StoreEnds DEF Hands, tail
<1>19. Target(u) = <<u.dst, 0>>
  BY DEF Target
<1> QED BY <1>1, <1>15, <1>16, <1>18, <1>19, Zenon DEF Does

-----------------------------------------------------------------------------
(* Prologue and epilogue.                                                   *)

\* The code stores registers, and w is m with what it stores.
Writes(m, r, w, code) ==
    /\ \A j \in 1 .. Len(code) : /\ code[j].type = "wstk" /\ code[j].addr \in DOMAIN m
                                 /\ w[code[j].addr] = r[code[j].src]
    /\ \A x \in DOMAIN m : (\A j \in 1 .. Len(code) : code[j].addr # x) => w[x] = m[x]

(* A run of stores leaves each word as the last of its stores says, w.      *)
LEMMA WritesRun ==
    ASSUME NEW r, NEW m, NEW w, m \in [DOMAIN m -> Int], w \in [DOMAIN m -> Int],
           NEW code, Len(code) \in Nat, Writes(m, r, w, code)
    PROVE  Execute(M(r, m), code) = M(r, w)
<1> USE DEF Writes
<1> DEFINE n == Len(code)
           D == DOMAIN m
           part(k) == [x \in D |-> IF \E j \in 1 .. k : code[j].addr = x THEN w[x] ELSE m[x]]
           a == RunOf(M(r, m), code)
           b == [k \in 0 .. n |-> M(r, part(k))]
<1>1. n \in Nat /\ n = Len(code)
  OBVIOUS
<1>2. a[0] = M(r, m) /\ Follows(a, code, n) /\ Execute(M(r, m), code) = a[n]
  BY ExecuteRuns
<1> HIDE DEF a, n
<1>3. part(0) = m
  OBVIOUS
<1>4. part(n) = w
  BY <1>1
<1>5. ASSUME NEW k \in 1 .. n
      PROVE  [part(k - 1) EXCEPT ![code[k].addr] = r[code[k].src]] = part(k)
  <2>1. code[k].addr \in D /\ w[code[k].addr] = r[code[k].src]
    BY <1>1
  <2>2. \A x : (\E j \in 1 .. k : code[j].addr = x)
                 <=> ((\E j \in 1 .. k - 1 : code[j].addr = x) \/ x = code[k].addr)
    <3>1. \A j : j \in 1 .. k <=> (j \in 1 .. k - 1 \/ j = k)
      BY <1>1
    <3> QED BY <3>1
  <2> QED BY <2>1, <2>2
<1> HIDE DEF part
<1>6. Follows(b, code, n)
  <2> SUFFICES ASSUME NEW k \in 1 .. n PROVE b[k] = Exec(b[k - 1], code[k])
    BY DEF Follows
  <2>1. b[k] = M(r, part(k)) /\ b[k - 1] = M(r, part(k - 1))
    BY <1>1
  <2>2. code[k].type = "wstk"
    BY <1>1
  <2>3. Exec(M(r, part(k - 1)), code[k])
          = M(r, [part(k - 1) EXCEPT ![code[k].addr] = r[code[k].src]])
    BY <2>2, ExecWstk
  <2> QED BY <1>5, <2>1, <2>3
<1>7. b[0] = M(r, m) /\ b[n] = M(r, w)
  BY <1>1, <1>3, <1>4
<1> HIDE DEF b
<1> QED BY <1>1, <1>2, <1>6, <1>7, RunsAgree

(* A run of loads, likewise.                                                *)
LEMMA ReadsRun ==
    ASSUME NEW m, NEW r \in Registers, NEW w \in Registers,
           NEW code, Len(code) \in Nat,
           \A j \in 1 .. Len(code) : /\ code[j].type = "rstk" /\ code[j].dst \in Reg
                                     /\ code[j].addr \in DOMAIN m
                                     /\ w[code[j].dst] = m[code[j].addr],
           \A x \in Reg : (\A j \in 1 .. Len(code) : code[j].dst # x) => w[x] = r[x]
    PROVE  Execute(M(r, m), code) = M(w, m)
<1> DEFINE n == Len(code)
           part(k) == [x \in Reg |-> IF \E j \in 1 .. k : code[j].dst = x THEN w[x] ELSE r[x]]
           a == RunOf(M(r, m), code)
           b == [k \in 0 .. n |-> M(part(k), m)]
<1>1. n \in Nat /\ n = Len(code)
  OBVIOUS
<1>2. a[0] = M(r, m) /\ Follows(a, code, n) /\ Execute(M(r, m), code) = a[n]
  BY ExecuteRuns
<1> HIDE DEF a, n
<1>3. part(0) = r
  BY DEF Registers
<1>4. part(n) = w
  BY <1>1 DEF Registers
<1>5. ASSUME NEW k \in 1 .. n
      PROVE  [part(k - 1) EXCEPT ![code[k].dst] = Read(M(part(k - 1), m), code[k].addr)] = part(k)
  <2>1. code[k].dst \in Reg /\ code[k].addr \in DOMAIN m /\ w[code[k].dst] = m[code[k].addr]
    BY <1>1
  <2>2. \A x : (\E j \in 1 .. k : code[j].dst = x)
                 <=> ((\E j \in 1 .. k - 1 : code[j].dst = x) \/ x = code[k].dst)
    <3>1. \A j : j \in 1 .. k <=> (j \in 1 .. k - 1 \/ j = k)
      BY <1>1
    <3> QED BY <3>1
  <2>3. Read(M(part(k - 1), m), code[k].addr) = w[code[k].dst]
    <3> HIDE DEF part
    <3> QED BY <2>1, Setters DEF Read
  <2> QED BY <2>1, <2>2, <2>3
<1> HIDE DEF part
<1>6. Follows(b, code, n)
  <2> SUFFICES ASSUME NEW k \in 1 .. n PROVE b[k] = Exec(b[k - 1], code[k])
    BY DEF Follows
  <2>1. b[k] = M(part(k), m) /\ b[k - 1] = M(part(k - 1), m)
    BY <1>1
  <2>2. code[k].type \in {"rglo", "rstk"}
    BY <1>1
  <2>3. Exec(M(part(k - 1), m), code[k])
          = M([part(k - 1) EXCEPT ![code[k].dst] = Read(M(part(k - 1), m), code[k].addr)], m)
    BY <2>2, ExecRead
  <2> QED BY <1>5, <2>1, <2>3
<1>7. b[0] = M(r, m) /\ b[n] = M(w, m)
  BY <1>1, <1>3, <1>4
<1> HIDE DEF b
<1> QED BY <1>1, <1>2, <1>6, <1>7, RunsAgree

(* What survives between two units.                                         *)
LEMMA SettledKeeps ==
    ASSUME NEW f \in DOMAIN Fun, NEW r \in Registers, NEW n \in 0 .. NArg + NSpill
    PROVE  /\ Settled(f, r, n) \in Registers
           /\ Settled(f, r, n)[Zero] = r[Zero]
           /\ \A i \in 0 .. n - 1 : Settled(f, r, n)[abi_argument(i)] = r[abi_argument(i)]
           /\ \A i \in callee_saved_heuristic[f] .. NSave - 1 : Settled(f, r, n)[Save(i)] = r[Save(i)]
<1> DEFINE kept == {Zero} \cup {abi_argument(i) : i \in 0 .. n - 1}
                     \cup {Save(i) : i \in callee_saved_heuristic[f] .. NSave - 1}
<1>1. Settled(f, r, n) = [x \in Reg |-> IF x \in kept THEN r[x] ELSE Poison]
  BY DEF Settled
<1>2. /\ Zero \in Reg /\ Zero \in kept
      /\ \A i \in 0 .. n - 1 : abi_argument(i) \in Reg /\ abi_argument(i) \in kept
      /\ \A i \in callee_saved_heuristic[f] .. NSave - 1 : Save(i) \in Reg /\ Save(i) \in kept
  <2>1. \A i \in 0 .. n - 1 : i \in 0 .. NArg + NSpill - 1
    BY RegisterAssumption
  <2> QED BY <2>1, PoolRegisters, ArgumentRegisters
<1> HIDE DEF kept
<1>3. Settled(f, r, n) \in Registers
  BY <1>1 DEF Registers, Poison
<1> QED BY <1>1, <1>2, <1>3

-----------------------------------------------------------------------------
(* The inductive invariant.                                                 *)

\* The saved registers: in the frame those that the pool has, in place the rest.
SavesKept ==
    running =>
      /\ \A i \in 0 .. callee_saved_heuristic[fun] - 1 : mem[Frame + 4 * i] = Kept(i)
      /\ \A i \in callee_saved_heuristic[fun] .. NSave - 1 : regs[Save(i)] = Kept(i)

IInv ==
    /\ fun \in DOMAIN Fun
    /\ TypeOK
    /\ EnvOK
    /\ regs[Zero] = 0
    /\ MemoryHoldsEnv /\ ArgsInPlace /\ SameEvents /\ CalleeSaved
    /\ SavesKept
    /\ ~running => args = <<>>

(* Memory that holds the variables gives them back.                         *)
LEMMA HoldsEnv ==
    ASSUME NEW f, NEW m, NEW e, DOMAIN e = Cells[f], e = [c \in Cells[f] |-> e[c]]
    PROVE  Holds(f, m, e) <=> [c \in Cells[f] |-> m[Address[f][c[1]] + c[2]]] = e
BY DEF Holds, AddressOf

(* The invariant makes registers and memory ready for a unit.               *)
LEMMA InvReady ==
    ASSUME IInv
    PROVE  Ready(regs, mem)
<1>1. /\ fun \in DOMAIN Fun /\ EnvOK /\ mem \in Memories(fun)
      /\ regs \in Registers /\ regs[Zero] = 0
  BY DEF IInv, TypeOK, Memories, Registers
<1>2. Env = env /\ DOMAIN env = Cells[fun] /\ env = [c \in Cells[fun] |-> env[c]]
  BY DEF IInv, MemoryHoldsEnv, EnvOK
<1>3. Holds(fun, mem, env)
  BY <1>2, HoldsEnv DEF Env
<1> QED BY <1>1, <1>3 DEF Ready

(* There are as many arguments as were counted.                             *)
LEMMA NoArgs ==
    ASSUME ArgsInPlace, param_c \in 0 .. NArg + NSpill
    PROVE  Len(args) = param_c /\ (args = <<>> <=> param_c = 0)
<1>1. args = [i \in 1 .. param_c |-> regs[abi_argument(i - 1)]] /\ param_c \in Nat
  BY RegisterAssumption DEF ArgsInPlace, Args
<1>2. Len(args) = param_c
  BY <1>1
<1>3. args = <<>> <=> param_c = 0
  BY <1>1, <1>2
<1> QED BY <1>2, <1>3

(* A computation assigns a value to a variable that may have it.            *)
LEMMA TargetResult ==
    ASSUME fun \in DOMAIN Fun, EnvOK, NEW u \in Source!Of(Computes)
    PROVE  /\ Target(u) \in Cells[fun] /\ Result(u) \in Nat
           /\ \A o \in Scalars[fun] : Target(u) = <<o, 0>> => Result(u) \in Word
           /\ Target(u) \in Elements[fun] => Result(u) \in Word
<1>1. u \in Units[fun] /\ u.type \in Computes /\ Source!Defined(u)
  BY SourceNames DEF Source!Of
<1>2. CASE u.type = "unary"
  <2>1. u.dst \in Scalars[fun] /\ u.src \in Numbers(fun)
    BY <1>1, <1>2, UnitShape DEF Numbers
  <2>2. Source!Value(u.src) \in Word
    BY <2>1, Values
  <2>3. Result(u) \in Word
    BY <1>2, <2>2, PinkieAssumption DEF Result
  <2>4. Target(u) \in Cells[fun]
    BY <1>2, <2>1, ScalarCell DEF Target
  <2> QED BY <2>3, <2>4, WordIsNat
<1>3. ASSUME u.dst \in Fun[fun].ptr, Target(u) = <<u.dst, 0>>
      PROVE  /\ Target(u) \in Cells[fun] /\ Target(u) \notin Elements[fun]
             /\ \A o \in Scalars[fun] : Target(u) # <<o, 0>>
  <2>1. Target(u) \in Cells[fun] /\ u.dst \notin Arrays[fun]
    BY <1>3, ScalarCell
  <2>2. Target(u) \notin Elements[fun]
    BY <1>3, <2>1 DEF Elements
  <2>3. \A o \in Scalars[fun] : Target(u) # <<o, 0>>
    BY <1>3 DEF Scalars
  <2> QED BY <2>1, <2>2, <2>3
<1>4. CASE u.type = "binary"
  <2>1. Target(u) = <<u.dst, 0>>
    BY <1>4 DEF Target
  <2>2. \/ /\ u.bop = "bop" /\ u.dst \in Scalars[fun]
           /\ u.src1 \in Numbers(fun) /\ u.src2 \in Numbers(fun)
        \/ /\ u.bop = "plus" /\ u.dst \in Fun[fun].ptr
           /\ u.src1 \in Bases(fun) /\ u.src2 \in Numbers(fun)
    BY <1>1, <1>4, UnitShape
  <2>3. CASE u.bop = "bop"
    <3>1. Source!Value(u.src1) \in Word /\ Source!Value(u.src2) \in Word /\ u.dst \in Scalars[fun]
      BY <2>2, <2>3, Values
    <3>2. Result(u) = Bin[<<Source!Value(u.src1), Source!Value(u.src2)>>]
      BY <1>4, <2>3 DEF Result, Source!Binary
    <3>3. Result(u) \in Word
      BY <3>1, <3>2, PinkieAssumption
    <3>4. Target(u) \in Cells[fun]
      BY <2>1, <3>1, ScalarCell
    <3> QED BY <3>3, <3>4, WordIsNat
  <2>4. CASE u.bop = "plus"
    <3>1. /\ Source!Value(u.src1) \in Nat /\ Source!Value(u.src2) \in Nat
          /\ u.dst \in Fun[fun].ptr
      BY <2>2, <2>4, Values
    <3>2. Result(u) = Source!Value(u.src1) + Source!Value(u.src2)
      BY <1>4, <2>4 DEF Result, Source!Binary
    <3>3. Result(u) \in Nat
      BY <3>1, <3>2
    <3> QED BY <1>3, <2>1, <3>1, <3>3
  <2> QED BY <2>2, <2>3, <2>4
<1>5. CASE u.type = "copy"
  <2>1. Target(u) = <<u.dst, 0>> /\ Result(u) = Source!Value(u.src)
    BY <1>5 DEF Target, Result
  <2>2. \/ u.dst \in Scalars[fun] /\ u.src \in Numbers(fun)
        \/ u.dst \in Fun[fun].ptr /\ u.src \in Bases(fun)
    BY <1>1, <1>5, UnitShape
  <2>3. CASE u.dst \in Scalars[fun] /\ u.src \in Numbers(fun)
    <3>1. Result(u) \in Word
      BY <2>1, <2>3, Values
    <3>2. Target(u) \in Cells[fun]
      BY <2>1, <2>3, ScalarCell
    <3> QED BY <3>1, <3>2, WordIsNat
  <2>4. CASE u.dst \in Fun[fun].ptr /\ u.src \in Bases(fun)
    <3>1. Result(u) \in Nat
      BY <2>1, <2>4, Values
    <3> QED BY <1>3, <2>1, <2>4, <3>1
  <2> QED BY <2>2, <2>3, <2>4
<1>6. CASE u.type = "aw"
  <2>1. Source!At(u.dst, u.incr) # {}
    BY <1>1, <1>6 DEF Source!Defined
  <2>2. Target(u) \in Cells[fun]
    BY <1>6, <2>1, ElementAt DEF Target
  <2>3. Result(u) = Source!Value(u.src) /\ u.src \in Numbers(fun)
    BY <1>1, <1>6, UnitShape DEF Result
  <2>4. Result(u) \in Word
    BY <2>3, Values
  <2> QED BY <2>2, <2>4, WordIsNat
<1>7. CASE u.type = "ar"
  <2>1. Source!At(u.src, u.incr) # {}
    BY <1>1, <1>7 DEF Source!Defined
  <2>2. Result(u) = env[CHOOSE x \in Source!At(u.src, u.incr) : TRUE]
    BY <1>7 DEF Result
  <2>3. Result(u) \in Word
    BY <2>1, <2>2, ElementAt DEF EnvOK
  <2>4. u.dst \in Scalars[fun] /\ Target(u) = <<u.dst, 0>>
    BY <1>1, <1>7, UnitShape DEF Target
  <2>5. Target(u) \in Cells[fun]
    BY <2>4, ScalarCell
  <2> QED BY <2>3, <2>5, WordIsNat
<1> QED BY <1>1, <1>2, <1>4, <1>5, <1>6, <1>7 DEF Computes

(* The source machine assigns that result to that target.                   *)
LEMMA ComputeAssigns ==
    ASSUME NEW u, u.type \in Computes, Source!Compute(u)
    PROVE  /\ env' = [env EXCEPT ![Target(u)] = Result(u)]
           /\ event' = <<"none">> /\ fun' = fun /\ running' = running /\ args' = args
<1>1. CASE u.type = "unary"
  BY <1>1 DEF Source!Compute, Source!Assign, Target, Result
<1>2. CASE u.type = "binary"
  BY <1>2 DEF Source!Compute, Source!Assign, Target, Result
<1>3. CASE u.type = "copy"
  BY <1>3 DEF Source!Compute, Source!Assign, Target, Result
<1>4. CASE u.type = "aw"
  BY <1>4 DEF Source!Compute, Source!Assign, Target, Result
<1>5. CASE u.type = "ar"
  BY <1>5 DEF Source!Compute, Source!Assign, Target, Result
<1> QED BY <1>1, <1>2, <1>3, <1>4, <1>5 DEF Computes

(* Whatever a computation is, its code assigns the result.                  *)
LEMMA ComputeDoes ==
    ASSUME NEW r, NEW m, Ready(r, m), NEW t0, NEW t1, NEW t2, Hands(t0, t1, t2),
           NEW u \in Source!Of(Computes)
    PROVE  Does(r, m, u, Code(fun, u, t0, t1, t2))
<1>1. u \in Units[fun] /\ u.type \in Computes /\ Source!Defined(u)
  BY SourceNames DEF Source!Of
<1>2. /\ u.type = "aw" => Source!At(u.dst, u.incr) # {}
      /\ u.type = "ar" => Source!At(u.src, u.incr) # {}
  BY <1>1 DEF Source!Defined
<1>3. CASE u.type = "unary"
  BY <1>1, <1>3, UnaryDoes, Zenon
<1>4. CASE u.type = "copy"
  BY <1>1, <1>4, CopyDoes, Zenon
<1>5. CASE u.type = "binary"
  BY <1>1, <1>5, BinaryDoes, BinaryLiteralDoes, Zenon
<1>6. CASE u.type = "aw"
  BY <1>1, <1>2, <1>6, AwDoes, AwLiteralDoes, Zenon
<1>7. CASE u.type = "ar"
  BY <1>1, <1>2, <1>7, ArDoes, ArLiteralDoes, Zenon
<1> QED BY <1>1, <1>3, <1>4, <1>5, <1>6, <1>7 DEF Computes

Written(f, m, c, v) == [m EXCEPT ![AddressOf(f, c)] = v]
Assigned(e, c, v) == [e EXCEPT ![c] = v]

(* Assigning a variable in memory leaves the others and the saved registers. *)
LEMMA MemoryAfter ==
    ASSUME NEW f \in DOMAIN Fun, NEW m \in Memories(f), NEW e \in [Cells[f] -> Nat],
           Holds(f, m, e), NEW c \in Cells[f], NEW v \in Int
    PROVE  /\ Written(f, m, c, v) \in Memories(f)
           /\ Holds(f, Written(f, m, c, v), Assigned(e, c, v))
           /\ \A i \in 0 .. callee_saved_heuristic[f] - 1 :
                Written(f, m, c, v)[Frame + 4 * i] = m[Frame + 4 * i]
<1> DEFINE a == AddressOf(f, c)
           w == [m EXCEPT ![a] = v]
<1>1. /\ a \in FrameWords[f] \cup GlobalWords
      /\ \A d \in Cells[f] : a = AddressOf(f, d) => c = d
      /\ \A i \in 0 .. callee_saved_heuristic[f] - 1 : a # Frame + 4 * i
  BY PlacesApart
<1>2. \A d \in Cells[f] : AddressOf(f, d) \in FrameWords[f] \cup GlobalWords
  BY PlacesApart
<1> HIDE DEF a
<1>3. w \in Memories(f)
  BY <1>1 DEF Memories
<1>4. \A x \in FrameWords[f] \cup GlobalWords : w[x] = IF x = a THEN v ELSE m[x]
  BY <1>1 DEF Memories
<1>5. Holds(f, w, [e EXCEPT ![c] = v])
  <2> SUFFICES ASSUME NEW d \in Cells[f]
               PROVE  w[AddressOf(f, d)] = [e EXCEPT ![c] = v][d]
    BY DEF Holds
  <2>1. [e EXCEPT ![c] = v][d] = IF d = c THEN v ELSE e[d]
    OBVIOUS
  <2>2. m[AddressOf(f, d)] = e[d]
    BY DEF Holds
  <2>3. AddressOf(f, d) = a <=> d = c
    BY <1>1 DEF a
  <2> HIDE DEF w
  <2> QED BY <1>2, <1>4, <2>1, <2>2, <2>3
<1>6. \A i \in 0 .. callee_saved_heuristic[f] - 1 : w[Frame + 4 * i] = m[Frame + 4 * i]
  <2> HIDE DEF w
  <2> QED BY <1>1, <1>4, SavedInFrame
<1>7. Written(f, m, c, v) = w /\ Assigned(e, c, v) = [e EXCEPT ![c] = v]
  BY DEF Written, Assigned, a
<1> HIDE DEF w
<1> QED BY <1>3, <1>5, <1>6, <1>7

(* The pool turns within its length.                                        *)
LEMMA TurnedRange ==
    ASSUME fun \in DOMAIN Fun, tempo_cnt \in 0 .. Len(tempos[fun]) - 1, NEW u
    PROVE  turned(Draws(u)) \in 0 .. Len(tempos[fun]) - 1
<1> DEFINE n == Len(tempos[fun])
<1>1. n \in Nat /\ n >= 3 /\ tempo_cnt \in 0 .. n - 1
  BY TemposPool
<1>2. Draws(u) \in {2, 3}
  BY DEF Draws
<1>3. turned(Draws(u)) = IF tempo_cnt + Draws(u) >= n THEN tempo_cnt + Draws(u) - n
                                                      ELSE tempo_cnt + Draws(u)
  BY DEF turned
<1> HIDE DEF n
<1>4. turned(Draws(u)) \in 0 .. n - 1
  BY <1>1, <1>2, <1>3
<1> QED BY <1>4 DEF n

(* The invariant gives a unit its registers.                                *)
LEMMA InvHands ==
    ASSUME IInv
    PROVE  Hands(next_reg(1), next_reg(2), next_reg(3))
BY NextRegisters DEF IInv, TypeOK, Hands

\* What the code of a unit must leave alone: x0, and the saved registers that are
\* not in the pool.
Leaves(r, s) ==
    /\ s \in Registers /\ s[Zero] = r[Zero]
    /\ \A i \in callee_saved_heuristic[fun] .. NSave - 1 : s[Save(i)] = r[Save(i)]

(* Code that keeps to the pool leaves the rest.                             *)
LEMMA AgreeLeaves ==
    ASSUME fun \in DOMAIN Fun, NEW r, NEW s, Agree(r, s)
    PROVE  Leaves(r, s)
<1>1. Zero \in Reg \ Pool(fun)
  BY PoolRegisters
<1>2. \A i \in callee_saved_heuristic[fun] .. NSave - 1 : Save(i) \in Reg \ Pool(fun)
  BY PoolRegisters
<1> QED BY <1>1, <1>2 DEF Agree, Leaves

(* What a step within a function has to bring about.                        *)
LEMMA StepWithin ==
    ASSUME IInv, fun' = fun, running, running' = running,
           NEW q, Leaves(regs, q), NEW n \in 0 .. NArg + NSpill,
           regs' = Settled(fun, q, n), param_c' = n,
           mem' \in Memories(fun), env' \in [Cells[fun] -> Nat], Holds(fun, mem', env'),
           \A o \in Scalars[fun] : env'[<<o, 0>>] \in Word,
           \A c \in Elements[fun] : env'[c] \in Word,
           \A i \in 0 .. callee_saved_heuristic[fun] - 1 : mem'[Frame + 4 * i] = mem[Frame + 4 * i],
           tempo_cnt' \in 0 .. Len(tempos[fun]) - 1,
           args' = [i \in 1 .. n |-> q[abi_argument(i - 1)]],
           out' = event'
    PROVE  IInv'
<1>1. fun \in DOMAIN Fun /\ q \in Registers
  BY DEF IInv, Leaves
<1>2. /\ regs' \in Registers /\ regs'[Zero] = q[Zero]
      /\ \A i \in 0 .. n - 1 : regs'[abi_argument(i)] = q[abi_argument(i)]
      /\ \A i \in callee_saved_heuristic[fun] .. NSave - 1 : regs'[Save(i)] = q[Save(i)]
  BY <1>1, SettledKeeps
<1>3. regs'[Zero] = 0
  BY <1>1, <1>2 DEF IInv, Leaves
<1>4. TypeOK'
  BY <1>2 DEF TypeOK, Registers, Memories
<1>5. EnvOK'
  BY DEF EnvOK
<1>6. MemoryHoldsEnv'
  <2>1. DOMAIN env' = Cells[fun] /\ env' = [c \in Cells[fun] |-> env'[c]]
    OBVIOUS
  <2>2. [c \in Cells[fun] |-> mem'[Address[fun][c[1]] + c[2]]] = env'
    BY <2>1, HoldsEnv
  <2> QED BY <2>2 DEF MemoryHoldsEnv, Env
<1>7. ArgsInPlace'
  <2>1. \A i \in 1 .. n : regs'[abi_argument(i - 1)] = q[abi_argument(i - 1)]
    <3>1. \A i \in 1 .. n : i - 1 \in 0 .. n - 1
      OBVIOUS
    <3> QED BY <1>2, <3>1
  <2> QED BY <2>1 DEF ArgsInPlace, Args
<1>8. SameEvents' /\ CalleeSaved'
  BY DEF SameEvents, CalleeSaved
<1>9. SavesKept'
  <2>1. \A i \in callee_saved_heuristic[fun] .. NSave - 1 : regs'[Save(i)] = Kept(i)
    <3> SUFFICES ASSUME NEW i \in callee_saved_heuristic[fun] .. NSave - 1
                 PROVE  regs'[Save(i)] = Kept(i)
      OBVIOUS
    <3>1. q[Save(i)] = regs[Save(i)]
      BY DEF Leaves
    <3>2. regs[Save(i)] = Kept(i)
      BY DEF IInv, SavesKept
    <3> QED BY <1>2, <3>1, <3>2
  <2>2. \A i \in 0 .. callee_saved_heuristic[fun] - 1 : mem'[Frame + 4 * i] = Kept(i)
    BY DEF IInv, SavesKept
  <2> QED BY <2>1, <2>2 DEF SavesKept, Kept
<1> QED BY <1>1, <1>3, <1>4, <1>5, <1>6, <1>7, <1>8, <1>9 DEF IInv

(* Running a computation keeps the invariant.                               *)
LEMMA ComputeKeeps ==
    ASSUME IInv, NEW u \in Source!Of(Computes), Compute(u)
    PROVE  IInv'
<1>1. /\ u \in Units[fun] /\ u.type \in Computes /\ running /\ Source!Defined(u)
      /\ Source!Compute(u)
  BY SourceNames DEF Source!Of, Compute
<1>2. /\ fun \in DOMAIN Fun /\ EnvOK /\ Ready(regs, mem)
      /\ Hands(next_reg(1), next_reg(2), next_reg(3))
      /\ mem \in Memories(fun) /\ Holds(fun, mem, env) /\ env \in [Cells[fun] -> Nat]
  BY InvReady, InvHands DEF IInv, Ready, EnvOK
<1>3. PICK q : /\ Agree(regs, q)
               /\ Ran(regs, mem, u) = M(q, [mem EXCEPT ![AddressOf(fun, Target(u))] = Result(u)])
  <2> DEFINE code == Code(fun, u, next_reg(1), next_reg(2), next_reg(3))
  <2>1. Does(regs, mem, u, code)
    BY <1>2, ComputeDoes
  <2>2. Ran(regs, mem, u) = Execute(M(regs, mem), code)
    BY DEF Ran, M
  <2> HIDE DEF code
  <2> QED BY <2>1, <2>2, Zenon DEF Does
<1> DEFINE w == [mem EXCEPT ![AddressOf(fun, Target(u))] = Result(u)]
<1>4. regs' = Settled(fun, q, 0) /\ mem' = w
  BY <1>3, Setters DEF Compute
<1>5. /\ Target(u) \in Cells[fun] /\ Result(u) \in Nat
      /\ \A o \in Scalars[fun] : Target(u) = <<o, 0>> => Result(u) \in Word
      /\ Target(u) \in Elements[fun] => Result(u) \in Word
  BY <1>2, TargetResult
<1>6. /\ env' = [env EXCEPT ![Target(u)] = Result(u)]
      /\ event' = <<"none">> /\ fun' = fun /\ running' = running /\ args' = args
  BY <1>1, ComputeAssigns
<1>7. /\ w \in Memories(fun) /\ Holds(fun, w, env')
      /\ \A i \in 0 .. callee_saved_heuristic[fun] - 1 : w[Frame + 4 * i] = mem[Frame + 4 * i]
  <2>1. Result(u) \in Int
    BY <1>5
  <2>2. /\ w \in Memories(fun) /\ Holds(fun, w, [env EXCEPT ![Target(u)] = Result(u)])
        /\ \A i \in 0 .. callee_saved_heuristic[fun] - 1 : w[Frame + 4 * i] = mem[Frame + 4 * i]
    <3> DEFINE c == Target(u)
               v == Result(u)
    <3>1. c \in Cells[fun] /\ v \in Int
      BY <1>5, <2>1
    <3> HIDE DEF c, v
    <3>2. /\ Written(fun, mem, c, v) \in Memories(fun)
          /\ Holds(fun, Written(fun, mem, c, v), Assigned(env, c, v))
          /\ \A i \in 0 .. callee_saved_heuristic[fun] - 1 :
               Written(fun, mem, c, v)[Frame + 4 * i] = mem[Frame + 4 * i]
      BY <1>2, <3>1, MemoryAfter
    <3> QED BY <3>2, Zenon DEF c, v, Written, Assigned
  <2> HIDE DEF w
  <2> QED BY <1>6, <2>2, Zenon
<1> HIDE DEF w
<1>8. args = <<>> /\ param_c = 0
  <2>1. args = <<>>
    BY <1>1 DEF Source!Defined, Computes
  <2> QED BY <2>1, NoArgs DEF IInv, TypeOK
<1>9. param_c' = 0 /\ tempo_cnt' \in 0 .. Len(tempos[fun]) - 1 /\ out' = <<"none">>
  <2>1. param_c' = 0
    BY <1>1, <1>8 DEF Compute, Counted, Computes
  <2>2. tempo_cnt' = turned(Draws(u)) /\ out' = <<"none">>
    BY DEF Compute, Drawn
  <2>3. turned(Draws(u)) \in 0 .. Len(tempos[fun]) - 1
    BY <1>2, TurnedRange DEF IInv, TypeOK
  <2> QED BY <2>1, <2>2, <2>3
<1>10. /\ env' \in [Cells[fun] -> Nat]
       /\ \A o \in Scalars[fun] : env'[<<o, 0>>] \in Word
       /\ \A c \in Elements[fun] : env'[c] \in Word
  <2>1. \A c \in Cells[fun] : env'[c] = IF c = Target(u) THEN Result(u) ELSE env[c]
    BY <1>2, <1>5, <1>6
  <2>2. /\ \A o \in Scalars[fun] : <<o, 0>> \in Cells[fun]
        /\ \A c \in Elements[fun] : c \in Cells[fun]
    BY <1>2, ScalarCell DEF Elements
  <2>3. env' \in [Cells[fun] -> Nat]
    BY <1>2, <1>5, <1>6
  <2> QED BY <1>2, <1>5, <2>1, <2>2, <2>3 DEF EnvOK
<1>11. args' = [i \in 1 .. 0 |-> q[abi_argument(i - 1)]]
  BY <1>6, <1>8
<1>12. 0 \in 0 .. NArg + NSpill
  BY RegisterAssumption
<1>13. Leaves(regs, q)
  BY <1>2, <1>3, AgreeLeaves
<1> QED BY <1>1, <1>4, <1>6, <1>7, <1>9, <1>10, <1>11, <1>12, <1>13, StepWithin

(* What a step that assigns nothing has to bring about.                     *)
LEMMA StepStill ==
    ASSUME IInv, fun' = fun, running, running' = running, env' = env, mem' = mem,
           NEW q, Leaves(regs, q), NEW n \in 0 .. NArg + NSpill,
           regs' = Settled(fun, q, n), param_c' = n,
           tempo_cnt' \in 0 .. Len(tempos[fun]) - 1,
           args' = [i \in 1 .. n |-> q[abi_argument(i - 1)]],
           out' = event'
    PROVE  IInv'
<1>1. /\ mem' \in Memories(fun) /\ env' \in [Cells[fun] -> Nat] /\ Holds(fun, mem', env')
      /\ \A o \in Scalars[fun] : env'[<<o, 0>>] \in Word
      /\ \A c \in Elements[fun] : env'[c] \in Word
  <2>1. /\ mem \in Memories(fun) /\ env \in [Cells[fun] -> Nat] /\ Holds(fun, mem, env)
        /\ \A o \in Scalars[fun] : env[<<o, 0>>] \in Word
        /\ \A c \in Elements[fun] : env[c] \in Word
    BY InvReady DEF Ready, EnvOK
  <2> QED BY <2>1
<1>2. \A i \in 0 .. callee_saved_heuristic[fun] - 1 : mem'[Frame + 4 * i] = mem[Frame + 4 * i]
  OBVIOUS
<1> QED BY <1>1, <1>2, StepWithin

(* No argument waits while anything but a call is computed.                 *)
LEMMA EmptyArgs ==
    ASSUME IInv, NEW u, Source!Defined(u), u.type \notin {"param", "calli", "callv"}
    PROVE  args = <<>> /\ param_c = 0
<1>1. args = <<>>
  BY DEF Source!Defined
<1> QED BY <1>1, NoArgs DEF IInv, TypeOK

(* A branch goes the way that the source goes, and keeps the invariant.     *)
LEMMA BranchKeeps ==
    ASSUME IInv, NEW u \in Source!Of({"jc", "jmp", "label"}), Branch(u)
    PROVE  IInv'
<1>1. /\ u \in Units[fun] /\ u.type \in {"jc", "jmp", "label"} /\ running /\ Source!Defined(u)
      /\ Source!Branch(u)
  BY SourceNames DEF Source!Of, Branch
<1>2. /\ fun \in DOMAIN Fun /\ Ready(regs, mem) /\ regs \in Registers
      /\ next_reg(1) \in Pool(fun)
  BY InvReady, InvHands DEF IInv, Ready, Hands
<1>3. \E q : /\ Agree(regs, q) /\ Ran(regs, mem, u) = M(q, mem)
             /\ u.type = "jc" => q[next_reg(1)] = Source!Value(u.src1) /\ q[Zero] = 0
  <2> DEFINE code == Code(fun, u, next_reg(1), next_reg(2), next_reg(3))
  <2>1. Ran(regs, mem, u) = Execute(M(regs, mem), code)
    BY DEF Ran, M
  <2>2. CASE u.type = "jc"
    <3> DEFINE a == load(fun, next_reg(1), u.src1)
    <3>1. code = <<a>>
      BY <2>2, CodeJc
    <3>2. u.src1 \in Numbers(fun) \cup Bases(fun)
      BY <1>1, <1>2, <2>2, UnitShape DEF Numbers
    <3>3. PICK q \in Registers :
            /\ Exec(M(regs, mem), load(fun, next_reg(1), u.src1)) = M(q, mem)
            /\ q[next_reg(1)] = Source!Value(u.src1) /\ Ready(q, mem)
            /\ \A x \in Reg \ {next_reg(1)} : q[x] = regs[x]
      BY <1>2, <3>2, ReadyLoad
    <3>4. Agree(regs, q) /\ q[Zero] = 0
      BY <1>2, <3>3 DEF Agree, Ready
    <3> HIDE DEF code
    <3>5. Execute(M(regs, mem), code) = M(q, mem)
      <4>1. Execute(M(regs, mem), <<a>>) = Exec(M(regs, mem), a)
        BY ExecuteOne, Zenon
      <4> QED BY <3>1, <3>3, <4>1, Zenon
    <3> QED BY <2>1, <3>3, <3>4, <3>5, Zenon
  <2>3. CASE u.type # "jc"
    <3>1. code = <<>>
      BY <1>1, <2>3, CodeNone
    <3>2. Agree(regs, regs)
      BY <1>2 DEF Agree
    <3> HIDE DEF code
    <3>3. Execute(M(regs, mem), code) = M(regs, mem)
      BY <3>1, ExecuteNone, Zenon
    <3> QED BY <2>1, <2>3, <3>2, <3>3, Zenon
  <2> QED BY <2>2, <2>3
<1>4. PICK q : /\ Agree(regs, q) /\ Ran(regs, mem, u) = M(q, mem)
               /\ u.type = "jc" => q[next_reg(1)] = Source!Value(u.src1) /\ q[Zero] = 0
  BY <1>3, Zenon
<1>5. regs' = Settled(fun, q, 0) /\ mem' = mem /\ out' = <<u.type, Taken(u, M(q, mem))>>
  BY <1>4, Setters DEF Branch
<1>6. /\ event' = <<u.type, u.type = "jc" => Source!Value(u.src1) = 0>>
      /\ fun' = fun /\ running' = running /\ env' = env /\ args' = args
  BY <1>1 DEF Source!Branch
<1>7. Taken(u, M(q, mem)) = (u.type = "jc" => Source!Value(u.src1) = 0)
  <2>1. M(q, mem).regs = q
    BY Setters
  <2>2. Taken(u, M(q, mem)) = (u.type = "jc" => q[next_reg(1)] = q[Zero])
    BY <2>1 DEF Taken
  <2>3. CASE u.type = "jc"
    BY <1>4, <2>2, <2>3
  <2>4. CASE u.type # "jc"
    BY <2>2, <2>4
  <2> QED BY <2>3, <2>4
<1>8. args = <<>> /\ param_c = 0
  BY <1>1, EmptyArgs
<1>9. /\ param_c' = 0 /\ tempo_cnt' \in 0 .. Len(tempos[fun]) - 1
      /\ args' = [i \in 1 .. 0 |-> q[abi_argument(i - 1)]]
      /\ 0 \in 0 .. NArg + NSpill
  BY <1>1, <1>6, <1>8, RegisterAssumption DEF Branch, Counted
<1>10. Leaves(regs, q)
  BY <1>2, <1>4, AgreeLeaves
<1>11. out' = event'
  BY <1>5, <1>6, <1>7
<1> QED BY <1>1, <1>5, <1>6, <1>9, <1>10, <1>11, StepStill

(* Passing an argument keeps the invariant.                                 *)
LEMMA PassKeeps ==
    ASSUME IInv, NEW u \in Source!Of({"param"}), Pass(u)
    PROVE  IInv'
<1> DEFINE d == abi_argument(param_c)
           v == Source!Value(u.src)
           q == [regs EXCEPT ![d] = v]
           a == load(fun, d, u.src)
<1>1. /\ u \in Units[fun] /\ u.type = "param" /\ running
      /\ Source!Pass(u)
  BY SourceNames DEF Source!Of, Pass
<1>2. fun \in DOMAIN Fun /\ Ready(regs, mem) /\ regs \in Registers /\ EnvOK
  BY InvReady DEF IInv, Ready
<1>3. /\ Len(args) < NArg + NSpill /\ args' = Append(args, v) /\ event' = <<"none">>
      /\ fun' = fun /\ running' = running /\ env' = env
  BY <1>1 DEF Source!Pass
<1>4. /\ Len(args) = param_c /\ param_c \in Nat /\ param_c + 1 \in 0 .. NArg + NSpill
      /\ args = [i \in 1 .. param_c |-> regs[abi_argument(i - 1)]]
      /\ param_c \in 0 .. NArg + NSpill - 1
  <2>1. Len(args) = param_c /\ param_c \in 0 .. NArg + NSpill
    BY NoArgs DEF IInv, TypeOK
  <2>2. args = [i \in 1 .. param_c |-> regs[abi_argument(i - 1)]]
    BY DEF IInv, ArgsInPlace, Args
  <2> QED BY <1>3, <2>1, <2>2, RegisterAssumption
<1>5. u.src \in Numbers(fun) \cup Bases(fun)
  BY <1>1, <1>2, UnitShape DEF Bases
<1>6. v \in Int
  BY <1>2, <1>5, Values
<1>7. d \in Reg /\ d # Zero /\ \A i \in Nat : d # Save(i)
  BY <1>4, ArgumentRegisters
<1>8. Ran(regs, mem, u) = M(q, mem)
  <2>1. Code(fun, u, next_reg(1), next_reg(2), next_reg(3)) = <<a>>
    BY <1>1, CodeParam
  <2>2. Exec(M(regs, mem), a) = M(q, mem)
    BY <1>2, <1>5, <1>7, Loaded DEF Ready
  <2>3. Execute(M(regs, mem), <<a>>) = Exec(M(regs, mem), a)
    BY ExecuteOne, Zenon
  <2> HIDE DEF a, q
  <2>4. Ran(regs, mem, u)
          = Execute(M(regs, mem), Code(fun, u, next_reg(1), next_reg(2), next_reg(3)))
    BY DEF Ran, M
  <2> QED BY <2>1, <2>2, <2>3, <2>4, Zenon
<1>9. /\ q \in Registers /\ q[d] = v
      /\ \A x \in Reg \ {d} : q[x] = regs[x]
  BY <1>2, <1>6, <1>7, Sets
<1> HIDE DEF q, a, v
<1>10. regs' = Settled(fun, q, param_c + 1) /\ mem' = mem /\ out' = <<"none">>
  BY <1>8, Setters DEF Pass
<1>11. Leaves(regs, q)
  <2>1. \A i \in callee_saved_heuristic[fun] .. NSave - 1 : Save(i) \in Reg \ {d}
    <3>1. callee_saved_heuristic[fun] \in Nat
      BY <1>2, Heuristic
    <3>2. \A i \in callee_saved_heuristic[fun] .. NSave - 1 : i \in Nat /\ Save(i) \in Reg
      BY <1>2, <3>1, PoolRegisters
    <3> QED BY <1>7, <3>2
  <2>2. Zero \in Reg \ {d}
    BY <1>2, <1>7, PoolRegisters
  <2> QED BY <1>9, <2>1, <2>2 DEF Leaves
<1>12. args' = [i \in 1 .. param_c + 1 |-> q[abi_argument(i - 1)]]
  <2>1. \A i \in 1 .. param_c : q[abi_argument(i - 1)] = regs[abi_argument(i - 1)]
    <3> SUFFICES ASSUME NEW i \in 1 .. param_c
                 PROVE  q[abi_argument(i - 1)] = regs[abi_argument(i - 1)]
      OBVIOUS
    <3>1. i - 1 \in 0 .. NArg + NSpill - 1 /\ i - 1 # param_c
      BY <1>4, RegisterAssumption
    <3>2. abi_argument(i - 1) \in Reg /\ abi_argument(i - 1) # d
      BY <1>4, <3>1, ArgumentRegisters
    <3> QED BY <1>9, <3>2
  <2>2. q[abi_argument((param_c + 1) - 1)] = v
    <3>1. (param_c + 1) - 1 = param_c
      BY <1>4
    <3> QED BY <1>9, <3>1
  <2>3. args' = [i \in 1 .. param_c + 1 |-> IF i <= param_c THEN args[i] ELSE v]
    BY <1>3, <1>4
  <2>4. \A i \in 1 .. param_c + 1 :
          (IF i <= param_c THEN args[i] ELSE v) = q[abi_argument(i - 1)]
    <3> SUFFICES ASSUME NEW i \in 1 .. param_c + 1
                 PROVE  (IF i <= param_c THEN args[i] ELSE v) = q[abi_argument(i - 1)]
      OBVIOUS
    <3>1. CASE i <= param_c
      <4>1. i \in 1 .. param_c
        BY <1>4, <3>1
      <4>2. args[i] = regs[abi_argument(i - 1)]
        BY <1>4, <4>1
      <4> QED BY <2>1, <3>1, <4>1, <4>2
    <3>2. CASE ~(i <= param_c)
      <4>1. i = param_c + 1
        BY <1>4, <3>2
      <4> QED BY <2>2, <3>2, <4>1
    <3> QED BY <3>1, <3>2
  <2> QED BY <2>3, <2>4
<1>13. param_c' = param_c + 1
  BY <1>1 DEF Pass, Counted
<1>14. tempo_cnt' \in 0 .. Len(tempos[fun]) - 1
  BY <1>2, TurnedRange DEF IInv, TypeOK, Pass, Drawn
<1>15. out' = event'
  BY <1>3, <1>10
<1> QED BY <1>1, <1>3, <1>4, <1>10, <1>11, <1>12, <1>13, <1>14, <1>15, StepStill

\* What a callee leaves: memory, and the variables.
Changed(f, m, left) ==
    [a \in DOMAIN m |->
       LET c == {x \in Reach[f] : Address[f][x[1]] + x[2] = a}
       IN  IF c = {} THEN m[a] ELSE left[CHOOSE x \in c : TRUE]]
Visited(f, e, left) == [c \in DOMAIN e |-> IF c \in Reach[f] THEN left[c] ELSE e[c]]

(* A callee that changes global scalars leaves memory right.                *)
LEMMA CalleeMemory ==
    ASSUME NEW f \in DOMAIN Fun, NEW m \in Memories(f), NEW e \in [Cells[f] -> Nat],
           Holds(f, m, e), NEW left \in [Reach[f] -> Word]
    PROVE  /\ Changed(f, m, left) \in Memories(f)
           /\ Visited(f, e, left) \in [Cells[f] -> Nat]
           /\ Holds(f, Changed(f, m, left), Visited(f, e, left))
           /\ \A i \in 0 .. callee_saved_heuristic[f] - 1 :
                Changed(f, m, left)[Frame + 4 * i] = m[Frame + 4 * i]
<1> DEFINE D == FrameWords[f] \cup GlobalWords
           At(a) == {x \in Reach[f] : Address[f][x[1]] + x[2] = a}
           w == Changed(f, m, left)
<1>1. DOMAIN m = D /\ m \in [D -> Int] /\ DOMAIN e = Cells[f]
  BY DEF Memories
<1>2. \A x \in Reach[f] : x \in Cells[f] /\ Address[f][x[1]] + x[2] = AddressOf(f, x)
  <2>1. \A x \in GlobalScalars : x \in Cells[f]
    BY DEF GlobalScalars, Cells, CellsOf, Symbols
  <2> QED BY <2>1, ReachAssumption DEF Elements, AddressOf
<1>3. \A a \in D : w[a] = IF At(a) = {} THEN m[a] ELSE left[CHOOSE x \in At(a) : TRUE]
  BY <1>1 DEF Changed
<1>4. w \in [D -> Int]
  <2>1. DOMAIN w = D /\ w = [a \in D |-> w[a]]
    BY <1>1 DEF Changed
  <2>2. \A a \in D : w[a] \in Int
    <3> SUFFICES ASSUME NEW a \in D PROVE w[a] \in Int
      OBVIOUS
    <3>1. At(a) # {} => left[CHOOSE x \in At(a) : TRUE] \in Int
      <4> SUFFICES ASSUME At(a) # {} PROVE left[CHOOSE x \in At(a) : TRUE] \in Int
        OBVIOUS
      <4> DEFINE y == CHOOSE x \in At(a) : TRUE
      <4>1. y \in Reach[f]
        OBVIOUS
      <4> HIDE DEF y
      <4>2. left[y] \in Int
        BY <4>1, WordIsNat
      <4> QED BY <4>2 DEF y
    <3> HIDE DEF w, At
    <3> QED BY <1>1, <1>3, <3>1
  <2> HIDE DEF w, D
  <2> QED BY <2>1, <2>2
<1>5. Visited(f, e, left) \in [Cells[f] -> Nat]
  BY <1>1, WordIsNat DEF Visited
<1>6. Holds(f, w, Visited(f, e, left))
  <2> SUFFICES ASSUME NEW c \in Cells[f] PROVE w[AddressOf(f, c)] = Visited(f, e, left)[c]
    BY DEF Holds
  <2>1. AddressOf(f, c) \in D /\ \A d \in Cells[f] : AddressOf(f, c) = AddressOf(f, d) => c = d
    BY PlacesApart
  <2>2. Visited(f, e, left)[c] = IF c \in Reach[f] THEN left[c] ELSE e[c]
    BY <1>1 DEF Visited
  <2>3. m[AddressOf(f, c)] = e[c]
    BY DEF Holds
  <2>4. CASE c \in Reach[f]
    <3>1. At(AddressOf(f, c)) = {c}
      BY <1>2, <2>1, <2>4
    <3>2. (CHOOSE x \in At(AddressOf(f, c)) : TRUE) = c
      BY <3>1
    <3> HIDE DEF w, At, D
    <3> QED BY <1>3, <2>1, <2>2, <2>4, <3>1, <3>2
  <2>5. CASE c \notin Reach[f]
    <3>1. At(AddressOf(f, c)) = {}
      BY <1>2, <2>1, <2>5
    <3> HIDE DEF w, At, D
    <3> QED BY <1>3, <2>1, <2>2, <2>3, <2>5, <3>1
  <2> QED BY <2>4, <2>5
<1>7. ASSUME NEW i \in 0 .. callee_saved_heuristic[f] - 1
      PROVE  w[Frame + 4 * i] = m[Frame + 4 * i]
  <2>1. Frame + 4 * i \in D
    BY SavedInFrame
  <2>2. At(Frame + 4 * i) = {}
    BY <1>2, PlacesApart
  <2> HIDE DEF w, At, D
  <2> QED BY <1>3, <2>1, <2>2
<1> QED BY <1>4, <1>5, <1>6, <1>7 DEF Memories

(* A call keeps the invariant, with what the callee leaves behind.          *)
LEMMA CallKeeps ==
    ASSUME IInv, NEW u \in Source!Of({"calli", "callv"}), NEW r \in Word,
           NEW left \in [Reach[fun] -> Word], Call(u, r, left)
    PROVE  IInv'
<1> DEFINE settled == Settled(fun, regs, 0)
           returned == [settled EXCEPT ![Arg(0)] = r]
           changed == Changed(fun, mem, left)
           visited == Visited(fun, env, left)
<1>1. /\ u \in Units[fun] /\ u.type \in {"calli", "callv"} /\ running
      /\ Source!Call(u, r, left)
  BY SourceNames DEF Source!Of, Call
<1>2. /\ fun \in DOMAIN Fun /\ regs \in Registers /\ EnvOK /\ regs[Zero] = 0
      /\ mem \in Memories(fun) /\ env \in [Cells[fun] -> Nat] /\ Holds(fun, mem, env)
      /\ next_reg(3) \in Pool(fun)
  BY InvReady, InvHands DEF IInv, Ready, Hands, EnvOK
<1>3. /\ event' = <<"call", args>> /\ args' = <<>> /\ fun' = fun /\ running' = running
      /\ env' = [c \in DOMAIN env |->
                   IF u.type = "calli" /\ c = <<u.dst, 0>> THEN r
                   ELSE IF c \in Reach[fun] THEN left[c] ELSE env[c]]
  BY <1>1, SourceNames DEF Source!Call
<1>4. /\ regs' = Settled(fun, Ran(returned, changed, u).regs, 0)
      /\ mem' = Ran(returned, changed, u).mem
      /\ out' = <<"call", Args>>
  BY DEF Call, Changed
<1>5. /\ changed \in Memories(fun) /\ visited \in [Cells[fun] -> Nat]
      /\ Holds(fun, changed, visited)
      /\ \A i \in 0 .. callee_saved_heuristic[fun] - 1 : changed[Frame + 4 * i] = mem[Frame + 4 * i]
  BY <1>2, CalleeMemory
<1>6. /\ settled \in Registers /\ settled[Zero] = 0
      /\ \A i \in callee_saved_heuristic[fun] .. NSave - 1 : settled[Save(i)] = regs[Save(i)]
  <2>1. 0 \in 0 .. NArg + NSpill
    BY RegisterAssumption
  <2> QED BY <1>2, <2>1, SettledKeeps
<1> HIDE DEF settled, changed, visited
<1>7. Arg(0) \in Reg /\ Arg(0) # Zero /\ \A i : Arg(0) # Save(i)
  BY <1>2, PoolRegisters DEF Arg, Zero, Save
<1>8. Leaves(regs, returned) /\ returned[Arg(0)] = r
  <2>1. r \in Int
    BY WordIsNat
  <2>2. /\ returned \in Registers /\ returned[Arg(0)] = r
        /\ \A x \in Reg \ {Arg(0)} : returned[x] = settled[x]
    BY <1>6, <1>7, <2>1, Sets
  <2>3. /\ Zero \in Reg \ {Arg(0)}
        /\ \A i \in callee_saved_heuristic[fun] .. NSave - 1 : Save(i) \in Reg \ {Arg(0)}
    BY <1>2, <1>7, PoolRegisters
  <2> QED BY <1>2, <1>6, <2>2, <2>3 DEF Leaves
<1> HIDE DEF returned
<1>9. \E q, w : /\ Leaves(regs, q) /\ Ran(returned, changed, u) = M(q, w)
                /\ w \in Memories(fun) /\ Holds(fun, w, env')
                /\ \A i \in 0 .. callee_saved_heuristic[fun] - 1 : w[Frame + 4 * i] = mem[Frame + 4 * i]
  <2> DEFINE code == Code(fun, u, next_reg(1), next_reg(2), next_reg(3))
  <2>1. Ran(returned, changed, u) = Execute(M(returned, changed), code)
    BY DEF Ran, M
  <2>2. CASE u.type = "calli"
    <3> DEFINE cell == <<u.dst, 0>>
    <3>1. code = store(fun, Arg(0), u.dst, next_reg(3))
      BY <2>2, CodeCalli
    <3>2. u.dst \in Scalars[fun] /\ cell \in Cells[fun]
      BY <1>1, <1>2, <2>2, UnitShape, ScalarCell
    <3>3. next_reg(3) \in Reg /\ Arg(0) # next_reg(3) /\ returned \in Registers
      BY <1>2, <1>8, PoolRegisters DEF Leaves
    <3>4. PICK q \in Registers :
            /\ \A x \in Reg \ {next_reg(3)} : q[x] = returned[x]
            /\ Execute(M(returned, changed), store(fun, Arg(0), u.dst, next_reg(3)))
                 = M(q, [changed EXCEPT ![AddressOf(fun, <<u.dst, 0>>)] = returned[Arg(0)]])
      BY <1>2, <1>5, <1>7, <3>2, <3>3, Stored
    <3>5. Leaves(regs, q)
      <4>1. /\ Zero \in Reg \ {next_reg(3)}
            /\ \A i \in callee_saved_heuristic[fun] .. NSave - 1 : Save(i) \in Reg \ {next_reg(3)}
        BY <1>2, PoolRegisters
      <4> QED BY <1>8, <3>4, <4>1 DEF Leaves
    <3>6. r \in Int
      BY WordIsNat
    <3> HIDE DEF cell, code
    <3>7. /\ Written(fun, changed, cell, r) \in Memories(fun)
          /\ Holds(fun, Written(fun, changed, cell, r), Assigned(visited, cell, r))
          /\ \A i \in 0 .. callee_saved_heuristic[fun] - 1 :
               Written(fun, changed, cell, r)[Frame + 4 * i] = changed[Frame + 4 * i]
      BY <1>2, <1>5, <3>2, <3>6, MemoryAfter
    <3>8. Assigned(visited, cell, r) = env'
      <4>1. DOMAIN env = Cells[fun]
        BY <1>2
      <4> QED BY <1>3, <2>2, <3>2, <4>1 DEF Assigned, visited, Visited, cell
    <3>9. Execute(M(returned, changed), code) = M(q, Written(fun, changed, cell, r))
      BY <1>8, <3>1, <3>4, Zenon DEF Written, cell
    <3>10. \A i \in 0 .. callee_saved_heuristic[fun] - 1 :
             Written(fun, changed, cell, r)[Frame + 4 * i] = mem[Frame + 4 * i]
      BY <1>5, <3>7
    <3>11. Holds(fun, Written(fun, changed, cell, r), env')
      BY <3>7, <3>8
    <3> QED BY <2>1, <3>5, <3>7, <3>9, <3>10, <3>11, Zenon
  <2>3. CASE u.type = "callv"
    <3>1. code = <<>>
      BY <2>3, CodeNone
    <3>2. visited = env'
      BY <1>3, <2>3 DEF visited, Visited
    <3> HIDE DEF code
    <3>3. Execute(M(returned, changed), code) = M(returned, changed)
      BY <3>1, ExecuteNone, Zenon
    <3>4. Holds(fun, changed, env')
      BY <1>5, <3>2
    <3> QED BY <1>5, <1>8, <2>1, <3>3, <3>4, Zenon
  <2> QED BY <1>1, <2>2, <2>3
<1>10. PICK q, w : /\ Leaves(regs, q) /\ Ran(returned, changed, u) = M(q, w)
                   /\ w \in Memories(fun) /\ Holds(fun, w, env')
                   /\ \A i \in 0 .. callee_saved_heuristic[fun] - 1 : w[Frame + 4 * i] = mem[Frame + 4 * i]
  BY <1>9, Zenon
<1>11. regs' = Settled(fun, q, 0) /\ mem' = w
  BY <1>4, <1>10, Setters
<1>12. /\ env' \in [Cells[fun] -> Nat]
       /\ \A o \in Scalars[fun] : env'[<<o, 0>>] \in Word
       /\ \A c \in Elements[fun] : env'[c] \in Word
  <2>1. DOMAIN env = Cells[fun] /\ \A c \in Reach[fun] : left[c] \in Word /\ left[c] \in Nat
    BY <1>2, WordIsNat
  <2>2. /\ \A o \in Scalars[fun] : <<o, 0>> \in Cells[fun]
        /\ \A c \in Elements[fun] : c \in Cells[fun]
    BY <1>2, ScalarCell DEF Elements
  <2>3. /\ \A o \in Scalars[fun] : env[<<o, 0>>] \in Word
        /\ \A c \in Elements[fun] : env[c] \in Word
    BY <1>2 DEF EnvOK
  <2>4. r \in Nat
    BY WordIsNat
  <2>5. \A c \in Cells[fun] : env'[c] = IF u.type = "calli" /\ c = <<u.dst, 0>> THEN r
                                       ELSE IF c \in Reach[fun] THEN left[c] ELSE env[c]
    BY <1>3, <2>1
  <2>6. env' \in [Cells[fun] -> Nat]
    BY <1>2, <1>3, <2>1, <2>4
  <2> QED BY <2>1, <2>2, <2>3, <2>5, <2>6
<1>13. /\ param_c' = 0 /\ 0 \in 0 .. NArg + NSpill
       /\ tempo_cnt' \in 0 .. Len(tempos[fun]) - 1
  <2>1. param_c' = 0
    BY <1>1 DEF Call, Counted
  <2>2. 0 \in 0 .. NArg + NSpill
    BY RegisterAssumption
  <2>3. tempo_cnt' \in 0 .. Len(tempos[fun]) - 1
    BY <1>2, TurnedRange DEF IInv, TypeOK, Call, Drawn
  <2> QED BY <2>1, <2>2, <2>3
<1>14. args' = [i \in 1 .. 0 |-> q[abi_argument(i - 1)]]
  BY <1>3
<1>15. out' = event'
  BY <1>3, <1>4 DEF IInv, ArgsInPlace
<1>16. /\ mem' \in Memories(fun) /\ Holds(fun, mem', env')
       /\ \A i \in 0 .. callee_saved_heuristic[fun] - 1 : mem'[Frame + 4 * i] = mem[Frame + 4 * i]
  BY <1>10, <1>11
<1> QED BY <1>1, <1>3, <1>10, <1>11, <1>12, <1>13, <1>14, <1>15, <1>16, StepWithin

(* The epilogue brings back the saved registers that the pool has.          *)
LEMMA EpilogueRuns ==
    ASSUME NEW f \in DOMAIN Fun, NEW m \in Memories(f), NEW r \in Registers,
           \A i \in 0 .. callee_saved_heuristic[f] - 1 : m[Frame + 4 * i] = Kept(i)
    PROVE  \E q \in Registers :
             /\ Execute(M(r, m), epilogue(f)) = M(q, m)
             /\ \A x \in Reg \ Pool(f) : q[x] = r[x]
             /\ \A i \in 0 .. callee_saved_heuristic[f] - 1 : q[Save(i)] = Kept(i)
<1> DEFINE h == callee_saved_heuristic[f]
           code == epilogue(f)
           freed(x) == \E i \in 0 .. h - 1 : x = Save(i)
           q == [x \in Reg |-> IF freed(x) THEN Kept(x[2]) ELSE r[x]]
<1>1. h \in Nat /\ \A i \in 0 .. h - 1 : Save(i) \in Reg /\ Save(i) \in Pool(f)
  BY Heuristic, PoolRegisters, RegisterAssumption DEF Pool
<1>2. \A i : Save(i)[2] = i
  BY DEF Save
<1>3. code = [i \in 1 .. h |-> [type |-> "rstk", dst |-> Save(i - 1), addr |-> Frame + 4 * (i - 1)]]
  BY DEF epilogue
<1>4. \A i \in 0 .. h - 1 : q[Save(i)] = Kept(i)
  BY <1>1, <1>2
<1>5. \A x \in Reg : ~freed(x) => q[x] = r[x]
  OBVIOUS
<1>6. q \in Registers
  <2>1. \A x \in Reg : freed(x) => x[2] \in Int
    BY <1>2
  <2>2. \A x \in Reg : r[x] \in Int
    BY DEF Registers
  <2> QED BY <2>1, <2>2 DEF Registers, Kept
<1>7. \A x \in Reg \ Pool(f) : ~freed(x)
  BY <1>1
<1> HIDE DEF q, h
<1>8. Len(code) = h
  BY <1>1, <1>3
<1>9. \A j \in 1 .. h : /\ code[j].type = "rstk" /\ code[j].dst = Save(j - 1)
                        /\ code[j].addr = Frame + 4 * (j - 1)
  BY <1>3
<1> HIDE DEF code
<1>10. \A j \in 1 .. h : /\ code[j].dst \in Reg /\ code[j].addr \in DOMAIN m
                         /\ q[code[j].dst] = m[code[j].addr]
  <2> SUFFICES ASSUME NEW j \in 1 .. h
               PROVE  /\ code[j].dst \in Reg /\ code[j].addr \in DOMAIN m
                      /\ q[code[j].dst] = m[code[j].addr]
    OBVIOUS
  <2> DEFINE i == j - 1
  <2>1. i \in 0 .. h - 1 /\ code[j].dst = Save(i) /\ code[j].addr = Frame + 4 * i
    BY <1>1, <1>9
  <2> HIDE DEF i
  <2>2. Frame + 4 * i \in FrameWords[f]
    BY <2>1, SavedInFrame DEF h
  <2>3. m[Frame + 4 * i] = Kept(i)
    BY <2>1 DEF h
  <2> QED BY <1>1, <1>4, <2>1, <2>2, <2>3 DEF Memories
<1>11. \A x \in Reg : (\A j \in 1 .. h : code[j].dst # x) => ~freed(x)
  <2> SUFFICES ASSUME NEW x \in Reg, NEW i \in 0 .. h - 1, x = Save(i)
               PROVE  \E j \in 1 .. h : code[j].dst = x
    OBVIOUS
  <2>1. i + 1 \in 1 .. h /\ (i + 1) - 1 = i
    BY <1>1
  <2> QED BY <1>9, <2>1
<1>12. Execute(M(r, m), code) = M(q, m)
  <2>1. Len(code) \in Nat
    BY <1>1, <1>8
  <2>2. \A j \in 1 .. Len(code) : /\ code[j].type = "rstk" /\ code[j].dst \in Reg
                                 /\ code[j].addr \in DOMAIN m
                                 /\ q[code[j].dst] = m[code[j].addr]
    BY <1>8, <1>9, <1>10
  <2>3. \A x \in Reg : (\A j \in 1 .. Len(code) : code[j].dst # x) => q[x] = r[x]
    <3> HIDE DEF freed
    <3> QED BY <1>5, <1>8, <1>11
  <2> QED BY <1>6, <2>1, <2>2, <2>3, ReadsRun
<1> QED BY <1>4, <1>5, <1>6, <1>7, <1>12 DEF code, h

(* A return gives the value and the saved registers, and keeps the invariant. *)
LEMMA ReturnKeeps ==
    ASSUME IInv, NEW u \in Source!Of({"reti", "retv"}), Return(u)
    PROVE  IInv'
<1>1. /\ u \in Units[fun] /\ u.type \in {"reti", "retv"} /\ running /\ Source!Defined(u)
      /\ Source!Return(u)
  BY SourceNames DEF Source!Of, Return
<1>2. /\ fun \in DOMAIN Fun /\ Ready(regs, mem) /\ regs \in Registers
      /\ mem \in Memories(fun)
      /\ \A i \in 0 .. callee_saved_heuristic[fun] - 1 : mem[Frame + 4 * i] = Kept(i)
      /\ \A i \in callee_saved_heuristic[fun] .. NSave - 1 : regs[Save(i)] = Kept(i)
  BY <1>1, InvReady DEF IInv, Ready, SavesKept
<1>3. \E q : /\ q \in Registers /\ Ran(regs, mem, u) = M(q, mem)
             /\ \A x \in Reg \ {Arg(0)} : q[x] = regs[x]
             /\ u.type = "reti" => q[Arg(0)] = Source!Value(u.src)
  <2> DEFINE code == Code(fun, u, next_reg(1), next_reg(2), next_reg(3))
  <2>1. Ran(regs, mem, u) = Execute(M(regs, mem), code)
    BY DEF Ran, M
  <2>2. CASE u.type = "reti"
    <3> DEFINE a == load(fun, Arg(0), u.src)
    <3>1. code = <<a>>
      BY <2>2, CodeReti
    <3>2. u.src \in Numbers(fun) \cup Bases(fun)
      BY <1>1, <1>2, <2>2, UnitShape
    <3>3. Arg(0) \in Reg \ {Zero}
      BY <1>2, PoolRegisters DEF Arg, Zero
    <3>4. PICK q \in Registers :
            /\ Exec(M(regs, mem), load(fun, Arg(0), u.src)) = M(q, mem)
            /\ q[Arg(0)] = Source!Value(u.src)
            /\ \A x \in Reg \ {Arg(0)} : q[x] = regs[x]
      <4> DEFINE v == Source!Value(u.src)
      <4>1. EnvOK /\ Holds(fun, mem, env) /\ regs[Zero] = 0
        BY <1>2 DEF Ready
      <4>2. v \in Int
        BY <1>2, <3>2, <4>1, Values
      <4>3. Exec(M(regs, mem), load(fun, Arg(0), u.src)) = M([regs EXCEPT ![Arg(0)] = v], mem)
        BY <1>2, <3>2, <3>3, <4>1, Loaded
      <4> HIDE DEF v
      <4>4. /\ [regs EXCEPT ![Arg(0)] = v] \in Registers
            /\ [regs EXCEPT ![Arg(0)] = v][Arg(0)] = v
            /\ \A x \in Reg \ {Arg(0)} : [regs EXCEPT ![Arg(0)] = v][x] = regs[x]
        BY <1>2, <3>3, <4>2, Sets
      <4> QED BY <4>3, <4>4, Zenon DEF v
    <3> HIDE DEF code
    <3>5. Execute(M(regs, mem), code) = M(q, mem)
      <4>1. Execute(M(regs, mem), <<a>>) = Exec(M(regs, mem), a)
        BY ExecuteOne, Zenon
      <4> QED BY <3>1, <3>4, <4>1, Zenon
    <3> QED BY <2>1, <3>4, <3>5, Zenon
  <2>3. CASE u.type = "retv"
    <3>1. code = <<>>
      BY <2>3, CodeNone
    <3> HIDE DEF code
    <3>2. Execute(M(regs, mem), code) = M(regs, mem)
      BY <3>1, ExecuteNone, Zenon
    <3> QED BY <1>2, <2>1, <2>3, <3>2, Zenon
  <2> QED BY <1>1, <2>2, <2>3
<1>4. PICK q : /\ q \in Registers /\ Ran(regs, mem, u) = M(q, mem)
               /\ \A x \in Reg \ {Arg(0)} : q[x] = regs[x]
               /\ u.type = "reti" => q[Arg(0)] = Source!Value(u.src)
  BY <1>3, Zenon
<1>5. PICK w \in Registers :
        /\ Execute(M(q, mem), epilogue(fun)) = M(w, mem)
        /\ \A x \in Reg \ Pool(fun) : w[x] = q[x]
        /\ \A i \in 0 .. callee_saved_heuristic[fun] - 1 : w[Save(i)] = Kept(i)
  BY <1>2, <1>4, EpilogueRuns
<1>6. /\ regs' = w /\ mem' = mem
      /\ out' = IF u.type = "reti" THEN <<"reti", w[Arg(0)]>> ELSE <<"retv">>
  BY <1>4, <1>5, Setters DEF Return
<1>7. /\ running' = FALSE /\ fun' = fun /\ env' = env /\ args' = args
      /\ event' = IF u.type = "reti" THEN <<"reti", Source!Value(u.src)>> ELSE <<"retv">>
  BY <1>1 DEF Source!Return
<1>8. args = <<>> /\ param_c = 0
  BY <1>1, EmptyArgs
<1>9. param_c' = 0 /\ tempo_cnt' = 0
  BY <1>1, <1>8 DEF Return, Counted
<1>10. /\ Zero \in Reg \ Pool(fun) /\ Arg(0) \in Reg \ Pool(fun) /\ Arg(0) # Zero
       /\ \A i : Arg(0) # Save(i)
       /\ \A i \in callee_saved_heuristic[fun] .. NSave - 1 : Save(i) \in Reg \ Pool(fun)
  BY <1>2, PoolRegisters DEF Arg, Zero, Save
<1>11. w[Zero] = 0 /\ \A i \in 0 .. NSave - 1 : w[Save(i)] = Kept(i)
  <2>1. w[Zero] = 0
    BY <1>4, <1>5, <1>10 DEF IInv
  <2>2. ASSUME NEW i \in callee_saved_heuristic[fun] .. NSave - 1 PROVE w[Save(i)] = Kept(i)
    <3>1. Save(i) \in Reg \ Pool(fun) /\ Save(i) \in Reg \ {Arg(0)}
      BY <1>10
    <3>2. w[Save(i)] = q[Save(i)] /\ q[Save(i)] = regs[Save(i)] /\ regs[Save(i)] = Kept(i)
      BY <1>2, <1>4, <1>5, <3>1
    <3> QED BY <3>2
  <2>3. callee_saved_heuristic[fun] \in 0 .. NSave
    BY <1>2, Heuristic, RegisterAssumption
  <2>4. \A i \in 0 .. NSave - 1 : \/ i \in 0 .. callee_saved_heuristic[fun] - 1
                                  \/ i \in callee_saved_heuristic[fun] .. NSave - 1
    BY <2>3, RegisterAssumption
  <2> QED BY <1>5, <2>1, <2>2, <2>4
<1>12. TypeOK'
  <2>1. 0 \in 0 .. Len(tempos[fun]) - 1 /\ 0 \in 0 .. NArg + NSpill
    BY <1>2, TemposPool, RegisterAssumption
  <2>2. w \in [Reg -> Int]
    BY DEF Registers
  <2> QED BY <1>6, <1>7, <1>9, <2>1, <2>2 DEF IInv, TypeOK
<1>13. EnvOK' /\ MemoryHoldsEnv'
  BY <1>6, <1>7 DEF IInv, EnvOK, MemoryHoldsEnv, Env
<1>14. ArgsInPlace'
  BY <1>7, <1>8, <1>9 DEF ArgsInPlace, Args
<1>15. SameEvents'
  BY <1>4, <1>5, <1>6, <1>7, <1>10 DEF SameEvents
<1>16. CalleeSaved'
  BY <1>6, <1>11 DEF CalleeSaved, Kept
<1>17. SavesKept'
  BY <1>7 DEF SavesKept
<1>18. regs'[Zero] = 0 /\ args' = <<>>
  BY <1>6, <1>7, <1>8, <1>11
<1> QED BY <1>2, <1>7, <1>12, <1>13, <1>14, <1>15, <1>16, <1>17, <1>18 DEF IInv

(* A parameter has one word.                                                *)
LEMMA ParamCell ==
    ASSUME NEW f \in DOMAIN Fun
    PROVE  /\ \A c \in Cells[f] : c[1].ns = "param" =>
                \E k \in 1 .. Fun[f].arity : c = <<Param(k - 1), 0>>
           /\ \A k \in 1 .. Fun[f].arity :
                /\ <<Param(k - 1), 0>> \in Cells[f]
                /\ AddressOf(f, <<Param(k - 1), 0>>) = Address[f][Param(k - 1)]
                /\ Param(k - 1) \notin Arrays[f]
           /\ \A c \in GlobalCells : c[1].ns = "var"
<1> DEFINE n == Fun[f].arity
           P == [name : {Param(i) : i \in 0 .. n - 1}, len : {0}]
<1>1. n \in Nat /\ Symbols[f] = Global \cup Fun[f].decl \cup P
  BY SymbolAssumption, LocalSymbols DEF Symbols
<1>2. /\ \A s \in Global : s.name.ns = "var"
      /\ \A s \in Fun[f].decl : s.name.ns \in {"var", "temp"}
  BY SymbolAssumption DEF Declared
<1>3. \A c \in GlobalCells : c[1].ns = "var"
  BY <1>2 DEF GlobalCells, CellsOf
<1>4. ASSUME NEW c \in Cells[f], c[1].ns = "param"
      PROVE  \E k \in 1 .. n : c = <<Param(k - 1), 0>>
  <2>1. PICK s \in Symbols[f] : c \in {s.name} \X Offsets(s.len)
    BY DEF Cells, CellsOf
  <2>2. s \in P
    BY <1>1, <1>2, <1>4, <2>1
  <2>3. PICK i \in 0 .. n - 1 : s.name = Param(i) /\ s.len = 0
    BY <2>2
  <2>4. c = <<Param(i), 0>>
    BY <2>1, <2>3 DEF Offsets
  <2>5. i + 1 \in 1 .. n /\ (i + 1) - 1 = i
    BY <1>1
  <2> QED BY <2>4, <2>5
<1>5. ASSUME NEW k \in 1 .. n
      PROVE  /\ <<Param(k - 1), 0>> \in Cells[f]
             /\ AddressOf(f, <<Param(k - 1), 0>>) = Address[f][Param(k - 1)]
             /\ Param(k - 1) \notin Arrays[f]
  <2> DEFINE o == Param(k - 1)
             s == [name |-> o, len |-> 0]
  <2>1. k - 1 \in 0 .. n - 1
    BY <1>1
  <2>2. s \in P
    BY <2>1
  <2>3. s \in Local[f] /\ s \in Symbols[f] /\ s.name = o /\ s.len = 0
    BY <2>2, LocalSymbols DEF Symbols
  <2>4. s \notin Global
    BY <1>2 DEF Param
  <2> HIDE DEF s
  <2>5. <<o, 0>> \in Cells[f]
    BY <2>3 DEF Cells, CellsOf, Offsets
  <2>6. o \notin Arrays[f]
    BY <2>3, SymbolAssumption DEF Arrays
  <2>7. Address[f][o] \in Nat
    <3>1. 0 \in Offsets(s.len)
      BY <2>3 DEF Offsets
    <3> QED BY <2>3, <2>4, <3>1, LocalInFrame
  <2>8. AddressOf(f, <<o, 0>>) = Address[f][o]
    BY <2>7 DEF AddressOf
  <2> QED BY <2>5, <2>6, <2>8
<1> QED BY <1>3, <1>4, <1>5

(* The prologue saves the arguments and the saved registers that the pool   *)
(* has, and leaves every other variable as it found it.                     *)
LEMMA PrologueCode ==
    ASSUME NEW f \in DOMAIN Fun
    PROVE  LET n == Fun[f].arity
               h == callee_saved_heuristic[f]
           IN  /\ n \in Nat /\ h \in Nat /\ Len(prologue(f)) = n + h
               /\ \A i \in 1 .. n : prologue(f)[i] =
                    [type |-> "wstk", src |-> abi_argument(i - 1), addr |-> Address[f][Param(i - 1)]]
               /\ \A i \in 1 .. h : prologue(f)[n + i] =
                    [type |-> "wstk", src |-> Save(i - 1), addr |-> Frame + 4 * (i - 1)]
<1> DEFINE n == Fun[f].arity
           h == callee_saved_heuristic[f]
           A(i) == [type |-> "wstk", src |-> abi_argument(i - 1), addr |-> Address[f][Param(i - 1)]]
           B(i) == [type |-> "wstk", src |-> Save(i - 1), addr |-> Frame + 4 * (i - 1)]
           a == [i \in 1 .. n |-> A(i)]
           b == [i \in 1 .. h |-> B(i)]
<1>1. n \in Nat /\ h \in Nat
  BY SymbolAssumption, Heuristic, RegisterAssumption
<1>2. prologue(f) = a \o b
  BY DEF prologue
<1> DEFINE S == {A(i) : i \in 1 .. n} \cup {B(i) : i \in 1 .. h}
<1> HIDE DEF n, h, A, B
<1>3. a \in Seq(S) /\ b \in Seq(S) /\ Len(a) = n /\ Len(b) = h
  BY <1>1
<1>4. /\ \A i \in 1 .. n : a[i] = A(i)
      /\ \A i \in 1 .. h : b[i] = B(i)
  OBVIOUS
<1> HIDE DEF a, b, S
<1>5. Len(a \o b) = n + h
  BY <1>3
<1>6. \A i \in 1 .. n : (a \o b)[i] = A(i)
  BY <1>1, <1>3, <1>4
<1>7. \A i \in 1 .. h : (a \o b)[n + i] = B(i)
  BY <1>1, <1>3, <1>4
<1>8. /\ Len(prologue(f)) = n + h
      /\ \A i \in 1 .. n : prologue(f)[i] = A(i)
      /\ \A i \in 1 .. h : prologue(f)[n + i] = B(i)
  BY <1>2, <1>5, <1>6, <1>7
<1> QED BY <1>1, <1>8, Zenon DEF n, h, A, B


\* The registers on entry: the arguments, and what is kept for the caller.
Arrived(f, r, actual) ==
    /\ \A i \in 1 .. Fun[f].arity : r[abi_argument(i - 1)] = actual[i]
    /\ \A i \in 0 .. callee_saved_heuristic[f] - 1 : r[Save(i)] = Kept(i)

(* Running it puts the arguments and the saved registers in place.          *)
LEMMA PrologueRuns ==
    ASSUME NEW f \in DOMAIN Fun, NEW m \in Memories(f), NEW r \in Registers,
           NEW actual \in [1 .. Fun[f].arity -> Nat], Arrived(f, r, actual)
    PROVE  \E w \in Memories(f) :
             /\ Execute(M(r, m), prologue(f)) = M(r, w)
             /\ \A k \in 1 .. Fun[f].arity : w[Address[f][Param(k - 1)]] = actual[k]
             /\ \A i \in 0 .. callee_saved_heuristic[f] - 1 : w[Frame + 4 * i] = Kept(i)
             /\ \A c \in Cells[f] : c[1].ns # "param" => w[AddressOf(f, c)] = m[AddressOf(f, c)]
<1> USE DEF Arrived
<1> DEFINE n == Fun[f].arity
           h == callee_saved_heuristic[f]
           D == FrameWords[f] \cup GlobalWords
           place(k) == Address[f][Param(k - 1)]
           spot(i) == Frame + 4 * i
           saved(a) == {i \in 0 .. h - 1 : a = spot(i)}
           passed(a) == {k \in 1 .. n : a = place(k)}
           w == [a \in D |-> IF saved(a) # {} THEN Kept(CHOOSE i \in saved(a) : TRUE)
                             ELSE IF passed(a) # {} THEN actual[CHOOSE k \in passed(a) : TRUE]
                             ELSE m[a]]
           code == prologue(f)
<1>1. n \in Nat /\ h \in Nat /\ Len(code) = n + h /\ Frame \in Nat
  BY PrologueCode, MemoryAssumption
<1>2. /\ \A i \in 1 .. n : /\ code[i].type = "wstk" /\ code[i].src = abi_argument(i - 1)
                           /\ code[i].addr = place(i)
      /\ \A i \in 1 .. h : /\ code[n + i].type = "wstk" /\ code[n + i].src = Save(i - 1)
                           /\ code[n + i].addr = spot(i - 1)
  <2> HIDE DEF code
  <2>1. /\ \A i \in 1 .. n : code[i] =
             [type |-> "wstk", src |-> abi_argument(i - 1), addr |-> place(i)]
        /\ \A i \in 1 .. h : code[n + i] =
             [type |-> "wstk", src |-> Save(i - 1), addr |-> spot(i - 1)]
    BY PrologueCode, Zenon DEF code
  <2> HIDE DEF place, spot, n, h
  <2>2. ASSUME NEW i \in 1 .. n
        PROVE  /\ code[i].type = "wstk" /\ code[i].src = abi_argument(i - 1)
               /\ code[i].addr = place(i)
    <3>1. code[i] = [type |-> "wstk", src |-> abi_argument(i - 1), addr |-> place(i)]
      BY <2>1
    <3> QED BY <3>1
  <2>3. ASSUME NEW i \in 1 .. h
        PROVE  /\ code[n + i].type = "wstk" /\ code[n + i].src = Save(i - 1)
               /\ code[n + i].addr = spot(i - 1)
    <3>1. code[n + i] = [type |-> "wstk", src |-> Save(i - 1), addr |-> spot(i - 1)]
      BY <2>1
    <3> QED BY <3>1
  <2> QED BY <2>2, <2>3
<1>3. /\ \A k \in 1 .. n : place(k) \in D
      /\ \A k \in 1 .. n, l \in 1 .. n : place(k) = place(l) => k = l
      /\ \A k \in 1 .. n, i \in 0 .. h - 1 : place(k) # spot(i)
  <2>1. \A k \in 1 .. n : /\ <<Param(k - 1), 0>> \in Cells[f]
                          /\ AddressOf(f, <<Param(k - 1), 0>>) = place(k)
    BY ParamCell
  <2>2. ASSUME NEW k \in 1 .. n
        PROVE  /\ place(k) \in D
               /\ \A l \in 1 .. n : place(k) = place(l) => k = l
               /\ \A i \in 0 .. h - 1 : place(k) # spot(i)
    <3>1. /\ AddressOf(f, <<Param(k - 1), 0>>) \in D
          /\ \A d \in Cells[f] : AddressOf(f, <<Param(k - 1), 0>>) = AddressOf(f, d)
                                   => <<Param(k - 1), 0>> = d
          /\ \A i \in 0 .. h - 1 : AddressOf(f, <<Param(k - 1), 0>>) # spot(i)
      BY <2>1, PlacesApart
    <3>2. ASSUME NEW l \in 1 .. n, place(k) = place(l) PROVE k = l
      <4>1. <<Param(k - 1), 0>> = <<Param(l - 1), 0>>
        BY <2>1, <3>1, <3>2
      <4>2. k - 1 = l - 1
        BY <4>1 DEF Param
      <4> QED BY <1>1, <4>2
    <3> QED BY <2>1, <3>1, <3>2
  <2> QED BY <2>2
<1>4. \A i \in 0 .. h - 1 : spot(i) \in D
  BY SavedInFrame
<1>5. DOMAIN m = D /\ \A a \in D : m[a] \in Int
  BY DEF Memories
<1>6. /\ \A a \in D : saved(a) = {} /\ passed(a) = {} => w[a] = m[a]
      /\ \A i \in 0 .. h - 1 : w[spot(i)] = Kept(i)
      /\ \A k \in 1 .. n : w[place(k)] = actual[k]
      /\ w \in [D -> Int]
  <2> HIDE DEF place, n, h
  <2>1. \A i \in 0 .. h - 1 : saved(spot(i)) = {i}
    BY <1>1
  <2>2. \A k \in 1 .. n : passed(place(k)) = {k} /\ saved(place(k)) = {}
    BY <1>3
  <2>3. \A a \in D : saved(a) # {} => (CHOOSE i \in saved(a) : TRUE) \in 0 .. h - 1
    OBVIOUS
  <2>4. \A a \in D : passed(a) # {} => (CHOOSE k \in passed(a) : TRUE) \in 1 .. n
    OBVIOUS
  <2> HIDE DEF saved, passed, spot, D
  <2>5. w \in [D -> Int]
    <3>1. \A i \in 0 .. h - 1 : Kept(i) \in Int
      BY <1>1 DEF Kept
    <3>2. \A k \in 1 .. n : actual[k] \in Int
      BY DEF n
    <3> QED BY <1>5, <2>3, <2>4, <3>1, <3>2
  <2>6. \A i \in 0 .. h - 1 : w[spot(i)] = Kept(i)
    BY <1>4, <2>1
  <2>7. \A k \in 1 .. n : w[place(k)] = actual[k]
    BY <1>3, <2>2
  <2>8. \A a \in D : saved(a) = {} /\ passed(a) = {} => w[a] = m[a]
    OBVIOUS
  <2> QED BY <2>5, <2>6, <2>7, <2>8
<1> HIDE DEF w, D, place, spot
<1>7. \A j \in 1 .. Len(code) : \/ j \in 1 .. n
                                \/ \E i \in 1 .. h : j = n + i
  <2> HIDE DEF n, h, code
  <2> SUFFICES ASSUME NEW j \in 1 .. Len(code), j \notin 1 .. n
               PROVE  \E i \in 1 .. h : j = n + i
    OBVIOUS
  <2>1. j - n \in 1 .. h /\ j = n + (j - n)
    BY <1>1
  <2> QED BY <2>1
<1>8. ASSUME NEW j \in 1 .. Len(code)
      PROVE  /\ code[j].type = "wstk" /\ code[j].addr \in D
             /\ w[code[j].addr] = r[code[j].src]
  <2> HIDE DEF code, n, h
  <2>1. CASE j \in 1 .. n
    <3>1. r[abi_argument(j - 1)] = actual[j]
      BY <2>1 DEF n
    <3> QED BY <1>2, <1>3, <1>6, <2>1, <3>1
  <2>2. CASE \E i \in 1 .. h : j = n + i
    <3>1. PICK i \in 1 .. h : j = n + i
      BY <2>2
    <3>2. i - 1 \in 0 .. h - 1
      BY <1>1
    <3>3. r[Save(i - 1)] = Kept(i - 1)
      BY <3>2 DEF h
    <3> QED BY <1>2, <1>4, <1>6, <3>1, <3>2, <3>3
  <2> QED BY <1>7, <2>1, <2>2
<1>9. ASSUME NEW x \in D, \A j \in 1 .. Len(code) : code[j].addr # x
      PROVE  w[x] = m[x]
  <2> HIDE DEF code, n, h
  <2>1. ASSUME NEW i \in 0 .. h - 1, x = spot(i) PROVE FALSE
    <3>1. i + 1 \in 1 .. h /\ (i + 1) - 1 = i /\ n + (i + 1) \in 1 .. Len(code)
      BY <1>1
    <3>2. code[n + (i + 1)].addr = spot(i)
      BY <1>2, <3>1
    <3> QED BY <1>9, <2>1, <3>1, <3>2
  <2>2. ASSUME NEW k \in 1 .. n, x = place(k) PROVE FALSE
    <3>1. k \in 1 .. Len(code) /\ code[k].addr = place(k)
      BY <1>1, <1>2
    <3> QED BY <1>9, <2>2, <3>1
  <2> QED BY <1>6, <2>1, <2>2
<1>10. Execute(M(r, m), code) = M(r, w)
  <2> HIDE DEF code, n, h
  <2>1. Len(code) \in Nat
    BY <1>1
  <2>2. DOMAIN m = D /\ m \in [DOMAIN m -> Int] /\ w \in [DOMAIN m -> Int]
    BY <1>6 DEF Memories, D
  <2>3. \A j \in 1 .. Len(code) : /\ code[j].type = "wstk" /\ code[j].addr \in DOMAIN m
                                 /\ w[code[j].addr] = r[code[j].src]
    BY <1>8, <2>2
  <2>4. \A x \in DOMAIN m : (\A j \in 1 .. Len(code) : code[j].addr # x) => w[x] = m[x]
    BY <1>9, <2>2
  <2> HIDE DEF saved, passed
  <2>5. Writes(m, r, w, code)
    BY <2>3, <2>4, Zenon DEF Writes
  <2> QED BY <2>1, <2>2, <2>5, WritesRun
<1>11. ASSUME NEW c \in Cells[f], c[1].ns # "param"
       PROVE  w[AddressOf(f, c)] = m[AddressOf(f, c)]
  <2>1. /\ AddressOf(f, c) \in D
        /\ \A d \in Cells[f] : AddressOf(f, c) = AddressOf(f, d) => c = d
        /\ \A i \in 0 .. h - 1 : AddressOf(f, c) # spot(i)
    BY PlacesApart DEF D, spot
  <2>2. \A k \in 1 .. n : AddressOf(f, c) # place(k)
    <3> SUFFICES ASSUME NEW k \in 1 .. n PROVE AddressOf(f, c) # place(k)
      OBVIOUS
    <3>1. <<Param(k - 1), 0>> \in Cells[f] /\ AddressOf(f, <<Param(k - 1), 0>>) = place(k)
      BY ParamCell DEF place
    <3>2. c # <<Param(k - 1), 0>>
      BY <1>11 DEF Param
    <3> QED BY <2>1, <3>1, <3>2
  <2> HIDE DEF n, h
  <2> QED BY <1>6, <2>1, <2>2
<1>12. w \in Memories(f)
  BY <1>6 DEF Memories, D
<1> QED BY <1>6, <1>10, <1>11, <1>12, Zenon DEF place, spot


(* Globals are globals of every function, and hold the same there.          *)
LEMMA GlobalOfAll ==
    ASSUME NEW f \in DOMAIN Fun, NEW g \in DOMAIN Fun, NEW c \in GlobalCells
    PROVE  /\ c \in Cells[f] /\ c \in Cells[g]
           /\ AddressOf(f, c) = AddressOf(g, c)
           /\ c[1] \in Scalars[f] => c[1] \in Scalars[g] /\ c = <<c[1], 0>>
           /\ c[1] \in Arrays[f] => c[1] \in Arrays[g]
<1>1. PICK s \in Global : c \in {s.name} \X Offsets(s.len)
  BY DEF GlobalCells, CellsOf
<1>2. s \in Symbols[f] /\ s \in Symbols[g] /\ c[1] = s.name /\ c = <<s.name, c[2]>>
  BY <1>1 DEF Symbols
<1>3. ASSUME c[1] \in Scalars[f] PROVE c[1] \in Scalars[g] /\ c = <<c[1], 0>>
  <2>1. PICK t \in Symbols[f] : t.name = c[1] /\ t.len = 0
    BY <1>3 DEF Scalars
  <2>2. s.len = 0
    BY <1>2, <2>1, SymbolAssumption
  <2>3. s.name.ns = "var"
    BY SymbolAssumption DEF Declared
  <2>4. s.name \notin Fun[g].ptr
    BY <2>3, SymbolAssumption
  <2>5. c[1] \in Scalars[g]
    BY <1>2, <2>2, <2>4 DEF Scalars
  <2>6. c[2] = 0
    BY <1>1, <2>2 DEF Offsets
  <2> QED BY <1>2, <2>5, <2>6
<1>4. ASSUME c[1] \in Arrays[f] PROVE c[1] \in Arrays[g]
  <2>1. PICK t \in Symbols[f] : t.name = c[1] /\ t.len > 0
    BY <1>4 DEF Arrays
  <2>2. s.len > 0
    BY <1>2, <2>1, SymbolAssumption
  <2> QED BY <1>2, <2>2 DEF Arrays
<1>5. AddressOf(f, c) = AddressOf(g, c) /\ c \in Cells[f] /\ c \in Cells[g]
  BY GlobalSpot
<1> QED BY <1>3, <1>4, <1>5

(* Arguments are numbers, and words where no pointer is asked for.          *)
LEMMA ActualValues ==
    ASSUME NEW f \in DOMAIN Fun, NEW actual \in Source!Actuals[f]
    PROVE  /\ actual \in [1 .. Fun[f].arity -> Nat]
           /\ \A k \in 1 .. Fun[f].arity : Param(k - 1) \notin Fun[f].ptr => actual[k] \in Word
<1> DEFINE n == Fun[f].arity
           pointers == {Address[f][g.name] : g \in {x \in Global : x.len > 0}}
<1>1. /\ actual \in [1 .. n -> Word \cup pointers]
      /\ \A i \in 1 .. n : actual[i] \in IF Param(i - 1) \in Fun[f].ptr THEN pointers ELSE Word
  BY DEF Source!Actuals, Source!Param, Param
<1>2. pointers \subseteq Nat
  BY GlobalPlace, MemoryAssumption
<1>3. Word \subseteq Nat
  BY PinkieAssumption
<1> HIDE DEF pointers
<1> QED BY <1>1, <1>2, <1>3

(* The registers as the caller leaves them, and memory as it finds it.      *)
Called(f, actual) ==
    LET passed(x) == {i \in 1 .. Fun[f].arity : x = abi_argument(i - 1)}
    IN  [x \in Reg |->
           CASE x = Zero        -> 0
             [] x[1] = "s"      -> Kept(x[2])
             [] passed(x) # {} -> actual[CHOOSE i \in passed(x) : TRUE]
             [] OTHER           -> Poison]
Found(f, fill) ==
    [a \in FrameWords[f] \cup GlobalWords |-> IF a \in GlobalWords THEN mem[a] ELSE fill]

(* The caller's arguments are where abi_argument() has them.                *)
LEMMA CalledRegisters ==
    ASSUME NEW f \in DOMAIN Fun, NEW actual \in [1 .. Fun[f].arity -> Nat]
    PROVE  /\ Called(f, actual) \in Registers
           /\ Called(f, actual)[Zero] = 0
           /\ \A i \in 0 .. NSave - 1 : Called(f, actual)[Save(i)] = Kept(i)
           /\ \A i \in 1 .. Fun[f].arity : Called(f, actual)[abi_argument(i - 1)] = actual[i]
<1> DEFINE n == Fun[f].arity
           passed(x) == {i \in 1 .. n : x = abi_argument(i - 1)}
           r == Called(f, actual)
<1>1. n \in Nat /\ n <= NArg + NSpill /\ NArg + NSpill \in Nat
  BY SymbolAssumption, RegisterAssumption
<1>2. r = [x \in Reg |->
             CASE x = Zero        -> 0
               [] x[1] = "s"      -> Kept(x[2])
               [] passed(x) # {} -> actual[CHOOSE i \in passed(x) : TRUE]
               [] OTHER           -> Poison]
  BY DEF Called
<1> HIDE DEF r
<1>3. Zero \in Reg /\ \A i \in 0 .. NSave - 1 : Save(i) \in Reg /\ Save(i) # Zero
  BY DEF Reg, Zero, Save
<1>4. \A i : Save(i)[1] = "s" /\ Save(i)[2] = i
  BY DEF Save
<1>5. ASSUME NEW i \in 1 .. n
      PROVE  /\ abi_argument(i - 1) \in Reg /\ abi_argument(i - 1) # Zero
             /\ abi_argument(i - 1)[1] # "s"
             /\ passed(abi_argument(i - 1)) = {i}
  <2>1. i - 1 \in 0 .. NArg + NSpill - 1
    BY <1>1, RegisterAssumption
  <2>2. abi_argument(i - 1)[1] # "s"
    BY DEF abi_argument, Arg, Temp
  <2>3. \A j \in 1 .. n : abi_argument(i - 1) = abi_argument(j - 1) => i = j
    <3> SUFFICES ASSUME NEW j \in 1 .. n, abi_argument(i - 1) = abi_argument(j - 1)
                 PROVE  i = j
      OBVIOUS
    <3>1. j - 1 \in 0 .. NArg + NSpill - 1
      BY <1>1, RegisterAssumption
    <3>2. i - 1 = j - 1
      BY <2>1, <3>1, ArgumentRegisters
    <3> QED BY <1>1, <3>2
  <2> QED BY <2>1, <2>2, <2>3, ArgumentRegisters
<1>6. passed(Zero) = {} /\ \A x : x[1] = "s" => passed(x) = {}
  BY <1>5
<1>7. Zero[1] # "s"
  BY DEF Zero
<1>8. r[Zero] = 0
  <2> HIDE DEF passed
  <2> QED BY <1>2, <1>3, <1>6, <1>7
<1>9. ASSUME NEW i \in 0 .. NSave - 1 PROVE r[Save(i)] = Kept(i)
  <2> DEFINE x == Save(i)
  <2>1. x \in Reg /\ x # Zero /\ x[1] = "s" /\ x[2] = i
    BY <1>3, <1>4
  <2> HIDE DEF x, passed
  <2>2. r[x] = Kept(x[2])
    BY <1>2, <1>6, <2>1
  <2> QED BY <2>1, <2>2 DEF x
<1>10. ASSUME NEW i \in 1 .. n PROVE r[abi_argument(i - 1)] = actual[i]
  <2> DEFINE x == abi_argument(i - 1)
  <2>1. x \in Reg /\ x # Zero /\ x[1] # "s" /\ passed(x) = {i}
    BY <1>5
  <2> HIDE DEF x, passed
  <2>2. r[x] = actual[CHOOSE j \in passed(x) : TRUE]
    BY <1>2, <2>1
  <2>3. (CHOOSE j \in passed(x) : TRUE) = i
    BY <2>1
  <2> QED BY <2>2, <2>3 DEF x
<1>11. r \in Registers
  <2>1. \A x \in Reg : x # Zero /\ x[1] = "s" => x[2] \in Int
    BY DEF Reg, Zero, Arg, Temp, Save
  <2>2. \A x : passed(x) # {} => (CHOOSE j \in passed(x) : TRUE) \in 1 .. n
    OBVIOUS
  <2> HIDE DEF passed
  <2>3. \A x \in Reg : r[x] \in Int
    <3> SUFFICES ASSUME NEW x \in Reg PROVE r[x] \in Int
      OBVIOUS
    <3>1. CASE x = Zero
      BY <1>8, <3>1
    <3>2. CASE x # Zero /\ x[1] = "s"
      <4>1. r[x] = Kept(x[2]) /\ x[2] \in Int
        BY <1>2, <1>6, <2>1, <3>2
      <4> QED BY <4>1 DEF Kept
    <3>3. CASE x # Zero /\ x[1] # "s" /\ passed(x) # {}
      <4>1. r[x] = actual[CHOOSE j \in passed(x) : TRUE]
        BY <1>2, <3>3
      <4> QED BY <2>2, <3>3, <4>1
    <3>4. CASE x # Zero /\ x[1] # "s" /\ passed(x) = {}
      BY <1>2, <3>4 DEF Poison
    <3> QED BY <3>1, <3>2, <3>3, <3>4
  <2> QED BY <1>2, <2>3 DEF Registers
<1> QED BY <1>8, <1>9, <1>10, <1>11 DEF r


(* Memory holds the variables of a function that was just entered.          *)
LEMMA EnterMemory ==
    ASSUME IInv, NEW f \in DOMAIN Fun, NEW actual \in Source!Actuals[f], NEW fill \in Word,
           Source!Enter(f, actual, fill)
    PROVE  /\ env' \in [Cells[f] -> Nat]
           /\ \A o \in Scalars[f] : env'[<<o, 0>>] \in Word
           /\ \A c \in Elements[f] : env'[c] \in Word
           /\ Found(f, fill) \in Memories(f)
           /\ \A c \in Cells[f] : c[1].ns # "param" => Found(f, fill)[AddressOf(f, c)] = env'[c]
           /\ \A k \in 1 .. Fun[f].arity : env'[<<Param(k - 1), 0>>] = actual[k]
<1> DEFINE n == Fun[f].arity
<1>1. env' = [c \in Cells[f] |->
                CASE c[1].ns = "param" -> actual[c[1].id + 1]
                  [] c \in GlobalCells -> env[c]
                  [] OTHER             -> fill]
  BY SourceNames DEF Source!Enter
<1>2. /\ fun \in DOMAIN Fun /\ env \in [Cells[fun] -> Nat] /\ mem \in Memories(fun)
      /\ Holds(fun, mem, env)
      /\ \A o \in Scalars[fun] : env[<<o, 0>>] \in Word
      /\ \A c \in Elements[fun] : env[c] \in Word
  BY InvReady DEF IInv, Ready, EnvOK
<1>3. /\ n \in Nat /\ actual \in [1 .. n -> Nat]
      /\ \A k \in 1 .. n : Param(k - 1) \notin Fun[f].ptr => actual[k] \in Word
  BY ActualValues, SymbolAssumption
<1>4. \A c \in Cells[f] : c[1].ns = "param" => \E k \in 1 .. n : c = <<Param(k - 1), 0>>
  BY ParamCell
<1>5. \A k \in 1 .. n : <<Param(k - 1), 0>> \in Cells[f] /\ Param(k - 1) \notin Arrays[f]
  BY ParamCell
<1>6. \A c \in GlobalCells : c[1].ns # "param"
  BY ParamCell
<1>7. ASSUME NEW k \in 1 .. n PROVE env'[<<Param(k - 1), 0>>] = actual[k]
  <2>1. Param(k - 1).ns = "param" /\ Param(k - 1).id + 1 = k
    BY <1>3 DEF Param
  <2>2. <<Param(k - 1), 0>> \in Cells[f] /\ <<Param(k - 1), 0>> \notin GlobalCells
    BY <1>5, <1>6, <2>1
  <2> QED BY <1>1, <2>1, <2>2
<1>8. \A c \in GlobalCells : c \in Cells[f] /\ env'[c] = env[c]
  <2>1. \A c \in GlobalCells : c \in Cells[f] /\ c[1].ns # "param"
    BY <1>6, GlobalOfAll
  <2> QED BY <1>1, <2>1
<1>9. \A c \in Cells[f] : c[1].ns # "param" /\ c \notin GlobalCells => env'[c] = fill
  BY <1>1
<1>10. fill \in Nat
  BY WordIsNat
<1>11. \A c \in Cells[f] : env'[c] \in Nat
  <2> SUFFICES ASSUME NEW c \in Cells[f] PROVE env'[c] \in Nat
    OBVIOUS
  <2>1. CASE c[1].ns = "param"
    BY <1>3, <1>4, <1>7, <2>1
  <2>2. CASE c \in GlobalCells
    <3>1. c \in Cells[fun]
      BY <1>2, <2>2, GlobalOfAll
    <3> QED BY <1>2, <1>8, <2>2, <3>1
  <2>3. CASE c[1].ns # "param" /\ c \notin GlobalCells
    BY <1>9, <1>10, <2>3
  <2> QED BY <2>1, <2>2, <2>3
<1>12. \A o \in Scalars[f] : env'[<<o, 0>>] \in Word
  <2> SUFFICES ASSUME NEW o \in Scalars[f] PROVE env'[<<o, 0>>] \in Word
    OBVIOUS
  <2> DEFINE c == <<o, 0>>
  <2>1. c \in Cells[f] /\ c[1] = o
    BY ScalarCell
  <2>2. CASE o.ns = "param"
    <3>1. PICK k \in 1 .. n : c = <<Param(k - 1), 0>>
      BY <1>4, <2>1, <2>2
    <3>2. o = Param(k - 1) /\ o \notin Fun[f].ptr
      BY <3>1 DEF Scalars
    <3> QED BY <1>3, <1>7, <3>1, <3>2
  <2>3. CASE c \in GlobalCells
    <3>1. o \in Scalars[fun]
      BY <1>2, <2>1, <2>3, GlobalOfAll
    <3> QED BY <1>2, <1>8, <2>3, <3>1
  <2>4. CASE o.ns # "param" /\ c \notin GlobalCells
    BY <1>9, <2>1, <2>4
  <2> QED BY <2>2, <2>3, <2>4
<1>13. \A c \in Elements[f] : env'[c] \in Word
  <2> SUFFICES ASSUME NEW c \in Elements[f] PROVE env'[c] \in Word
    OBVIOUS
  <2>1. c \in Cells[f] /\ c[1] \in Arrays[f]
    BY DEF Elements
  <2>2. c[1].ns # "param"
    BY <1>4, <1>5, <2>1
  <2>3. CASE c \in GlobalCells
    <3>1. c \in Elements[fun]
      BY <1>2, <2>1, <2>3, GlobalOfAll DEF Elements
    <3> QED BY <1>2, <1>8, <2>3, <3>1
  <2>4. CASE c \notin GlobalCells
    BY <1>9, <2>1, <2>2, <2>4
  <2> QED BY <2>3, <2>4
<1> DEFINE D == FrameWords[f] \cup GlobalWords
<1>14. Found(f, fill) = [a \in D |-> IF a \in GlobalWords THEN mem[a] ELSE fill]
  BY DEF Found
<1>15. Found(f, fill) \in Memories(f)
  <2>1. \A a \in GlobalWords : mem[a] \in Int
    BY <1>2 DEF Memories
  <2> QED BY <1>10, <1>14, <2>1 DEF Memories
<1>16. \A c \in Cells[f] : c[1].ns # "param" => Found(f, fill)[AddressOf(f, c)] = env'[c]
  <2> SUFFICES ASSUME NEW c \in Cells[f], c[1].ns # "param"
               PROVE  Found(f, fill)[AddressOf(f, c)] = env'[c]
    OBVIOUS
  <2>1. CASE c \in GlobalCells
    <3>1. AddressOf(f, c) = AddressOf(fun, c) /\ c \in Cells[fun]
      BY <1>2, <2>1, GlobalOfAll
    <3>2. AddressOf(f, c) \in GlobalWords
      BY <2>1, GlobalSpot
    <3>3. mem[AddressOf(fun, c)] = env[c]
      BY <1>2, <3>1 DEF Holds
    <3> QED BY <1>8, <1>14, <2>1, <3>1, <3>2, <3>3
  <2>2. CASE c \notin GlobalCells
    <3>1. AddressOf(f, c) \in FrameWords[f] /\ AddressOf(f, c) \notin GlobalWords
      BY <2>2, LocalSpot, MemoryAssumption
    <3> QED BY <1>9, <1>14, <2>2, <3>1
  <2> QED BY <2>1, <2>2
<1>17. env' \in [Cells[f] -> Nat]
  BY <1>1, <1>11
<1> QED BY <1>7, <1>12, <1>13, <1>15, <1>16, <1>17

(* Entering a function keeps the invariant, whatever the frame held.        *)
LEMMA EnterKeeps ==
    ASSUME IInv, NEW f \in DOMAIN Fun, NEW actual \in Source!Actuals[f], NEW fill \in Word,
           Enter(f, actual, fill)
    PROVE  IInv'
<1> DEFINE n == Fun[f].arity
           h == callee_saved_heuristic[f]
           r == Called(f, actual)
           m == Found(f, fill)
<1>1. Source!Enter(f, actual, fill)
  BY DEF Enter
<1>2. fun' = f /\ running' = TRUE /\ args' = <<>> /\ event' = <<"enter", actual>>
  BY <1>1 DEF Source!Enter
<1>3. /\ env' \in [Cells[f] -> Nat]
      /\ \A o \in Scalars[f] : env'[<<o, 0>>] \in Word
      /\ \A c \in Elements[f] : env'[c] \in Word
      /\ m \in Memories(f)
      /\ \A c \in Cells[f] : c[1].ns # "param" => m[AddressOf(f, c)] = env'[c]
      /\ \A k \in 1 .. n : env'[<<Param(k - 1), 0>>] = actual[k]
  BY <1>1, EnterMemory
<1>4. actual \in [1 .. n -> Nat] /\ h \in 1 .. NSave /\ NSave \in Nat
  BY ActualValues, Heuristic, RegisterAssumption
<1>5. /\ r \in Registers /\ r[Zero] = 0
      /\ \A i \in 0 .. NSave - 1 : r[Save(i)] = Kept(i)
      /\ \A i \in 1 .. n : r[abi_argument(i - 1)] = actual[i]
  BY <1>4, CalledRegisters
<1>6. /\ \A i \in 0 .. h - 1 : i \in 0 .. NSave - 1
      /\ \A i \in h .. NSave - 1 : i \in 0 .. NSave - 1
  BY <1>4
<1>7. PICK w \in Memories(f) :
        /\ Execute(M(r, m), prologue(f)) = M(r, w)
        /\ \A k \in 1 .. n : w[Address[f][Param(k - 1)]] = actual[k]
        /\ \A i \in 0 .. h - 1 : w[Frame + 4 * i] = Kept(i)
        /\ \A c \in Cells[f] : c[1].ns # "param" => w[AddressOf(f, c)] = m[AddressOf(f, c)]
  <2>1. \A i \in 0 .. h - 1 : r[Save(i)] = Kept(i)
    BY <1>5, <1>6
  <2> HIDE DEF r, m
  <2>2. Arrived(f, r, actual)
    BY <1>5, <2>1 DEF Arrived
  <2>3. /\ f \in DOMAIN Fun /\ m \in Memories(f) /\ r \in Registers
        /\ actual \in [1 .. Fun[f].arity -> Nat]
    BY <1>3, <1>4, <1>5
  <2> QED BY <2>2, <2>3, PrologueRuns
<1>8. /\ regs' = Settled(f, Execute(M(r, m), prologue(f)).regs, 0)
      /\ mem' = Execute(M(r, m), prologue(f)).mem
      /\ tempo_cnt' = 0 /\ param_c' = 0 /\ out' = <<"enter", actual>>
  BY DEF Enter, Called, Found, M
<1> HIDE DEF r, m
<1>9. regs' = Settled(f, r, 0) /\ mem' = w
  BY <1>7, <1>8, Setters
<1>10. 0 \in 0 .. NArg + NSpill /\ 0 \in 0 .. Len(tempos[f]) - 1
  BY TemposPool, RegisterAssumption
<1>11. /\ regs' \in Registers /\ regs'[Zero] = 0
       /\ \A i \in h .. NSave - 1 : regs'[Save(i)] = Kept(i)
  BY <1>5, <1>6, <1>9, <1>10, SettledKeeps
<1>12. Holds(f, w, env')
  <2> SUFFICES ASSUME NEW c \in Cells[f] PROVE w[AddressOf(f, c)] = env'[c]
    BY DEF Holds
  <2>1. CASE c[1].ns = "param"
    <3>1. PICK k \in 1 .. n : c = <<Param(k - 1), 0>>
      BY <2>1, ParamCell
    <3>2. AddressOf(f, c) = Address[f][Param(k - 1)]
      BY <3>1, ParamCell
    <3> QED BY <1>3, <1>7, <3>1, <3>2
  <2>2. CASE c[1].ns # "param"
    BY <1>3, <1>7, <2>2
  <2> QED BY <2>1, <2>2
<1>13. TypeOK'
  BY <1>2, <1>8, <1>9, <1>10, <1>11 DEF TypeOK, Registers, Memories
<1>14. EnvOK'
  BY <1>2, <1>3 DEF EnvOK
<1>15. MemoryHoldsEnv'
  <2>1. DOMAIN env' = Cells[f] /\ env' = [c \in Cells[f] |-> env'[c]]
    BY <1>3
  <2>2. [c \in Cells[f] |-> w[Address[f][c[1]] + c[2]]] = env'
    BY <1>12, <2>1, HoldsEnv
  <2> QED BY <1>2, <1>9, <2>2 DEF MemoryHoldsEnv, Env
<1>16. ArgsInPlace'
  BY <1>2, <1>8 DEF ArgsInPlace, Args
<1>17. SameEvents' /\ CalleeSaved'
  BY <1>2, <1>8 DEF SameEvents, CalleeSaved
<1>18. SavesKept'
  BY <1>2, <1>7, <1>9, <1>11 DEF SavesKept, Kept, h
<1> QED BY <1>2, <1>11, <1>13, <1>14, <1>15, <1>16, <1>17, <1>18 DEF IInv

-----------------------------------------------------------------------------
(* The theorems.                                                            *)

(* The invariant holds initially.                                           *)
LEMMA InitInv == Init => IInv
<1> SUFFICES ASSUME Init PROVE IInv
  OBVIOUS
<1>1. /\ fun \in DOMAIN Fun /\ running = FALSE /\ env = [c \in Cells[fun] |-> 0]
      /\ args = <<>> /\ event = <<"none">>
  BY SourceNames DEF Init, Source!Init
<1>2. /\ regs = [x \in Reg |-> IF x = Zero THEN 0 ELSE Poison]
      /\ mem = [a \in FrameWords[fun] \cup GlobalWords |-> 0]
      /\ tempo_cnt = 0 /\ param_c = 0 /\ out = event
  BY DEF Init
<1>3. 0 \in 0 .. Len(tempos[fun]) - 1 /\ 0 \in 0 .. NArg + NSpill /\ Zero \in Reg
  BY <1>1, TemposPool, PoolRegisters, RegisterAssumption
<1>4. TypeOK /\ regs[Zero] = 0
  BY <1>2, <1>3 DEF TypeOK, Poison
<1>5. EnvOK
  <2>1. /\ \A o \in Scalars[fun] : <<o, 0>> \in Cells[fun]
        /\ \A c \in Elements[fun] : c \in Cells[fun]
    BY <1>1, ScalarCell DEF Elements
  <2> QED BY <1>1, <2>1, PinkieAssumption DEF EnvOK
<1>6. MemoryHoldsEnv
  <2>1. \A c \in Cells[fun] : mem[AddressOf(fun, c)] = 0
    BY <1>1, <1>2, PlacesApart
  <2> QED BY <1>1, <2>1 DEF MemoryHoldsEnv, Env, AddressOf
<1>7. ArgsInPlace /\ SameEvents /\ CalleeSaved /\ SavesKept
  BY <1>1, <1>2 DEF ArgsInPlace, Args, SameEvents, CalleeSaved, SavesKept
<1> QED BY <1>1, <1>4, <1>5, <1>6, <1>7 DEF IInv

(* Every step keeps the invariant.                                          *)
LEMMA NextInv == IInv /\ [Next]_vars => IInv'
<1> SUFFICES ASSUME IInv, [Next]_vars PROVE IInv'
  OBVIOUS
<1>1. CASE UNCHANGED vars
  BY <1>1 DEF vars, IInv, TypeOK, EnvOK, MemoryHoldsEnv, Env, ArgsInPlace, Args, SameEvents,
              CalleeSaved, SavesKept
<1>2. CASE Next
  <2>1. ASSUME NEW f \in DOMAIN Fun, NEW actual \in Source!Actuals[f], NEW fill \in Word,
               Enter(f, actual, fill)
        PROVE  IInv'
    BY <2>1, EnterKeeps
  <2>2. ASSUME NEW u \in Source!Of({"unary", "binary", "copy", "aw", "ar"}), Compute(u)
        PROVE  IInv'
    BY <2>2, ComputeKeeps DEF Computes
  <2>3. ASSUME NEW u \in Source!Of({"jc", "jmp", "label"}), Branch(u) PROVE IInv'
    BY <2>3, BranchKeeps
  <2>4. ASSUME NEW u \in Source!Of({"param"}), Pass(u) PROVE IInv'
    BY <2>4, PassKeeps
  <2>5. ASSUME NEW u \in Source!Of({"calli", "callv"}), NEW r \in Word,
               NEW left \in [Reach[fun] -> Word], Call(u, r, left)
        PROVE  IInv'
    BY <2>5, CallKeeps
  <2>6. ASSUME NEW u \in Source!Of({"reti", "retv"}), Return(u) PROVE IInv'
    BY <2>6, ReturnKeeps
  <2> QED BY <1>2, <2>1, <2>2, <2>3, <2>4, <2>5, <2>6 DEF Next
<1> QED BY <1>1, <1>2

(* The invariant that the theorems below rest on.                           *)
THEOREM Inductive == Spec => []IInv
BY InitInv, NextInv, PTL DEF Spec

(* Registers and memory hold words, the pool's position is one of it, and   *)
(* a call never has more arguments than there are places for them.          *)
THEOREM TypeCorrect == Spec => []TypeOK
BY Inductive, PTL DEF IInv

(* Memory holds every variable of the Pinkie code with its value.           *)
THEOREM MemoryIsRight == Spec => []MemoryHoldsEnv
BY Inductive, PTL DEF IInv

(* Arguments wait where the callee looks for them.                          *)
THEOREM ArgumentsWait == Spec => []ArgsInPlace
BY Inductive, PTL DEF IInv

(* The outside is shown what the Pinkie code shows it.                      *)
THEOREM EventsAgree == Spec => []SameEvents
BY Inductive, PTL DEF IInv

(* A function gives back every callee-saved register.                       *)
THEOREM RegistersGivenBack == Spec => []CalleeSaved
BY Inductive, PTL DEF IInv


-----------------------------------------------------------------------------
(* Refinement.                                                              *)

\* What the machine of the generated code shows is what the source has.
Faithful == MemoryHoldsEnv /\ ArgsInPlace /\ SameEvents

(* Both machines are about the same functions.                             *)
LEMMA SameNames ==
    /\ Meaning!Arrays = Source!Arrays
    /\ Meaning!Cells = Source!Cells
    /\ Meaning!Units = Source!Units
    /\ Meaning!Actuals = Source!Actuals
    /\ Meaning!Elements = Source!Elements
    /\ Meaning!GlobalCells = Source!GlobalCells
<1>1. Meaning!Symbols = Source!Symbols
  BY DEF Meaning!Symbols, Source!Symbols, Meaning!Local, Source!Local,
         Meaning!Param, Source!Param
<1>2. Meaning!Arrays = Source!Arrays
  BY <1>1 DEF Meaning!Arrays, Source!Arrays
<1>3. \A s : Meaning!CellsOf(s) = Source!CellsOf(s)
  BY DEF Meaning!CellsOf, Source!CellsOf, Meaning!Offsets, Source!Offsets
<1>4. Meaning!Cells = Source!Cells
  BY <1>1, <1>3 DEF Meaning!Cells, Source!Cells
<1>5. Meaning!Elements = Source!Elements
  BY <1>2, <1>4 DEF Meaning!Elements, Source!Elements
<1>6. Meaning!GlobalCells = Source!GlobalCells
  BY <1>3 DEF Meaning!GlobalCells, Source!GlobalCells
<1>7. Meaning!Actuals = Source!Actuals
  BY DEF Meaning!Actuals, Source!Actuals, Meaning!Param, Source!Param
<1>8. Meaning!Scalars = Source!Scalars
  BY <1>1 DEF Meaning!Scalars, Source!Scalars
<1>9. Meaning!Units = Source!Units
  BY <1>2, <1>8 DEF Meaning!Units, Source!Units, Meaning!Literal, Source!Literal
<1>10. QED
  BY <1>2, <1>4, <1>5, <1>6, <1>7, <1>9

(* The two machines speak of the same values.                              *)
LEMMA SameValue ==
    ASSUME Faithful, NEW o
    PROVE  Meaning!Value(o) = Source!Value(o)
BY SameNames DEF Faithful, MemoryHoldsEnv, Meaning!Value, Source!Value

(* They find the same elements.                                             *)
LEMMA SameElements ==
    ASSUME Faithful, NEW o, NEW p
    PROVE  Meaning!At(o, p) = Source!At(o, p)
<1>1. Meaning!Value(o) + Meaning!Value(p) = Source!Value(o) + Source!Value(p)
  BY SameValue
<1>2. QED
  BY <1>1, SameNames DEF Meaning!At, Source!At

(* They may run the same units.                                             *)
LEMMA SameUnits ==
    ASSUME Faithful, NEW types
    PROVE  Meaning!Of(types) = Source!Of(types)
<1>1. \A u : Meaning!Defined(u) <=> Source!Defined(u)
  BY SameElements DEF Faithful, ArgsInPlace, Meaning!Defined, Source!Defined
<1>2. QED
  BY <1>1, SameNames DEF Meaning!Of, Source!Of

-----------------------------------------------------------------------------
(* One step of the Pinkie code is the same step of what memory says.       *)

(* What memory, registers and events say is what the source has.            *)
LEMMA SameState ==
    ASSUME Faithful
    PROVE  Env = env /\ Args = args /\ out = event
BY DEF Faithful, MemoryHoldsEnv, ArgsInPlace, SameEvents

(* Entering a function is the same step of both machines.                   *)
LEMMA SameEnter ==
    ASSUME Faithful, Faithful', NEW f, NEW actual, NEW fill, Source!Enter(f, actual, fill)
    PROVE  Meaning!Enter(f, actual, fill)
<1>1. Env = env /\ Env' = env' /\ Args' = args' /\ out' = event'
  BY DEF Faithful, MemoryHoldsEnv, ArgsInPlace, SameEvents
<1>2. QED
  BY <1>1, SameNames DEF Source!Enter, Meaning!Enter

(* So is a computation,                                                     *)
LEMMA SameCompute ==
    ASSUME Faithful, Faithful', NEW u, Source!Compute(u),
           u.type \in {"unary", "binary", "copy", "aw", "ar"}
    PROVE  Meaning!Compute(u)
<1>1. Env = env /\ Env' = env' /\ Args = args /\ Args' = args' /\ out' = event'
  BY DEF Faithful, MemoryHoldsEnv, ArgsInPlace, SameEvents
<1>2. \A c, v : Meaning!Assign(c, v) <=> Source!Assign(c, v)
  BY <1>1 DEF Meaning!Assign, Source!Assign
<1>3. \A v, w, b : Meaning!Binary(b, v, w) = Source!Binary(b, v, w)
  BY DEF Meaning!Binary, Source!Binary
<1>4. /\ \A o : Meaning!Value(o) = Source!Value(o)
      /\ \A o, p : Meaning!At(o, p) = Source!At(o, p)
  BY SameValue, SameElements
<1>5. CASE u.type = "unary"
  BY <1>2, <1>4, <1>5 DEF Source!Compute, Meaning!Compute
<1>6. CASE u.type = "binary"
  BY <1>2, <1>3, <1>4, <1>6 DEF Source!Compute, Meaning!Compute
<1>7. CASE u.type = "copy"
  BY <1>2, <1>4, <1>7 DEF Source!Compute, Meaning!Compute
<1>8. CASE u.type = "aw"
  BY <1>2, <1>4, <1>8 DEF Source!Compute, Meaning!Compute
<1>9. CASE u.type = "ar"
  BY <1>1, <1>2, <1>4, <1>9 DEF Source!Compute, Meaning!Compute
<1>10. QED
  BY <1>5, <1>6, <1>7, <1>8, <1>9

(* a branch,                                                                *)
LEMMA SameBranch ==
    ASSUME Faithful, Faithful', NEW u, Source!Branch(u)
    PROVE  Meaning!Branch(u)
<1>1. Env = env /\ Env' = env' /\ Args = args /\ Args' = args' /\ out' = event'
  BY DEF Faithful, MemoryHoldsEnv, ArgsInPlace, SameEvents
<1>2. QED
  BY <1>1, SameValue DEF Source!Branch, Meaning!Branch

(* an argument,                                                             *)
LEMMA SamePass ==
    ASSUME Faithful, Faithful', NEW u, Source!Pass(u)
    PROVE  Meaning!Pass(u)
<1>1. Env = env /\ Env' = env' /\ Args = args /\ Args' = args' /\ out' = event'
  BY DEF Faithful, MemoryHoldsEnv, ArgsInPlace, SameEvents
<1>2. QED
  BY <1>1, SameValue DEF Source!Pass, Meaning!Pass

(* a call,                                                                  *)
LEMMA SameCall ==
    ASSUME Faithful, Faithful', NEW u, NEW r, NEW left, Source!Call(u, r, left)
    PROVE  Meaning!Call(u, r, left)
<1>1. Env = env /\ Env' = env' /\ Args = args /\ Args' = args' /\ out' = event'
  BY DEF Faithful, MemoryHoldsEnv, ArgsInPlace, SameEvents
<1>2. QED
  BY <1>1, SameNames DEF Source!Call, Meaning!Call

(* and a return.                                                            *)
LEMMA SameReturn ==
    ASSUME Faithful, Faithful', NEW u, Source!Return(u)
    PROVE  Meaning!Return(u)
<1>1. Env = env /\ Env' = env' /\ Args = args /\ Args' = args' /\ out' = event'
  BY DEF Faithful, MemoryHoldsEnv, ArgsInPlace, SameEvents
<1>2. QED
  BY <1>1, SameValue DEF Source!Return, Meaning!Return

(* So is every step.                                                        *)
LEMMA SameStep ==
    ASSUME Faithful, Faithful', [Next]_vars
    PROVE  [Meaning!Next]_(Meaning!vars)
<1>1. CASE UNCHANGED vars
  <2>1. Env = env /\ Env' = env' /\ Args = args /\ Args' = args' /\ out' = event'
    BY DEF Faithful, MemoryHoldsEnv, ArgsInPlace, SameEvents
  <2>2. QED
    BY <1>1, <2>1 DEF vars, Meaning!vars
<1>2. ASSUME NEW f \in DOMAIN Fun, NEW actual \in Source!Actuals[f], NEW fill \in Word,
             Enter(f, actual, fill)
      PROVE  Meaning!Next
  <2>1. Source!Actuals = Meaning!Actuals
    BY SameNames
  <2>2. Meaning!Enter(f, actual, fill)
    BY <1>2, SameEnter DEF Enter
  <2>3. QED
    BY <2>1, <2>2 DEF Meaning!Next
<1>3. ASSUME NEW u \in Source!Of({"unary", "binary", "copy", "aw", "ar"}), Compute(u)
      PROVE  Meaning!Next
  <2>1. u.type \in {"unary", "binary", "copy", "aw", "ar"}
    BY DEF Source!Of
  <2>2. QED
    BY <1>3, <2>1, SameCompute, SameUnits DEF Compute, Meaning!Next
<1>4. ASSUME NEW u \in Source!Of({"jc", "jmp", "label"}), Branch(u)
      PROVE  Meaning!Next
  BY <1>4, SameBranch, SameUnits DEF Branch, Meaning!Next
<1>5. ASSUME NEW u \in Source!Of({"param"}), Pass(u)
      PROVE  Meaning!Next
  BY <1>5, SamePass, SameUnits DEF Pass, Meaning!Next
<1>6. ASSUME NEW u \in Source!Of({"calli", "callv"}), NEW r \in Word,
             NEW left \in [Reach[fun] -> Word], Call(u, r, left)
      PROVE  Meaning!Next
  BY <1>6, SameCall, SameUnits DEF Call, Meaning!Next
<1>7. ASSUME NEW u \in Source!Of({"reti", "retv"}), Return(u)
      PROVE  Meaning!Next
  BY <1>7, SameReturn, SameUnits DEF Return, Meaning!Next
<1>8. QED
  BY <1>1, <1>2, <1>3, <1>4, <1>5, <1>6, <1>7 DEF Next

(* The generated code implements the Pinkie code: every behaviour of it is  *)
(* one of the Pinkie machine, with the variables read off memory, the       *)
(* arguments off the registers, and the same events.                        *)
THEOREM Implements == Spec => ImplementsPinkie
<1>1. Init /\ Faithful => Meaning!Init
  <2>1. SUFFICES ASSUME Init, Faithful PROVE Meaning!Init
    OBVIOUS
  <2>2. Source!Init
    BY <2>1 DEF Init
  <2>3. QED
    BY <2>1, <2>2, SameState, SameNames DEF Source!Init, Meaning!Init
<1>2. Faithful /\ Faithful' /\ [Next]_vars => [Meaning!Next]_(Meaning!vars)
  BY SameStep
<1>3. IInv => Faithful
  BY DEF IInv, Faithful
<1>4. QED
  BY <1>1, <1>2, <1>3, Inductive, PTL DEF Spec, ImplementsPinkie, Meaning!Spec
=============================================================================
