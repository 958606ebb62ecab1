---------------------------- MODULE PeepholeProofs ----------------------------
(* Proofs about the peephole optimiser, for all registers, words, slots,     *)
(* arrays and globals.                                                       *)
EXTENDS PeepholeTrace, TLAPS

-----------------------------------------------------------------------------
(* Units and what they do. *)

\* A unit of each kind carries the fields its kind needs.
LEMMA UnitFields ==
    ASSUME NEW u \in Unit
    PROVE  \/ u.type \in Opaque /\ u.dst \in Reg
           \/ u.type = "cr" /\ u.dst \in Reg /\ u.src \in Reg
           \/ u.type = "ci" /\ u.dst \in Reg /\ u.arg \in Val
           \/ u.type = "rstk" /\ u.dst \in Reg /\ u.arg \in Slot
           \/ u.type = "ptrstk" /\ u.dst \in Reg /\ u.arg \in ArrBase
           \/ u.type = "ptrglo" /\ u.dst \in Reg /\ u.arg \in Glo
           \/ u.type = "wstk" /\ u.src \in Reg /\ u.arg \in Slot
           \/ u.type \in Barrier \cup {"aw"}
  BY DEF Unit

\* A unit takes a machine to a machine (dashie.hpp, riscv_output.cpp).
LEMMA ExecType ==
    ASSUME NEW m \in Machine, NEW u \in Unit, NEW v \in Input(u)
    PROVE  Exec(m, u, v) \in Machine
<1>1. CASE u.type \in Opaque
  BY <1>1, UnitFields DEF Opaque, Machine, Exec, SetReg, Input
<1>2. CASE u.type = "cr"
  BY <1>2, UnitFields DEF Opaque, Machine, Exec, SetReg, Barrier
<1>3. CASE u.type = "ci"
  BY <1>3, UnitFields DEF Opaque, Machine, Exec, SetReg, Barrier
<1>4. CASE u.type = "rstk"
  BY <1>4, UnitFields DEF Opaque, Machine, Exec, SetReg, Barrier
<1>5. CASE u.type = "ptrstk"
  BY <1>5, UnitFields, DashieAssumption DEF Opaque, Machine, Exec, SetReg, Barrier
<1>6. CASE u.type = "ptrglo"
  BY <1>6, UnitFields, DashieAssumption DEF Opaque, Machine, Exec, SetReg, Barrier
<1>7. CASE u.type = "wstk"
  BY <1>7, UnitFields DEF Opaque, Machine, Exec, SetStk, Barrier
<1>8. CASE u.type = "call"
  BY <1>8 DEF Opaque, Machine, Exec, Clobber, Input
<1>9. CASE u.type \in (Barrier \ {"call"}) \cup {"aw"}
  BY <1>9 DEF Opaque, Machine, Exec, Barrier
<1> QED BY <1>1, <1>2, <1>3, <1>4, <1>5, <1>6, <1>7, <1>8, <1>9, UnitFields
        DEF Barrier

\* What Exec does to the registers: a unit that defines dst changes no other.
LEMMA ExecRegs ==
    ASSUME NEW m \in Machine, NEW u \in Unit, NEW v, NEW r \in Reg,
           u.type \notin Barrier,
           u.type \in {"aw", "wstk"} \/ u.dst # r
    PROVE  Exec(m, u, v).regs[r] = m.regs[r]
<1>1. CASE u.type \in {"aw", "wstk"}
  BY <1>1 DEF Exec, Opaque, SetStk, Machine
<1>2. CASE u.type \in Opaque
  BY <1>2, UnitFields DEF Exec, Opaque, SetReg, Machine
<1>3. CASE u.type \in {"cr", "ci"}
  BY <1>3, UnitFields DEF Exec, Opaque, SetReg, Machine, Barrier
<1>4. CASE u.type \in {"rstk", "ptrstk", "ptrglo"}
  BY <1>4, UnitFields DEF Exec, Opaque, SetReg, Machine, Barrier
<1> QED BY <1>1, <1>2, <1>3, <1>4, UnitFields

\* Only wstk writes the frame.
LEMMA ExecStk ==
    ASSUME NEW m \in Machine, NEW u \in Unit, NEW v, u.type # "wstk"
    PROVE  Exec(m, u, v).stk = m.stk
  BY DEF Exec, SetReg, Clobber, Machine

-----------------------------------------------------------------------------
(* The passes. *)

\* An entry that a pass keeps in alias_of is one whose register is untouched.
LEMMA ForgetKeeps ==
    ASSUME NEW D, None \in D, NEW al \in [Reg -> D],
           NEW m \in Machine, NEW u \in Unit, NEW v
    PROVE  /\ Forget(al, u) \in [Reg -> D]
           /\ \A r \in Reg : Forget(al, u)[r] # None =>
                /\ Forget(al, u)[r] = al[r]
                /\ Exec(m, u, v).regs[r] = m.regs[r]
<1>1. CASE u.type \in Barrier
  <2>1. Forget(al, u) = NoAlias
    BY <1>1 DEF Forget, Barrier
  <2> QED BY <2>1 DEF NoAlias
<1>2. CASE u.type \in {"aw", "wstk"}
  <2>1. u.type \notin Barrier
    BY <1>2 DEF Barrier
  <2>2. Forget(al, u) = al
    BY <1>2, <2>1 DEF Forget
  <2> QED BY <1>2, <2>1, <2>2, ExecRegs
<1>3. CASE u.type \notin Barrier \cup {"aw", "wstk"}
  <2>1. u.dst \in Reg
    BY <1>3, UnitFields
  <2>2. Forget(al, u) = [al EXCEPT ![u.dst] = None]
    BY <1>3 DEF Forget
  <2> QED BY <1>3, <2>1, <2>2, ExecRegs
<1> QED BY <1>1, <1>2, <1>3

\* Of a map into D, named so that a lemma can be instantiated by its name.
IsMap(al, D) == None \in D /\ al \in [Reg -> D]

\* Units of this kind load the value of a key of D into a register.
Loads(kind, D, m, u, v, value) ==
    u.type = kind => /\ u.dst \in Reg /\ u.arg \in D /\ u.arg # None
                     /\ Exec(m, u, v) = SetReg(m, u.dst, value[u.arg])

\* A pass that drops repeated loads of one kind of known value: the unit is
\* dropped only if it would change nothing, and what alias_of says stays true.
LEMMA RememberSound ==
    ASSUME NEW kind, NEW D, NEW value,
           NEW al, NEW m \in Machine, NEW u \in Unit, NEW v,
           IsMap(al, D), Tells(m, al, value), Loads(kind, D, m, u, v, value)
    PROVE  /\ IsMap(Remember(kind, al, u).alias, D)
           /\ Tells(Exec(m, u, v), Remember(kind, al, u).alias, value)
           /\ \/ Remember(kind, al, u).out = <<u>>
              \/ Remember(kind, al, u).out = <<>> /\ Exec(m, u, v) = m
<1> USE DEF IsMap
<1>1. CASE u.type # kind
  <2>1. Remember(kind, al, u) = [alias |-> Forget(al, u), out |-> <<u>>]
    BY <1>1 DEF Remember, Emit
  <2>2. /\ Forget(al, u) \in [Reg -> D]
        /\ \A r \in Reg : Forget(al, u)[r] # None =>
             Forget(al, u)[r] = al[r] /\ Exec(m, u, v).regs[r] = m.regs[r]
    BY ForgetKeeps
  <2> QED BY <2>1, <2>2 DEF Tells
<1>2. CASE u.type = kind /\ al[u.dst] = u.arg
  <2>1. Remember(kind, al, u) = [alias |-> al, out |-> <<>>]
    BY <1>2 DEF Remember, Drop
  <2>2. Exec(m, u, v) = m
    BY <1>2 DEF SetReg, Machine, Tells, Loads
  <2> QED BY <2>1, <2>2
<1>3. CASE u.type = kind /\ al[u.dst] # u.arg
  <2>1. Remember(kind, al, u) = [alias |-> [al EXCEPT ![u.dst] = u.arg], out |-> <<u>>]
    BY <1>3 DEF Remember, Emit
  <2>2. Exec(m, u, v).regs = [m.regs EXCEPT ![u.dst] = value[u.arg]]
    BY <1>3 DEF SetReg, Machine, Loads
  <2> QED BY <1>3, <2>1, <2>2 DEF Machine, Tells, Loads
<1> QED BY <1>1, <1>2, <1>3

\* VarAlias: what it answers does what the unit would have done, and a store
\* leaves no other register aliased to the slot.
LEMMA VarAliasSound ==
    ASSUME NEW al \in [Reg -> Slot \cup {None}], NEW m \in Machine,
           NEW u \in Unit, NEW v, VarSound(m, al)
    PROVE  LET p == VarAlias(al, u) IN
           /\ p.alias \in [Reg -> Slot \cup {None}]
           /\ VarSound(Exec(m, u, v), p.alias)
           /\ \/ p.out = <<u>>
              \/ p.out = <<>> /\ Exec(m, u, v) = m
              \/ \E a \in Reg : /\ u.type = "rstk" /\ u.dst \in Reg
                               /\ p.out = <<Copy(u.dst, a)>>
                               /\ m.regs[a] = m.stk[u.arg]
<1> DEFINE holders == {r \in Reg : al[r] = u.arg}
<1>1. CASE u.type = "wstk"
  <2> DEFINE new == [r \in Reg |-> IF r = u.src THEN u.arg
                                  ELSE IF r \in holders THEN None ELSE al[r]]
  <2>1. VarAlias(al, u) = [alias |-> new, out |-> <<u>>]
    BY <1>1 DEF VarAlias, Emit
  <2>2. u.src \in Reg /\ u.arg \in Slot
    BY <1>1, UnitFields DEF Opaque, Barrier
  <2>3. Exec(m, u, v) = SetStk(m, u.arg, m.regs[u.src])
    BY <1>1 DEF Exec, Opaque
  <2>4. /\ Exec(m, u, v).regs = m.regs
        /\ Exec(m, u, v).stk = [m.stk EXCEPT ![u.arg] = m.regs[u.src]]
    BY <2>3 DEF SetStk, Machine
  <2>5. ASSUME NEW r \in Reg, new[r] # None
        PROVE  m.regs[r] = [m.stk EXCEPT ![u.arg] = m.regs[u.src]][new[r]]
    BY <2>2, <2>5 DEF VarSound, Tells, Machine
  <2> QED BY <2>1, <2>2, <2>4, <2>5 DEF VarSound, Tells
<1>2. CASE u.type = "rstk"
  <2>1. u.dst \in Reg /\ u.arg \in Slot
    BY <1>2, UnitFields DEF Opaque, Barrier
  <2>2. Exec(m, u, v) = SetReg(m, u.dst, m.stk[u.arg])
    BY <1>2 DEF Exec, Opaque
  <2>3. /\ Exec(m, u, v).stk = m.stk
        /\ Exec(m, u, v).regs = [m.regs EXCEPT ![u.dst] = m.stk[u.arg]]
    BY <2>2 DEF SetReg, Machine
  <2>4. u.arg # None
    BY <2>1, PeepholeAssumption
  <2>5. CASE u.dst \in holders
    <3>1. VarAlias(al, u) = [alias |-> al, out |-> <<>>]
      BY <1>2, <2>5 DEF VarAlias, Drop
    <3>2. m.regs[u.dst] = m.stk[u.arg]
      BY <2>1, <2>4, <2>5 DEF VarSound, Tells
    <3>3. Exec(m, u, v) = m
      BY <2>1, <2>2, <3>2 DEF SetReg, Machine
    <3> QED BY <3>1, <3>3
  <2>6. CASE u.dst \notin holders
    <3> DEFINE a == CHOOSE r \in holders : TRUE
               new == [al EXCEPT ![u.dst] = u.arg]
    <3>1. VarAlias(al, u) = [alias |-> new,
                             out |-> <<IF holders = {} THEN u ELSE Copy(u.dst, a)>>]
      BY <1>2, <2>6 DEF VarAlias, Emit
    <3>2. holders # {} => a \in Reg /\ al[a] = u.arg
      OBVIOUS
    <3>3. holders # {} => m.regs[a] = m.stk[u.arg]
      BY <3>2, <2>4 DEF VarSound, Tells
    <3>4. VarSound(Exec(m, u, v), new)
      BY <2>1, <2>3 DEF VarSound, Tells, Machine
    <3>5. new \in [Reg -> Slot \cup {None}]
      BY <2>1
    <3> HIDE DEF a, new
    <3>6. CASE holders = {}
      <4>1. VarAlias(al, u) = [alias |-> new, out |-> <<u>>]
        BY <3>1, <3>6
      <4> QED BY <4>1, <3>4, <3>5
    <3>7. CASE holders # {}
      <4>1. VarAlias(al, u) = [alias |-> new, out |-> <<Copy(u.dst, a)>>]
        BY <3>1, <3>7
      <4> HIDE DEF holders
      <4> QED BY <1>2, <2>1, <3>2, <3>3, <3>4, <3>5, <3>7, <4>1
    <3> QED BY <3>6, <3>7
  <2> QED BY <2>5, <2>6
<1>3. CASE u.type \notin {"wstk", "rstk"}
  <2>1. VarAlias(al, u) = [alias |-> Forget(al, u), out |-> <<u>>]
    BY <1>3 DEF VarAlias, Emit
  <2>2. /\ Forget(al, u) \in [Reg -> Slot \cup {None}]
        /\ \A r \in Reg : Forget(al, u)[r] # None =>
             Forget(al, u)[r] = al[r] /\ Exec(m, u, v).regs[r] = m.regs[r]
    <3> DEFINE D == Slot \cup {None}
    <3>1. None \in D /\ al \in [Reg -> D]
      OBVIOUS
    <3> HIDE DEF D
    <3>2. /\ Forget(al, u) \in [Reg -> D]
          /\ \A r \in Reg : Forget(al, u)[r] # None =>
               Forget(al, u)[r] = al[r] /\ Exec(m, u, v).regs[r] = m.regs[r]
      BY <3>1, ForgetKeeps
    <3> QED BY <3>2 DEF D
  <2>3. Exec(m, u, v).stk = m.stk
    BY <1>3, ExecStk
  <2> QED BY <2>1, <2>2, <2>3 DEF VarSound, Tells
<1> QED BY <1>1, <1>2, <1>3

\* GloPtrAlias drops an address only when the register has it.
LEMMA GloPtrAliasSound ==
    ASSUME NEW al \in [Reg -> Glo \cup {None}], NEW m \in Machine,
           NEW u \in Unit, NEW v, GloSound(m, al)
    PROVE  LET p == GloPtrAlias(al, u) IN
           /\ p.alias \in [Reg -> Glo \cup {None}]
           /\ GloSound(Exec(m, u, v), p.alias)
           /\ p.out = <<u>> \/ (p.out = <<>> /\ Exec(m, u, v) = m)
<1> DEFINE D == Glo \cup {None}
           p == GloPtrAlias(al, u)
           value == GloAddr
<1>1. IsMap(al, D)
  BY DEF IsMap
<1>2. Tells(m, al, value)
  BY DEF GloSound
<1>3. Loads("ptrglo", D, m, u, v, value)
  <2> SUFFICES ASSUME u.type = "ptrglo"
               PROVE  /\ u.dst \in Reg /\ u.arg \in D /\ u.arg # None
                      /\ Exec(m, u, v) = SetReg(m, u.dst, value[u.arg])
    BY DEF Loads
  <2>1. u.dst \in Reg /\ u.arg \in Glo
    BY UnitFields DEF Opaque, Barrier
  <2>2. Exec(m, u, v) = SetReg(m, u.dst, GloAddr[u.arg])
    BY DEF Exec, Opaque
  <2> QED BY <2>1, <2>2, PeepholeAssumption
<1> HIDE DEF D, value
<1>4. /\ IsMap(p.alias, D)
      /\ Tells(Exec(m, u, v), p.alias, value)
      /\ p.out = <<u>> \/ (p.out = <<>> /\ Exec(m, u, v) = m)
  BY <1>1, <1>2, <1>3, RememberSound DEF GloPtrAlias
<1> QED BY <1>4 DEF IsMap, D, p, value, GloSound

\* ImmAlias drops a constant only when the register has it.
LEMMA ImmAliasSound ==
    ASSUME NEW al \in [Reg -> Val \cup {None}], NEW m \in Machine,
           NEW u \in Unit, NEW v, ImmSound(m, al)
    PROVE  LET p == ImmAlias(al, u) IN
           /\ p.alias \in [Reg -> Val \cup {None}]
           /\ ImmSound(Exec(m, u, v), p.alias)
           /\ p.out = <<u>> \/ (p.out = <<>> /\ Exec(m, u, v) = m)
<1> DEFINE D == Val \cup {None}
           p == ImmAlias(al, u)
           value == [c \in Val |-> c]
<1>1. IsMap(al, D)
  BY DEF IsMap
<1>2. Tells(m, al, value)
  BY DEF ImmSound
<1>3. Loads("ci", D, m, u, v, value)
  <2> SUFFICES ASSUME u.type = "ci"
               PROVE  /\ u.dst \in Reg /\ u.arg \in D /\ u.arg # None
                      /\ Exec(m, u, v) = SetReg(m, u.dst, value[u.arg])
    BY DEF Loads
  <2>1. u.dst \in Reg /\ u.arg \in Val
    BY UnitFields DEF Opaque, Barrier
  <2>2. Exec(m, u, v) = SetReg(m, u.dst, u.arg)
    BY DEF Exec, Opaque
  <2> QED BY <2>1, <2>2, PeepholeAssumption
<1> HIDE DEF D, value
<1>4. /\ IsMap(p.alias, D)
      /\ Tells(Exec(m, u, v), p.alias, value)
      /\ p.out = <<u>> \/ (p.out = <<>> /\ Exec(m, u, v) = m)
  BY <1>1, <1>2, <1>3, RememberSound DEF ImmAlias
<1> QED BY <1>4 DEF IsMap, D, p, value, ImmSound

\* StkPtrAlias drops an address only when the register has it.
LEMMA StkPtrAliasSound ==
    ASSUME NEW al \in [Reg -> ArrBase \cup {None}], NEW m \in Machine,
           NEW u \in Unit, NEW v, PtrSound(m, al)
    PROVE  LET p == StkPtrAlias(al, u) IN
           /\ p.alias \in [Reg -> ArrBase \cup {None}]
           /\ PtrSound(Exec(m, u, v), p.alias)
           /\ p.out = <<u>> \/ (p.out = <<>> /\ Exec(m, u, v) = m)
<1> DEFINE D == ArrBase \cup {None}
           p == StkPtrAlias(al, u)
           value == StkAddr
<1>1. IsMap(al, D)
  BY DEF IsMap
<1>2. Tells(m, al, value)
  BY DEF PtrSound
<1>3. Loads("ptrstk", D, m, u, v, value)
  <2> SUFFICES ASSUME u.type = "ptrstk"
               PROVE  /\ u.dst \in Reg /\ u.arg \in D /\ u.arg # None
                      /\ Exec(m, u, v) = SetReg(m, u.dst, value[u.arg])
    BY DEF Loads
  <2>1. u.dst \in Reg /\ u.arg \in ArrBase
    BY UnitFields DEF Opaque, Barrier
  <2>2. Exec(m, u, v) = SetReg(m, u.dst, StkAddr[u.arg])
    BY DEF Exec, Opaque
  <2> QED BY <2>1, <2>2, PeepholeAssumption
<1> HIDE DEF D, value
<1>4. /\ IsMap(p.alias, D)
      /\ Tells(Exec(m, u, v), p.alias, value)
      /\ p.out = <<u>> \/ (p.out = <<>> /\ Exec(m, u, v) = m)
  BY <1>1, <1>2, <1>3, RememberSound DEF StkPtrAlias
<1> QED BY <1>4 DEF IsMap, D, p, value, PtrSound

-----------------------------------------------------------------------------
(* The passes in a row. *)

\* Every entry of the four maps after a unit is true of the machine after it,
\* and what comes out of VarAlias is the unit, nothing where the unit would
\* change nothing, or a copy from a register that holds what the slot holds.
LEMMA PipelineSound ==
    ASSUME NEW al \in AliasMaps, NEW m \in Machine, NEW u \in Unit,
           NEW v, Sound(m, al)
    PROVE  LET p == Pipeline(al, u) IN
           /\ p.alias \in AliasMaps
           /\ Sound(Exec(m, u, v), p.alias)
           /\ \/ p.out = <<u>>
              \/ p.out = <<>> /\ Exec(m, u, v) = m
              \/ \E a \in Reg : /\ u.type = "rstk" /\ u.dst \in Reg
                               /\ p.out = <<Copy(u.dst, a)>>
                               /\ m.regs[a] = m.stk[u.arg]
<1> DEFINE n == Exec(m, u, v)
           g == GloPtrAlias(al.glo, u)
           i == Feed(ImmAlias, al.imm, g.out)
           p == Feed(StkPtrAlias, al.ptr, i.out)
           w == Feed(VarAlias, al.var, p.out)
<1>1. /\ al.glo \in [Reg -> Glo \cup {None}]
      /\ al.imm \in [Reg -> Val \cup {None}]
      /\ al.ptr \in [Reg -> ArrBase \cup {None}]
      /\ al.var \in [Reg -> Slot \cup {None}]
  BY DEF AliasMaps
<1>2. GloSound(m, al.glo) /\ ImmSound(m, al.imm) /\ PtrSound(m, al.ptr) /\ VarSound(m, al.var)
  BY DEF Sound
<1>3. /\ g.alias \in [Reg -> Glo \cup {None}]
      /\ GloSound(n, g.alias)
      /\ g.out = <<u>> \/ (g.out = <<>> /\ n = m)
  BY <1>1, <1>2, GloPtrAliasSound
<1> HIDE DEF g
<1>4. /\ i.alias \in [Reg -> Val \cup {None}]
      /\ ImmSound(n, i.alias)
      /\ i.out = <<u>> \/ (i.out = <<>> /\ n = m)
  <2>1. CASE g.out = <<u>>
    <3>1. i = ImmAlias(al.imm, u)
      BY <2>1 DEF Feed
    <3> HIDE DEF i
    <3> QED BY <1>1, <1>2, <3>1, ImmAliasSound
  <2>2. CASE g.out = <<>> /\ n = m
    <3>1. i = [alias |-> al.imm, out |-> <<>>]
      BY <2>2 DEF Feed, Drop
    <3> QED BY <1>1, <1>2, <2>2, <3>1
  <2> QED BY <1>3, <2>1, <2>2
<1> HIDE DEF i
<1>5. /\ p.alias \in [Reg -> ArrBase \cup {None}]
      /\ PtrSound(n, p.alias)
      /\ p.out = <<u>> \/ (p.out = <<>> /\ n = m)
  <2>1. CASE i.out = <<u>>
    <3>1. p = StkPtrAlias(al.ptr, u)
      BY <2>1 DEF Feed
    <3> HIDE DEF p
    <3> QED BY <1>1, <1>2, <3>1, StkPtrAliasSound
  <2>2. CASE i.out = <<>> /\ n = m
    <3>1. p = [alias |-> al.ptr, out |-> <<>>]
      BY <2>2 DEF Feed, Drop
    <3> QED BY <1>1, <1>2, <2>2, <3>1
  <2> QED BY <1>4, <2>1, <2>2
<1> HIDE DEF p
<1>6. /\ w.alias \in [Reg -> Slot \cup {None}]
      /\ VarSound(n, w.alias)
      /\ \/ w.out = <<u>>
         \/ w.out = <<>> /\ n = m
         \/ \E a \in Reg : /\ u.type = "rstk" /\ u.dst \in Reg
                          /\ w.out = <<Copy(u.dst, a)>>
                          /\ m.regs[a] = m.stk[u.arg]
  <2>1. CASE p.out = <<u>>
    <3>1. w = VarAlias(al.var, u)
      BY <2>1 DEF Feed
    <3> HIDE DEF w
    <3> QED BY <1>1, <1>2, <3>1, VarAliasSound
  <2>2. CASE p.out = <<>> /\ n = m
    <3>1. w = [alias |-> al.var, out |-> <<>>]
      BY <2>2 DEF Feed, Drop
    <3> QED BY <1>1, <1>2, <2>2, <3>1
  <2> QED BY <1>5, <2>1, <2>2
<1> HIDE DEF w
<1>7. Pipeline(al, u) = [alias |-> [glo |-> g.alias, imm |-> i.alias,
                                    ptr |-> p.alias, var |-> w.alias],
                         out |-> w.out]
  BY DEF Pipeline, g, i, p, w
<1> QED BY <1>3, <1>4, <1>5, <1>6, <1>7 DEF AliasMaps, Sound

-----------------------------------------------------------------------------
(* The two machines. *)

\* Two machines that agree still do after a unit that reads a slot they share.
LEMMA ExecAgrees ==
    ASSUME NEW s \in Machine, NEW o \in Machine, NEW S \in SUBSET Slot,
           NEW u \in Unit, NEW v,
           Alike(o, s, S), u.type = "rstk" => u.arg \in S
    PROVE  Alike(Exec(o, u, v), Exec(s, u, v), S)
<1> USE DEF Alike
<1>1. CASE u.type = "wstk"
  <2>1. /\ Exec(o, u, v) = SetStk(o, u.arg, o.regs[u.src])
        /\ Exec(s, u, v) = SetStk(s, u.arg, s.regs[u.src])
    BY <1>1 DEF Exec, Opaque
  <2> QED BY <1>1, <2>1, UnitFields DEF SetStk, Machine
<1>2. CASE u.type # "wstk"
  <2>1. Exec(o, u, v).stk = o.stk /\ Exec(s, u, v).stk = s.stk
    BY <1>2, ExecStk
  <2>2. Exec(o, u, v).regs = Exec(s, u, v).regs
    <3>1. CASE u.type \in Opaque
      BY <3>1 DEF Exec, SetReg, Machine, Opaque
    <3>2. CASE u.type \in {"cr", "ci", "ptrstk", "ptrglo"}
      BY <3>2 DEF Exec, SetReg, Machine, Opaque
    <3>3. CASE u.type = "rstk"
      BY <3>3 DEF Exec, SetReg, Machine, Opaque
    <3>4. CASE u.type = "call"
      BY <3>4 DEF Exec, Clobber, Machine, Opaque
    <3>5. CASE u.type \in (Barrier \ {"call"}) \cup {"aw"}
      BY <3>5 DEF Exec, Barrier, Opaque
    <3> QED BY <1>2, <3>1, <3>2, <3>3, <3>4, <3>5, UnitFields DEF Barrier
  <2> QED BY <2>1, <2>2
<1> QED BY <1>1, <1>2

\* The inductive invariant: the alias maps are worth nothing to opt unless the
\* machines agree, and the machines stop agreeing if a map is stale.
IInv == TypeOK /\ AliasSound /\ Agree

\* A unit that reaches opt unchanged, or is dropped as a store nobody reads.
LEMMA KeptUnitAgrees ==
    ASSUME NEW u \in Unit, NEW v \in Input(u), TypeOK, Agree,
           ReadSlots(<<u>>) \subseteq used,
           src' = Exec(src, u, v), used' = used,
           opt' = ExecOut(opt, UnusedStack(used, <<u>>), v)
    PROVE  opt' \in Machine /\ Agree'
<1>1. CASE u.type = "wstk" /\ u.arg \notin used
  <2>1. opt' = opt
    BY <1>1 DEF UnusedStack, ExecOut
  <2>2. src' = SetStk(src, u.arg, src.regs[u.src])
    BY <1>1 DEF Exec, Opaque
  <2>3. u.arg \in Slot /\ src \in Machine
    BY <1>1, UnitFields DEF TypeOK, Opaque, Barrier
  <2>4. /\ src'.regs = src.regs
        /\ src'.stk = [src.stk EXCEPT ![u.arg] = src.regs[u.src]]
    BY <2>2, <2>3 DEF SetStk, Machine
  <2>5. \A o \in used : src'.stk[o] = src.stk[o]
    BY <1>1, <2>3, <2>4 DEF Machine, TypeOK
  <2> QED BY <2>1, <2>4, <2>5 DEF TypeOK, Agree, Alike
<1>2. CASE ~(u.type = "wstk" /\ u.arg \notin used)
  <2>1. UnusedStack(used, <<u>>) = <<u>>
    BY <1>2 DEF UnusedStack
  <2>2. opt' = Exec(opt, u, v)
    <3>1. <<u>> # <<>> /\ <<u>>[1] = u
      OBVIOUS
    <3>2. opt' = ExecOut(opt, <<u>>, v)
      BY <2>1
    <3> QED BY <3>1, <3>2, Zenon DEF ExecOut
  <2>3. u.type = "rstk" => u.arg \in used
    BY DEF ReadSlots
  <2>4. opt' \in Machine
    BY <2>2, ExecType DEF TypeOK
  <2>5. src \in Machine /\ opt \in Machine /\ used \in SUBSET Slot
    BY DEF TypeOK
  <2>6. Alike(Exec(opt, u, v), Exec(src, u, v), used)
    BY <2>3, <2>5, ExecAgrees DEF Agree
  <2> QED BY <2>2, <2>4, <2>6 DEF Agree
<1> QED BY <1>1, <1>2

\* Streaming one unit through the passes keeps the invariant.
LEMMA OptimisedInv ==
    ASSUME NEW u \in Unit, IInv, Optimised(u)
    PROVE  IInv'
<1> DEFINE p == Pipeline(alias, u)
<1>1. PICK v \in Input(u) : /\ src' = Exec(src, u, v)
                            /\ opt' = ExecOut(opt, UnusedStack(used, p.out), v)
  BY DEF Optimised
<1>2. ReadSlots(p.out) \subseteq used /\ alias' = p.alias /\ used' = used
  BY DEF Optimised
<1>3. alias \in AliasMaps /\ src \in Machine /\ opt \in Machine /\ used \subseteq Slot
  BY DEF IInv, TypeOK
<1>4. Sound(src, alias) /\ Agree
  BY DEF IInv, AliasSound
<1>5. /\ p.alias \in AliasMaps
      /\ Sound(Exec(src, u, v), p.alias)
      /\ \/ p.out = <<u>>
         \/ p.out = <<>> /\ Exec(src, u, v) = src
         \/ \E a \in Reg : /\ u.type = "rstk" /\ u.dst \in Reg
                          /\ p.out = <<Copy(u.dst, a)>>
                          /\ src.regs[a] = src.stk[u.arg]
  <2> HIDE DEF p
  <2>1. p = Pipeline(alias, u)
    BY DEF p
  <2> QED BY <1>3, <1>4, <2>1, PipelineSound
<1> HIDE DEF p
<1>6. src' \in Machine
  BY <1>1, <1>3, ExecType
<1>7. AliasSound'
  BY <1>1, <1>2, <1>5 DEF AliasSound
<1>8. opt' \in Machine /\ Agree'
  <2>1. CASE p.out = <<u>>
    BY <1>1, <1>2, <2>1, KeptUnitAgrees DEF IInv
  <2>2. CASE p.out = <<>> /\ Exec(src, u, v) = src
    <3>1. opt' = opt /\ src' = src
      BY <1>1, <2>2 DEF UnusedStack, ExecOut
    <3> QED BY <1>2, <1>3, <1>4, <3>1 DEF Agree, Alike
  <2>3. ASSUME NEW a \in Reg, u.type = "rstk", u.dst \in Reg,
               p.out = <<Copy(u.dst, a)>>, src.regs[a] = src.stk[u.arg]
        PROVE  opt' \in Machine /\ Agree'
    <3>1. UnusedStack(used, p.out) = <<Copy(u.dst, a)>>
      BY <2>3 DEF UnusedStack, Copy
    <3>2. Copy(u.dst, a) \in Unit
      BY <2>3 DEF Copy, Unit
    <3>3. opt' = SetReg(opt, u.dst, opt.regs[a])
      BY <1>1, <3>1 DEF ExecOut, Exec, Copy, Opaque
    <3>4. src' = SetReg(src, u.dst, src.stk[u.arg])
      BY <1>1, <2>3 DEF Exec, Opaque
    <3> QED BY <1>2, <1>3, <1>4, <2>3, <3>3, <3>4 DEF Agree, Alike, SetReg, Machine
  <2> QED BY <1>5, <2>1, <2>2, <2>3
<1> QED BY <1>2, <1>3, <1>5, <1>6, <1>7, <1>8 DEF IInv, TypeOK

\* A function begins with empty maps and the same frame on both sides.
LEMMA EnterInv == IInv /\ Enter => IInv'
<1> SUFFICES ASSUME IInv, Enter PROVE IInv'
  OBVIOUS
<1>1. PICK frame \in [Slot -> Val] : /\ src' = [src EXCEPT !.stk = frame]
                                    /\ opt' = [opt EXCEPT !.stk = frame]
  BY DEF Enter
<1>2. alias' = Fresh /\ used' \subseteq Slot
  BY DEF Enter
<1>3. src \in Machine /\ opt \in Machine /\ opt.regs = src.regs
  BY DEF IInv, TypeOK, Agree, Alike
<1>4. src' \in Machine /\ opt' \in Machine /\ Agree'
  BY <1>1, <1>3 DEF Machine, Agree, Alike
<1>5. alias' \in AliasMaps /\ AliasSound'
  BY <1>2 DEF Fresh, NoAlias, AliasMaps, AliasSound, Sound, GloSound, ImmSound,
              PtrSound, VarSound, Tells
<1> QED BY <1>2, <1>4, <1>5 DEF IInv, TypeOK

\* Every action but Enter streams one unit through the passes.
LEMMA NextIsUnit == Next => Enter \/ \E u \in Unit : Optimised(u)
<1> SUFFICES ASSUME Next, ~Enter PROVE \E u \in Unit : Optimised(u)
  OBVIOUS
<1>1. CASE Arith
  <2>1. PICK t \in Opaque, d \in Reg : Optimised(Compute(t, d))
    BY <1>1 DEF Arith
  <2> QED BY <2>1 DEF Compute, Unit
<1>2. CASE CopyReg
  <2>1. PICK d \in Reg, s \in Reg : Optimised(Copy(d, s))
    BY <1>2 DEF CopyReg
  <2> QED BY <2>1 DEF Copy, Unit
<1>3. CASE LoadConst
  <2>1. PICK d \in Reg, i \in Val : Optimised(LoadImm(d, i))
    BY <1>3 DEF LoadConst
  <2> QED BY <2>1 DEF LoadImm, Unit
<1>4. CASE LoadStack
  <2>1. PICK d \in Reg, o \in Slot : Optimised(ReadStk(d, o))
    BY <1>4 DEF LoadStack
  <2> QED BY <2>1 DEF ReadStk, Unit
<1>5. CASE StoreStack
  <2>1. PICK s \in Reg, o \in Slot : Optimised(WriteStk(s, o))
    BY <1>5 DEF StoreStack
  <2> QED BY <2>1 DEF WriteStk, Unit
<1>6. CASE ArrayAddr
  <2>1. PICK d \in Reg, b \in ArrBase : Optimised(PtrStk(d, b))
    BY <1>6 DEF ArrayAddr
  <2> QED BY <2>1 DEF PtrStk, Unit
<1>7. CASE GlobalAddr
  <2>1. PICK d \in Reg, g \in Glo : Optimised(PtrGlo(d, g))
    BY <1>7 DEF GlobalAddr
  <2> QED BY <2>1 DEF PtrGlo, Unit
<1>8. CASE ArrayWrite
  BY <1>8 DEF ArrayWrite, Plain, Unit
<1>9. CASE Transfer
  <2>1. PICK t \in Barrier \ {"call"} : Optimised(Plain(t))
    BY <1>9 DEF Transfer
  <2> QED BY <2>1 DEF Plain, Unit
<1>10. CASE Call
  BY <1>10 DEF Call, Plain, Unit, Barrier
<1> QED BY <1>1, <1>2, <1>3, <1>4, <1>5, <1>6, <1>7, <1>8, <1>9, <1>10 DEF Next

-----------------------------------------------------------------------------
(* Theorems. *)

\* Functions begin with empty maps.
LEMMA InitInv == Init => IInv
  BY DEF Init, Fresh, NoAlias, IInv, TypeOK, AliasMaps, AliasSound, Sound,
         GloSound, ImmSound, PtrSound, VarSound, Tells, Agree, Alike

\* A step that changes nothing keeps the invariant.
LEMMA StutterInv == IInv /\ UNCHANGED vars => IInv'
  BY DEF vars, IInv, TypeOK, AliasSound, Sound, GloSound, ImmSound,
         PtrSound, VarSound, Tells, Agree, Alike

\* The invariant holds of every function the optimiser is given.
THEOREM Inductive == Spec => []IInv
<1>1. IInv /\ [Next]_vars => IInv'
  BY NextIsUnit, OptimisedInv, EnterInv, StutterInv
<1> QED BY <1>1, InitInv, PTL DEF Spec

\* The machines, the alias maps and used_stack keep their types.
THEOREM TypeCorrect == Spec => []TypeOK
<1>1. IInv => TypeOK
  BY DEF IInv
<1> QED BY <1>1, Inductive, PTL

\* No entry of alias_of in any of the four passes is ever stale.
THEOREM AliasesAreSound == Spec => []AliasSound
<1>1. IInv => AliasSound
  BY DEF IInv
<1> QED BY <1>1, Inductive, PTL

\* Optimised code has the registers of the code as generated at every unit,
\* and the same value in every slot that the function reads.
THEOREM OptimisedAgrees == Spec => []Agree
<1>1. IInv => Agree
  BY DEF IInv
<1> QED BY <1>1, Inductive, PTL

\* The invariant holds of the specification with the history variable too.
LEMMA TracedInductive == TSpec => []IInv
<1>1. TInit => IInv
  BY InitInv DEF TInit
<1>2. IInv /\ [TNext]_<<vars, unit>> => IInv'
  <2>1. IInv /\ TNext => IInv'
    BY OptimisedInv, EnterInv DEF TNext
  <2>2. IInv /\ UNCHANGED vars => IInv'
    BY StutterInv
  <2> QED BY <2>1, <2>2
<1> QED BY <1>1, <1>2, PTL DEF TSpec

\* Optimised code implements the code as generated: every unit has, on the
\* registers and the slots that are read, the effect that Dashie gives it.
THEOREM Refinement == TSpec => ImplementsSource
<1>1. IInv => Seen = src
  BY DEF Seen, IInv, TypeOK, Agree, Alike, Machine
<1>2. TInit => Source!Init
  <2> SUFFICES ASSUME TInit PROVE Source!Init
    OBVIOUS
  <2>1. Seen = src
    BY <1>1, InitInv DEF TInit
  <2> QED BY <2>1 DEF TInit, Init, Source!Init, Machine, Source!Machine, Plain, Source!Plain
<1>3. IInv /\ IInv' /\ [TNext]_<<vars, unit>> => [Source!Next]_<<Seen, unit>>
  <2> SUFFICES ASSUME IInv, IInv', [TNext]_<<vars, unit>>
               PROVE  [Source!Next]_<<Seen, unit>>
    OBVIOUS
  <2>1. Seen = src /\ Seen' = src'
    BY <1>1 DEF Seen, IInv, TypeOK, Agree, Alike, Machine
  <2>2. CASE UNCHANGED <<vars, unit>>
    BY <2>1, <2>2 DEF vars
  <2>3. CASE Enter /\ unit' = Plain("enter")
    BY <2>1, <2>3 DEF Enter, Source!Next, Source!Enter, Plain, Source!Plain
  <2>4. ASSUME NEW u \in Unit, Optimised(u), unit' = u
        PROVE  Source!Next
    <3>1. PICK v \in Input(u) : src' = Exec(src, u, v)
      BY <2>4 DEF Optimised
    <3>2. u \in Source!Unit
      BY DEF Unit, Source!Unit, Opaque, Source!Opaque, Barrier, Source!Barrier
    <3>3. v \in Source!Input(u)
      BY DEF Input, Source!Input, Opaque, Source!Opaque
    <3>4. Source!Exec(src, u, v) = Exec(src, u, v)
      BY DEF Exec, Source!Exec, Opaque, Source!Opaque, SetReg, Source!SetReg,
             SetStk, Source!SetStk, Clobber, Source!Clobber
    <3> QED BY <2>1, <2>4, <3>1, <3>2, <3>3, <3>4 DEF Source!Next, Source!Run
  <2> QED BY <2>2, <2>3, <2>4 DEF TNext
<1> QED BY <1>2, <1>3, TracedInductive, PTL DEF TSpec, Source!Spec, ImplementsSource

=============================================================================
