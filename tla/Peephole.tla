------------------------------- MODULE Peephole -------------------------------
(***************************************************************************)
(* The peephole optimiser of Dashie code (optimize_dashie.cpp).            *)
(*                                                                         *)
(* Dashie::Pass::peephole streams the units of a function through          *)
(* GloPtrAlias, ImmAlias, StkPtrAlias, VarAlias and UnusedStack.  Each of  *)
(* the first four is a transducer: it carries a map from registers to what *)
(* they are known to hold and answers every unit with one unit or none.    *)
(* This module runs the function as generated (src) and the function as    *)
(* optimised (opt) side by side along one execution path.  A path goes     *)
(* through the static code in order except at jumps and labels, where the  *)
(* maps are empty, so the maps carried along the path are the ones the     *)
(* passes had at that point of the code.                                   *)
(***************************************************************************)
EXTENDS Dashie

CONSTANT None     \* "no entry" in an alias map

ASSUME PeepholeAssumption == None \notin Val \cup Slot \cup ArrBase \cup Glo

VARIABLES
    src,     \* the machine running the code as generated
    opt,     \* the machine running the code as optimised
    alias,   \* the alias_of maps of the four passes
    used     \* UnusedStack::used_stack of the function

vars == <<src, opt, alias, used>>

-----------------------------------------------------------------------------
(* The passes.  Each maps its alias_of and a unit to the alias_of that it  *)
(* goes on with and the units it answers, at most one.                     *)

NoAlias == [r \in Reg |-> None]

Drop(al)       == [alias |-> al, out |-> <<>>]
Emit(al, unit) == [alias |-> al, out |-> <<unit>>]

\* Mutant of Forget: a call is taken to preserve the registers.
ForgetNotAtCall(al, u) ==
    CASE u.type \in Barrier \ {"call"}     -> NoAlias
      [] u.type \in {"aw", "wstk", "call"} -> al
      [] OTHER                             -> [al EXCEPT ![u.dst] = None]

\* What a unit that a pass does not look for leaves of alias_of.
Forget(al, u) ==
    CASE u.type \in Barrier        -> NoAlias
      [] u.type \in {"aw", "wstk"} -> al
      [] OTHER                     -> [al EXCEPT ![u.dst] = None]

\* The passes that drop a repeated load of one kind of known value.
Remember(kind, al, u) ==
    IF u.type # kind THEN Emit(Forget(al, u), u)
    ELSE IF al[u.dst] = u.arg THEN Drop(al)
    ELSE Emit([al EXCEPT ![u.dst] = u.arg], u)

GloPtrAlias(al, u) == Remember("ptrglo", al, u)
ImmAlias(al, u)    == Remember("ci", al, u)

\* Mutant of StkPtrAlias: it looks for the loads of the slots.
StkPtrAliasOfLoads(al, u) == Remember("rstk", al, u)

StkPtrAlias(al, u) == Remember("ptrstk", al, u)

\* Mutant of VarAlias: a store leaves the other registers aliased to the slot.
VarAliasStale(al, u) ==
    LET holders == {r \in Reg : al[r] = u.arg} IN
    CASE u.type = "wstk" -> Emit([al EXCEPT ![u.src] = u.arg], u)
      [] u.type = "rstk" ->
           IF u.dst \in holders THEN Drop(al)
           ELSE Emit([al EXCEPT ![u.dst] = u.arg],
                     IF holders = {} THEN u ELSE Copy(u.dst, CHOOSE r \in holders : TRUE))
      [] OTHER -> Emit(Forget(al, u), u)

VarAlias(al, u) ==
    LET holders == {r \in Reg : al[r] = u.arg} IN
    CASE u.type = "wstk" ->
           Emit([r \in Reg |-> IF r = u.src THEN u.arg
                               ELSE IF r \in holders THEN None ELSE al[r]], u)
      [] u.type = "rstk" ->
           IF u.dst \in holders THEN Drop(al)
           ELSE Emit([al EXCEPT ![u.dst] = u.arg],
                     IF holders = {} THEN u ELSE Copy(u.dst, CHOOSE r \in holders : TRUE))
      [] OTHER -> Emit(Forget(al, u), u)

\* The constructor of UnusedStack sees the code VarAlias answered with.  It
\* collects the bases of arrays too, to which no wstk stores.
ReadSlots(out) == IF out # <<>> /\ out[1].type = "rstk" THEN {out[1].arg} ELSE {}

\* Mutant of UnusedStack: the slots read are kept out of the code, not those unread.
UnusedStackInverted(read, out) ==
    IF out # <<>> /\ out[1].type = "wstk" /\ out[1].arg \in read THEN <<>> ELSE out

UnusedStack(read, out) ==
    IF out # <<>> /\ out[1].type = "wstk" /\ out[1].arg \notin read THEN <<>> ELSE out

\* A pass sees only what the pass before it answered (operator>> of util.hpp).
Feed(Pass(_, _), al, out) == IF out = <<>> THEN Drop(al) ELSE Pass(al, out[1])

Pipeline(al, u) ==
    LET g == GloPtrAlias(al.glo, u)
        i == Feed(ImmAlias, al.imm, g.out)
        p == Feed(StkPtrAlias, al.ptr, i.out)
        w == Feed(VarAlias, al.var, p.out)
    IN  [alias |-> [glo |-> g.alias, imm |-> i.alias, ptr |-> p.alias, var |-> w.alias],
         out   |-> w.out]

-----------------------------------------------------------------------------
(* The two machines, in step. *)

Fresh == [glo |-> NoAlias, imm |-> NoAlias, ptr |-> NoAlias, var |-> NoAlias]

Init ==
    /\ src \in Machine
    /\ opt = src
    /\ alias = Fresh
    /\ used \in SUBSET Slot

\* used_stack is collected from the whole function beforehand: the slots that
\* this path reads are among it.
Optimised(u) ==
    LET p == Pipeline(alias, u) IN
    /\ ReadSlots(p.out) \subseteq used
    /\ alias' = p.alias
    /\ \E v \in Input(u) :
         /\ src' = Exec(src, u, v)
         /\ opt' = ExecOut(opt, UnusedStack(used, p.out), v)
    /\ UNCHANGED used

Arith      == \E t \in Opaque, d \in Reg : Optimised(Compute(t, d))
CopyReg    == \E d, s \in Reg : Optimised(Copy(d, s))
LoadConst  == \E d \in Reg, i \in Val : Optimised(LoadImm(d, i))
LoadStack  == \E d \in Reg, o \in Slot : Optimised(ReadStk(d, o))
StoreStack == \E s \in Reg, o \in Slot : Optimised(WriteStk(s, o))
ArrayAddr  == \E d \in Reg, b \in ArrBase : Optimised(PtrStk(d, b))
GlobalAddr == \E d \in Reg, g \in Glo : Optimised(PtrGlo(d, g))
ArrayWrite == Optimised(Plain("aw"))
Transfer   == \E t \in Barrier \ {"call"} : Optimised(Plain(t))
Call       == Optimised(Plain("call"))

\* Another function begins: a frame with whatever memory held, alias maps of
\* its own (the passes are constructed anew for it) and its own used_stack.
Enter ==
    /\ \E frame \in [Slot -> Val] :
         /\ src' = [src EXCEPT !.stk = frame]
         /\ opt' = [opt EXCEPT !.stk = frame]
    /\ alias' = Fresh
    /\ used' \in SUBSET Slot

Next ==
    \/ Arith \/ CopyReg \/ LoadConst \/ LoadStack \/ StoreStack
    \/ ArrayAddr \/ GlobalAddr \/ ArrayWrite \/ Transfer \/ Call \/ Enter

Spec == Init /\ [][Next]_vars

-----------------------------------------------------------------------------
(* Properties. *)

AliasMaps ==
    [glo : [Reg -> Glo \cup {None}], imm : [Reg -> Val \cup {None}],
     ptr : [Reg -> ArrBase \cup {None}], var : [Reg -> Slot \cup {None}]]

\* The machines, the alias maps and used_stack hold values of their kinds.
TypeOK ==
    /\ src \in Machine
    /\ opt \in Machine
    /\ alias \in AliasMaps
    /\ used \subseteq Slot

\* The registers hold what a map says: the value of the key it records.
Tells(m, al, value) == \A r \in Reg : al[r] # None => m.regs[r] = value[al[r]]

GloSound(m, al) == Tells(m, al, GloAddr)
ImmSound(m, al) == Tells(m, al, [i \in Val |-> i])
PtrSound(m, al) == Tells(m, al, StkAddr)
VarSound(m, al) == Tells(m, al, m.stk)

Sound(m, al) ==
    /\ GloSound(m, al.glo)
    /\ ImmSound(m, al.imm)
    /\ PtrSound(m, al.ptr)
    /\ VarSound(m, al.var)

\* No alias map is ever stale: dropping or rewriting a unit on its word is
\* right, whatever stores, calls and jumps came since the entry was made.
AliasSound == Sound(src, alias)

\* Two machines that a function reading only the slots of S cannot tell apart.
Alike(m, n, S) == m.regs = n.regs /\ \A o \in S : m.stk[o] = n.stk[o]

\* The optimised function computes what the generated one computes: equal
\* registers always, and equal slots wherever the function reads them.
Agree == Alike(opt, src, used)

=============================================================================
