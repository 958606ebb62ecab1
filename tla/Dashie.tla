-------------------------------- MODULE Dashie --------------------------------
(***************************************************************************)
(* Dashie, the register-level code of the back end (dashie.hpp), and what  *)
(* each of its units does when the RISC-V text printed for it runs.        *)
(*                                                                         *)
(* Values the rest of the project does not look into are parameters of     *)
(* Exec: the result of an arithmetic unit, of an array or global read, and *)
(* what a callee leaves in the registers it may overwrite.  Array writes   *)
(* do not reach the scalar slots: the compiler takes the address of a      *)
(* local only if it is an array (interop.cpp:162-170).                     *)
(***************************************************************************)
CONSTANTS
    Reg,          \* registers
    CallerSaved,  \* the registers a callee may overwrite
    Val,          \* machine words
    Slot,         \* offsets of the scalar stack slots, callee-saved area included
    ArrBase,      \* offsets of the local arrays
    Glo,          \* global ids
    GloAddr,      \* where the linker puts each global
    StkAddr       \* where the frame of this activation puts each array

ASSUME DashieAssumption ==
    /\ CallerSaved \subseteq Reg
    /\ GloAddr \in [Glo -> Val]
    /\ StkAddr \in [ArrBase -> Val]

-----------------------------------------------------------------------------
(* Units, grouped by what the optimiser distinguishes. *)

Opaque  == {"rbr", "rbi", "ur", "ar", "rglo"}  \* dst gets a value no pass tracks
Barrier == {"jc", "jmp", "call", "ret", "label"}

Compute(t, d)  == [type |-> t, dst |-> d]
Copy(d, s)     == [type |-> "cr", dst |-> d, src |-> s]
LoadImm(d, i)  == [type |-> "ci", dst |-> d, arg |-> i]
ReadStk(d, o)  == [type |-> "rstk", dst |-> d, arg |-> o]
PtrStk(d, o)   == [type |-> "ptrstk", dst |-> d, arg |-> o]
PtrGlo(d, g)   == [type |-> "ptrglo", dst |-> d, arg |-> g]
WriteStk(s, o) == [type |-> "wstk", src |-> s, arg |-> o]
Plain(t)       == [type |-> t]                 \* "aw" and the barriers

Unit ==
    [type : Opaque, dst : Reg]
      \cup [type : {"cr"}, dst : Reg, src : Reg]
      \cup [type : {"ci"}, dst : Reg, arg : Val]
      \cup [type : {"rstk"}, dst : Reg, arg : Slot]
      \cup [type : {"ptrstk"}, dst : Reg, arg : ArrBase]
      \cup [type : {"ptrglo"}, dst : Reg, arg : Glo]
      \cup [type : {"wstk"}, src : Reg, arg : Slot]
      \cup [type : Barrier \cup {"aw"}]

(* What a unit does to the machine: the instructions convert() gives it.   *)
(* v is the result of an opaque unit, or what a callee left in CallerSaved. *)
Machine == [regs : [Reg -> Val], stk : [Slot -> Val]]

SetReg(m, r, v) == [m EXCEPT !.regs = [m.regs EXCEPT ![r] = v]]
SetStk(m, o, v) == [m EXCEPT !.stk = [m.stk EXCEPT ![o] = v]]
Clobber(m, h)   ==
    [m EXCEPT !.regs = [r \in Reg |-> IF r \in CallerSaved THEN h[r] ELSE m.regs[r]]]

Exec(m, u, v) ==
    CASE u.type \in Opaque   -> SetReg(m, u.dst, v)
      [] u.type = "cr"       -> SetReg(m, u.dst, m.regs[u.src])
      [] u.type = "ci"       -> SetReg(m, u.dst, u.arg)
      [] u.type = "rstk"     -> SetReg(m, u.dst, m.stk[u.arg])
      [] u.type = "ptrstk"   -> SetReg(m, u.dst, StkAddr[u.arg])
      [] u.type = "ptrglo"   -> SetReg(m, u.dst, GloAddr[u.arg])
      [] u.type = "wstk"     -> SetStk(m, u.arg, m.regs[u.src])
      [] u.type = "call"     -> Clobber(m, v)
      [] OTHER               -> m

\* The values a unit can bring in from outside of the registers and the frame.
Input(u) ==
    CASE u.type \in Opaque -> Val
      [] u.type = "call"   -> [Reg -> Val]
      [] OTHER             -> {"none"}

ExecOut(m, out, v) == IF out = <<>> THEN m ELSE Exec(m, out[1], v)

=============================================================================
