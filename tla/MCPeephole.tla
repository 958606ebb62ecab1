------------------------------ MODULE MCPeephole ------------------------------
(***************************************************************************)
(* Peephole on a few registers and slots, with values small enough that a  *)
(* stale entry of a map can disagree with the register.                    *)
(***************************************************************************)
EXTENDS Peephole, Integers

MCGloAddr == [g \in Glo |-> g - 100]
MCStkAddr == [b \in ArrBase |-> b - 200]

=============================================================================
