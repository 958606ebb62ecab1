------------------------------ MODULE MCGotos ------------------------------
EXTENDS Gotos, SequencesExt

(* The codes of up to five units.                                           *)
MCCodes == {code \in SeqOf(Unit, 5) : WellFormed(code)}
=============================================================================
