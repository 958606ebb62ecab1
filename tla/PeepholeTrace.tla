---------------------------- MODULE PeepholeTrace ----------------------------
(***************************************************************************)
(* Peephole with a history variable, the unit streamed last, so that a     *)
(* unit that the passes dropped or rewrote is compared with what the unit  *)
(* as generated does.                                                      *)
(***************************************************************************)
EXTENDS Peephole

VARIABLE unit

TInit == Init /\ unit = Plain("enter")

TNext ==
    \/ Enter /\ unit' = Plain("enter")
    \/ \E u \in Unit : Optimised(u) /\ unit' = u

TSpec == TInit /\ [][TNext]_<<vars, unit>>

\* The state of the optimised code, with the slots that the function never
\* reads, to which UnusedStack drops the stores, as they would have been.
Seen ==
    [regs |-> opt.regs,
     stk  |-> [o \in Slot |-> IF o \in used THEN opt.stk[o] ELSE src.stk[o]]]

\* A run of the optimised code is a run of the code as generated: at every
\* unit, what the passes answered it with, nothing included, has the effect on
\* registers and read slots that the unit itself has.
Source == INSTANCE DashieMachine WITH machine <- Seen
ImplementsSource == Source!Spec

=============================================================================
