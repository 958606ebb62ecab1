---------------------------- MODULE DashieMachine ----------------------------
(***************************************************************************)
(* What running Dashie code promises: one unit after another is executed   *)
(* on one register file and one stack frame.  Which unit comes next is up  *)
(* to the program, so every unit may; unit says which it was, and a unit   *)
(* that is streamed has its effect.  PeepholeTrace is shown to implement   *)
(* this.                                                                   *)
(***************************************************************************)
EXTENDS Dashie

VARIABLES
    machine,  \* registers and frame
    unit      \* the unit run last

Init ==
    /\ machine \in Machine
    /\ unit = Plain("enter")

Run(u) ==
    /\ \E v \in Input(u) : machine' = Exec(machine, u, v)
    /\ unit' = u

\* Another function begins: its frame holds whatever memory held.
Enter ==
    /\ \E frame \in [Slot -> Val] : machine' = [machine EXCEPT !.stk = frame]
    /\ unit' = Plain("enter")

Next == Enter \/ \E u \in Unit : Run(u)

Spec == Init /\ [][Next]_<<machine, unit>>

=============================================================================
