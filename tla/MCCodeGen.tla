------------------------------- MODULE MCCodeGen -------------------------------
(***************************************************************************)
(* CodeGen on two functions: one that is passed two pointers, the second   *)
(* in a temporary of its pool, and has an array, two temporaries and       *)
(* globals; and one with so many locals that two saved registers join the  *)
(* pool.                                                                   *)
(***************************************************************************)
EXTENDS CodeGen, TLC

V(i) == [ns |-> "var", id |-> i]
T(i) == [ns |-> "temp", id |-> i]
Symb(o, l) == [name |-> o, len |-> l]

MCGlobal == {Symb(V(7), 0), Symb(V(8), 4)}
MCGlobalBase == (V(7) :> 500) @@ (V(8) :> 504)

Passed == [arity |-> 2, ptr |-> {Param(0), Param(1), T(1)},
           decl |-> {Symb(V(0), 8), Symb(T(0), 0), Symb(T(1), 0)},
           uses |-> {Param(1), V(0), T(0), T(1), V(7), V(8)}]
Crowded == [arity |-> 1, ptr |-> {}, decl |-> {Symb(T(i), 0) : i \in 0 .. 8},
            uses |-> {T(3), T(8), V(7)}]
MCFun == <<Passed, Crowded>>

\* A callee of Passed can change its array through a pointer, one of Crowded both globals.
MCReach == <<{<<V(7), 0>>, <<V(0), 4>>}, {<<V(7), 0>>, <<V(8), 0>>}>>

MCUn == [v \in Word |-> 4 - v]
MCBin == [p \in Word \X Word |-> IF p[1] > p[2] THEN 4 ELSE 0]

=============================================================================
