------------------------------- MODULE Gotos -------------------------------
(***************************************************************************)
(* immediate_goto() (optimize_dashie.cpp), the last pass of peephole():    *)
(* jumps to the label that follows are left out.  Then the code as it was  *)
(* and as it is run side by side, with the same conditions.                *)
(***************************************************************************)
EXTENDS Integers, Sequences

CONSTANTS
    Label,
    Work,       \* units that go on to the next one
    Codes       \* the codes of functions that are looked at

Unit ==
    [type : {"label", "jmp", "jc"}, id : Label] \cup [type : {"work"}, id : Work]
        \cup {[type |-> "ret"]}

LabelU(l) == [type |-> "label", id |-> l]

(* A label stands once in the code of a function, and jumps stay in it.    *)
WellFormed(code) ==
    /\ \A x, y \in 1 .. Len(code) :
           (code[x].type = "label" /\ code[x] = code[y]) => x = y
    /\ \A x \in 1 .. Len(code) : code[x].type \in {"jmp", "jc"} =>
           \E y \in 1 .. Len(code) : code[y] = LabelU(code[x].id)

ASSUME CodesAssumption == \A code \in Codes : code \in Seq(Unit) /\ WellFormed(code)

VARIABLES
    v, ans, i,      \* of immediate_goto(), i counted from 1
    at,             \* "loop", and then "run"
    src, opt        \* the next units of the two codes

vars == <<v, ans, i, at, src, opt>>

-----------------------------------------------------------------------------

Init ==
    /\ v \in Codes
    /\ ans = <<>> /\ i = 1
    /\ at = "loop"
    /\ src = 1 /\ opt = 1

ReturnSame ==
    /\ at = "loop" /\ Len(v) <= 2
    /\ ans' = v
    /\ at' = "run"
    /\ UNCHANGED <<v, i, src, opt>>

JumpsToNextLabel == v[i].type = "jmp" /\ v[i + 1].type = "label"

JumpsToNext ==
    /\ v[i].type = "jmp" /\ v[i + 1].type = "label"
    /\ v[i].id = v[i + 1].id

Continue ==
    /\ at = "loop" /\ Len(v) > 2 /\ i < Len(v)
    /\ JumpsToNext
    /\ i' = i + 1
    /\ UNCHANGED <<v, ans, at, src, opt>>

PushOverTheNext ==
    /\ at = "loop" /\ Len(v) > 2 /\ i < Len(v)
    /\ ~JumpsToNext
    /\ ans' = Append(ans, v[i])
    /\ i' = IF v[i].type = "jmp" THEN i + 2 ELSE i + 1
    /\ UNCHANGED <<v, at, src, opt>>

Push ==
    /\ at = "loop" /\ Len(v) > 2 /\ i < Len(v)
    /\ ~JumpsToNext
    /\ ans' = Append(ans, v[i])
    /\ i' = i + 1
    /\ UNCHANGED <<v, at, src, opt>>

PushNoLast ==
    /\ at = "loop" /\ Len(v) > 2 /\ i = Len(v)
    /\ at' = "run"
    /\ UNCHANGED <<v, i, src, opt, ans>>

(* The last unit has none to follow it.                                    *)
PushLast ==
    /\ at = "loop" /\ Len(v) > 2 /\ i = Len(v)
    /\ ans' = Append(ans, v[i])
    /\ at' = "run"
    /\ UNCHANGED <<v, i, src, opt>>

-----------------------------------------------------------------------------

Places(code, l) == {x \in 1 .. Len(code) : code[x] = LabelU(l)}
Target(code, l) ==
    IF Places(code, l) = {} THEN Len(code) + 1 ELSE CHOOSE x \in Places(code, l) : TRUE

(* Where the unit at x leads to.                                           *)
After(code, x, holds) ==
    CASE code[x].type = "ret" -> Len(code) + 1
      [] code[x].type = "jmp" \/ (code[x].type = "jc" /\ holds) -> Target(code, code[x].id)
      [] OTHER -> x + 1

Same == src \in 1 .. Len(v) /\ opt \in 1 .. Len(ans) /\ v[src] = ans[opt]

Both ==
    /\ at = "run" /\ Same
    /\ \E holds \in BOOLEAN :
           src' = After(v, src, holds) /\ opt' = After(ans, opt, holds)
    /\ UNCHANGED <<v, ans, i, at>>

(* A jump that only the code as it was has.                                *)
SourceJumps ==
    /\ at = "run" /\ ~Same
    /\ src \in 1 .. Len(v) /\ v[src].type = "jmp"
    /\ src' = After(v, src, TRUE)
    /\ UNCHANGED <<v, ans, i, at, opt>>

Next == ReturnSame \/ Continue \/ Push \/ PushLast \/ Both \/ SourceJumps

Spec == Init /\ [][Next]_vars

-----------------------------------------------------------------------------

TypeOK ==
    /\ v \in Seq(Unit) /\ ans \in Seq(Unit)
    /\ i \in Nat \ {0} /\ (at = "loop" /\ Len(v) > 2 => i <= Len(v))
    /\ at \in {"loop", "run"}
    /\ src \in 1 .. Len(v) + 1 /\ opt \in 1 .. Len(ans) + 1

(* Whatever the conditions are, the two codes execute the same units in    *)
(* the same order and end together; the code as it was only jumps over     *)
(* nothing now and then.                                                   *)
InStep ==
    at = "run" =>
        \/ Same
        \/ src = Len(v) + 1 /\ opt = Len(ans) + 1
        \/ /\ src \in 1 .. Len(v) /\ opt \in 1 .. Len(ans)
           /\ v[src].type = "jmp" /\ v[src + 1] = LabelU(v[src].id)
           /\ ans[opt] = v[src + 1]
=============================================================================
