---------------------------- MODULE DriverProofs ----------------------------
(***************************************************************************)
(* main(): a compilation that fails leaves the output file alone, success  *)
(* means that the code is there or help was asked for, and the first       *)
(* defect that is noticed is the one that is reported, whatever set of     *)
(* defects a source has and however the compiler was built.                *)
(***************************************************************************)
EXTENDS Driver, TLAPS

\* The defects that passes have looked for when main() has got to a stage.
Past(s) ==
    CASE s \in {"arguments", "read", "parse", "trace", "verify"} -> {}
      [] s = "typecheck" -> {"syntax"} \cup VerifyDefects
      [] s = "generate"  -> {"syntax"} \cup VerifyDefects \cup TypecheckDefects
      [] s = "optimize"  -> {"syntax"} \cup VerifyDefects \cup TypecheckDefects \cup GenerateDefects
      [] s = "compile"   -> ({"syntax"} \cup PassDefects) \ CompileDefects
      [] s = "print"     -> Met

Early == {"arguments", "read", "parse"}
Stages == Early \cup {"trace", "verify", "typecheck", "generate", "optimize", "compile", "print"}

\* None of these defects of the source is sure to be noticed.
Tolerated(defects) ==
    \A defect \in source \cap defects : defect # "syntax" /\ ~ Stops(defect)

\* While main() runs, only the parser has reported anything.
Reported ==
    Running => report = IF "syntax" \in source /\ stage \notin Early THEN "syntax" ELSE "none"

\* Only for help does main() end well without having opened the file.
Opened == status # "0" \/ arguments = "help" => file = "old"

\* The inductive invariant.
IInv ==
    /\ arguments \in {"right", "wrong", "help"}
    /\ stage \in Stages
    /\ source \subseteq {"syntax"} \cup PassDefects
    /\ Running => Tolerated(Past(stage))
    /\ Running /\ arguments # "right" => stage = "arguments"
    /\ Opened
    /\ Reported
    /\ ZeroMeansCode
    /\ ReportsFirst

(* A defect belongs to one pass.                                            *)
LEMMA Disjoint ==
    /\ "syntax" \notin PassDefects
    /\ VerifyDefects \cap TypecheckDefects = {}
    /\ (VerifyDefects \cup TypecheckDefects) \cap GenerateDefects = {}
    /\ (VerifyDefects \cup TypecheckDefects \cup GenerateDefects) \cap OptimizeDefects = {}
    /\ (VerifyDefects \cup TypecheckDefects \cup GenerateDefects \cup OptimizeDefects)
          \cap CompileDefects = {}
BY DEF PassDefects, VerifyDefects, TypecheckDefects, ConstantDefects, NameDefects, ArrayDefects,
       GenerateDefects, OptimizeDefects, CompileDefects

(* What a defect does is a matter of the build.                             *)
LEMMA SameBuild ==
    ASSUME debug' = debug, NEW defect
    PROVE  Stops(defect)' <=> Stops(defect)
<1>1. GenerateOutcomes(defect)' = GenerateOutcomes(defect)
  BY DEF GenerateOutcomes, Asserted
<1>2. CompileOutcomes' = CompileOutcomes
  BY DEF CompileOutcomes
<1>3. Outcomes(defect)' = Outcomes(defect)
  BY <1>1, <1>2 DEF Outcomes
<1> QED BY <1>3 DEF Stops

(* What the past holds depends on the mode only.                            *)
LEMMA SamePast == mode' = mode => Past(stage)' = Past(stage') /\ Met' = Met
BY DEF Past, Met

(* Tolerated defects stay so.                                               *)
LEMMA SameTolerated ==
    ASSUME debug' = debug, source' = source, mode' = mode, Tolerated(Past(stage'))
    PROVE  Tolerated(Past(stage))'
BY SameBuild, SamePast DEF Tolerated

(* What no step that changes neither source nor report can disturb.         *)
LEMMA SameReport ==
    ASSUME debug' = debug, source' = source, report' = report, ReportsFirst
    PROVE  ReportsFirst'
<1>1. Earlier(report)' = Earlier(report)
  BY DEF Earlier
<1> QED BY <1>1, SameBuild DEF ReportsFirst

(* What a step that changes neither the source nor the file, and reports    *)
(* nothing, has to bring about.                                             *)
LEMMA Silent ==
    ASSUME IInv, Running, UNCHANGED <<given, source, report, file>>,
           \/ /\ UNCHANGED stage /\ status' \notin {"running", "0"}
           \/ /\ status' = "running" /\ stage' \in Stages
              /\ Tolerated(Past(stage'))
              /\ stage' \notin Early /\ stage \notin Early
    PROVE  IInv'
<1>1. /\ report' = report /\ source' = source /\ file' = file /\ file = "old"
      /\ debug' = debug /\ mode' = mode /\ arguments' = arguments
      /\ stage' \in Stages /\ status' # "0"
  BY DEF IInv, Opened, Running, given
<1>2. (Running => Tolerated(Past(stage)))'
  <2>1. Running' => status' = "running"
    BY DEF Running
  <2> QED BY <1>1, <2>1, SameTolerated
<1>3. Reported'
  BY <1>1 DEF IInv, Reported, Running
<1>4. ReportsFirst'
  BY <1>1, SameReport DEF IInv
<1>5. ZeroMeansCode' /\ Opened'
  BY <1>1 DEF ZeroMeansCode, Opened
<1>6. (Running /\ arguments # "right" => stage = "arguments")'
  BY <1>1 DEF IInv, Running, Early
<1> QED BY <1>1, <1>2, <1>3, <1>4, <1>5, <1>6 DEF IInv

(* A pass that meets a defect reports it, and no earlier pass stops.        *)
LEMMA Failing ==
    ASSUME IInv, Running, NEW defects, NEW defect \in defects \cap source, Fail(defect),
           \/ defects = {"duplicate global"} /\ stage = "verify"
           \/ /\ defects = {"no main"} /\ stage = "verify"
              /\ "duplicate global" \notin source
           \/ defects = TypecheckDefects /\ stage = "typecheck"
           \/ defects = GenerateDefects /\ stage = "generate"
           \/ defects = OptimizeDefects /\ stage = "optimize"
           \/ defects = CompileDefects /\ stage = "compile",
           "syntax" \notin source
    PROVE  IInv'
<1>1. /\ source' = source /\ file' = file /\ file = "old" /\ stage' = stage
      /\ status' \in {"-1", "abort", "signal"}
      /\ report' \in {defect, report}
      /\ debug' = debug /\ arguments' = arguments
  BY DEF Fail, Exit, IInv, Opened, Running, given
<1>2. report = "none"
  BY DEF IInv, Reported
<1>3. Tolerated(Earlier(defect))
  <2>1. Earlier(defect) \cap source \subseteq Past(stage)
    <3>1. CASE stage = "verify"
      BY <3>1 DEF Earlier, TypecheckDefects, ConstantDefects, NameDefects, ArrayDefects,
                  GenerateDefects, OptimizeDefects, CompileDefects
    <3>2. {"duplicate global", "no main"} \subseteq VerifyDefects /\ defect # "syntax"
      BY DEF VerifyDefects
    <3>3. CASE defects = TypecheckDefects /\ stage = "typecheck"
      <4>1. Earlier(defect) = {"syntax"} \cup VerifyDefects
        BY <3>2, <3>3, Disjoint DEF Earlier
      <4> QED BY <3>3, <4>1 DEF Past
    <3>4. CASE defects = GenerateDefects /\ stage = "generate"
      <4>1. Earlier(defect) = {"syntax"} \cup VerifyDefects \cup TypecheckDefects
        BY <3>2, <3>4, Disjoint DEF Earlier
      <4> QED BY <3>4, <4>1 DEF Past
    <3>5. CASE defects = OptimizeDefects /\ stage = "optimize"
      <4>1. Earlier(defect) =
              {"syntax"} \cup VerifyDefects \cup TypecheckDefects \cup GenerateDefects
        BY <3>2, <3>5, Disjoint DEF Earlier
      <4> QED BY <3>5, <4>1 DEF Past
    <3>6. CASE defects = CompileDefects /\ stage = "compile"
      <4>1. Earlier(defect) = ({"syntax"} \cup PassDefects) \ CompileDefects
        BY <3>2, <3>6, Disjoint DEF Earlier
      <4> QED BY <3>6, <4>1 DEF Past
    <3> QED BY <3>1, <3>3, <3>4, <3>5, <3>6
  <2> QED BY <2>1 DEF IInv, Tolerated
<1>4. ReportsFirst'
  <2>1. CASE report' = "none"
    BY <2>1 DEF ReportsFirst
  <2>2. CASE report' = defect
    <3>1. Earlier(report)' = Earlier(defect)
      BY <2>2 DEF Earlier
    <3>2. \A d : Stops(d)' <=> Stops(d)
      BY <1>1, SameBuild
    <3>3. \A d \in source \cap Earlier(defect) : d # "syntax" /\ ~ Stops(d)'
      BY <1>3, <3>2 DEF Tolerated
    <3> QED BY <1>1, <2>2, <3>1, <3>3 DEF ReportsFirst
  <2> QED BY <1>1, <1>2, <2>1, <2>2
<1>5. Reported' /\ ZeroMeansCode' /\ Opened'
  BY <1>1 DEF Reported, Running, ZeroMeansCode, Opened
<1> QED BY <1>1, <1>4, <1>5 DEF IInv, Running

(* The invariant holds initially.                                           *)
LEMMA InitInv == Init => IInv
BY DEF Init, IInv, Stages, Early, Past, Tolerated, Reported, Opened, Running, ZeroMeansCode,
       ReportsFirst

(* The steps before the first pass.                                         *)
LEMMA Preparing ==
    ASSUME IInv, ParseArguments \/ ReadInput \/ Parse
    PROVE  IInv'
<1>1. Running /\ file' = file /\ file = "old" /\ UNCHANGED given
  BY DEF ParseArguments, ReadInput, Parse, IInv, Opened, Running
<1>2. debug' = debug /\ mode' = mode /\ arguments' = arguments
  BY <1>1 DEF given
<1>3. CASE ParseArguments
  <2>1. /\ stage = "arguments" /\ UNCHANGED <<source, report>>
        /\ \/ stage' = "read" /\ status' = "running" /\ arguments = "right"
           \/ stage' = stage /\ status' = "1" /\ arguments # "right"
           \/ stage' = stage /\ status' = "0" /\ arguments = "help"
    BY <1>3, <1>1 DEF ParseArguments, Go, Exit, Running, IInv
  <2>2. ReportsFirst'
    BY <2>1, <1>2, SameReport DEF IInv
  <2>3. Tolerated(Past(stage))'
    BY <2>1 DEF Past, Tolerated
  <2>4. ZeroMeansCode' /\ Reported' /\ Opened'
    BY <1>1, <1>2, <2>1 DEF ZeroMeansCode, Reported, Opened, Running, IInv, Early
  <2> QED BY <1>1, <1>2, <2>1, <2>2, <2>3, <2>4 DEF IInv, Stages, Early, Running
<1>4. CASE ReadInput
  <2>1. /\ stage = "read" /\ stage' = "parse" /\ status' = "running"
        /\ report' = report
        /\ source' = source \/ source' = {"no main"}
    BY <1>4, <1>1 DEF ReadInput, Go, Running
  <2>2. report = "none" /\ source' \subseteq {"syntax"} \cup PassDefects
    BY <1>1, <2>1 DEF IInv, Reported, PassDefects, VerifyDefects, Early
  <2>3. Tolerated(Past(stage))'
    BY <2>1 DEF Past, Tolerated
  <2>4. ZeroMeansCode' /\ Reported' /\ Opened' /\ ReportsFirst'
    BY <1>1, <1>2, <2>1, <2>2 DEF ZeroMeansCode, Reported, Opened, ReportsFirst, Running, Early
  <2> QED BY <1>1, <1>2, <2>1, <2>2, <2>3, <2>4 DEF IInv, Stages, Early, Running
<1>5. CASE Parse
  <2>1. /\ stage = "parse" /\ stage' = "trace" /\ status' = "running"
        /\ source' = source
        /\ report' = IF "syntax" \in source THEN "syntax" ELSE report
    BY <1>5, <1>1 DEF Parse, Go, Running
  <2>2. report = "none"
    BY <1>1, <2>1 DEF IInv, Reported, Early
  <2>3. Tolerated(Past(stage))'
    BY <2>1 DEF Past, Tolerated
  <2>4. ReportsFirst'
    <3>1. \/ report' = "none"
          \/ report' = "syntax" /\ "syntax" \in source'
      <4>1. CASE "syntax" \in source
        BY <2>1, <4>1
      <4>2. CASE "syntax" \notin source
        BY <2>1, <2>2, <4>2
      <4> QED BY <4>1, <4>2
    <3>2. "syntax" \notin TypecheckDefects \cup GenerateDefects \cup OptimizeDefects
                             \cup CompileDefects
      BY Disjoint DEF PassDefects
    <3>3. report' = "syntax" => Earlier(report)' = {}
      BY <3>2 DEF Earlier
    <3> QED BY <3>1, <3>3 DEF ReportsFirst
  <2>5. ZeroMeansCode' /\ Reported' /\ Opened'
    BY <1>1, <1>2, <2>1, <2>2 DEF ZeroMeansCode, Reported, Opened, Running, Early
  <2> QED BY <1>1, <1>2, <2>1, <2>3, <2>4, <2>5 DEF IInv, Stages, Early, Running
<1> QED BY <1>3, <1>4, <1>5

\* What passes look for, by the stage they are at.
PassOf(name, defects, next) ==
    \/ /\ name = "verify" /\ next = "typecheck"
       /\ defects = IF "duplicate global" \in source THEN {"duplicate global"} ELSE {"no main"}
    \/ name = "typecheck" /\ defects = TypecheckDefects /\ next = "generate"
    \/ name = "generate" /\ defects = GenerateDefects /\ next = "optimize"
    \/ /\ name = "optimize" /\ defects = OptimizeDefects
       /\ next = IF mode = "eeyore" THEN "print" ELSE "compile"
    \/ /\ name = "compile" /\ defects = CompileDefects /\ next = "print"

(* Going on to the next pass, when nothing stops this one.                  *)
LEMMA GoingOn ==
    ASSUME IInv, NEW name, NEW defects, NEW next, PassOf(name, defects, next),
           Running, stage = name, \A defect \in defects \cap source : ~ Stops(defect), Go(next),
           UNCHANGED <<given, source, report, file>>, "syntax" \notin source
    PROVE  IInv'
<1>1. stage' = next /\ status' = "running"
  BY DEF Go, Running
<1>2. Tolerated(Past(stage))
  BY DEF IInv
<1>3. Stops("duplicate global")
  <2>1. Outcomes("duplicate global") = {"runtime_error"}
    BY DEF Outcomes, VerifyDefects, ConstantDefects, NameDefects, ArrayDefects, GenerateDefects,
           OptimizeDefects, CompileDefects
  <2> QED BY <2>1 DEF Stops
<1>4. source \cap Past(next) \subseteq Past(stage) \cup defects
  <2>1. CASE name = "verify"
    BY <2>1, <1>3 DEF PassOf, Past, VerifyDefects
  <2>2. CASE name \in {"typecheck", "generate"}
    BY <2>2 DEF PassOf, Past
  <2>3. CASE name = "optimize" /\ mode = "eeyore"
    BY <2>3 DEF PassOf, Past, Met
  <2>4. CASE name = "optimize" /\ mode # "eeyore"
    BY <2>4 DEF PassOf, Past, PassDefects
  <2>5. CASE name = "compile"
    BY <2>5 DEF PassOf, Past, Met, PassDefects
  <2> QED BY <2>1, <2>2, <2>3, <2>4, <2>5 DEF PassOf
<1>5. Tolerated(Past(next))
  BY <1>2, <1>4 DEF Tolerated
<1>6. next \in Stages /\ next \notin Early /\ stage \notin Early
  BY DEF PassOf, Stages, Early
<1> QED BY <1>1, <1>5, <1>6, Silent

(* A pass fails or goes on.                                                 *)
LEMMA Passing ==
    ASSUME IInv, NEW name, NEW defects, NEW next, PassOf(name, defects, next),
           Pass(name, defects, next), "syntax" \notin source
    PROVE  IInv'
<1>1. Running /\ stage = name
  BY DEF Pass
<1>2. CASE \E defect \in defects \cap source : Fail(defect)
  <2>1. PICK defect \in defects \cap source : Fail(defect)
    BY <1>2
  <2>2. \/ defects = {"duplicate global"} /\ stage = "verify"
        \/ /\ defects = {"no main"} /\ stage = "verify"
           /\ "duplicate global" \notin source
        \/ defects = TypecheckDefects /\ stage = "typecheck"
        \/ defects = GenerateDefects /\ stage = "generate"
        \/ defects = OptimizeDefects /\ stage = "optimize"
        \/ defects = CompileDefects /\ stage = "compile"
    BY <1>1 DEF PassOf
  <2> QED BY <1>1, <2>1, <2>2, Failing
<1>3. CASE /\ \A defect \in defects \cap source : ~ Stops(defect)
           /\ Go(next) /\ UNCHANGED <<given, source, report, file>>
  BY <1>1, <1>3, GoingOn
<1> QED BY <1>2, <1>3 DEF Pass

(* Past the first pass there is no syntax error.                            *)
LEMMA NoSyntaxError ==
    ASSUME IInv, Running, stage \in {"typecheck", "generate", "optimize", "compile", "print"}
    PROVE  "syntax" \notin source
<1>1. "syntax" \in Past(stage)
  BY DEF Past, Met, CompileDefects
<1> QED BY <1>1 DEF IInv, Tolerated

(* Every step keeps the invariant.                                          *)
LEMMA NextInv == IInv /\ [Next]_vars => IInv'
<1> SUFFICES ASSUME IInv, [Next]_vars PROVE IInv'
  OBVIOUS
<1>1. CASE UNCHANGED vars
  <2>1. /\ UNCHANGED <<arguments, mode, debug, disk, source, stage, report, file, status>>
    BY <1>1 DEF vars
  <2>2. ReportsFirst'
    BY <2>1, SameReport DEF IInv
  <2>3. (Running => Tolerated(Past(stage)))'
    BY <2>1, SameTolerated DEF IInv, Running
  <2>4. ZeroMeansCode'
    <3>1. Met' = Met
      BY <2>1 DEF Met
    <3>2. \A d : Stops(d)' <=> Stops(d)
      BY <2>1, SameBuild
    <3> QED BY <2>1, <3>1, <3>2 DEF ZeroMeansCode, IInv
  <2> QED BY <2>1, <2>2, <2>3, <2>4 DEF IInv, Opened, Reported, Running
<1>2. CASE ParseArguments \/ ReadInput \/ Parse
  BY <1>2, Preparing
<1>3. CASE Trace
  <2>1. /\ Running /\ stage = "trace" /\ UNCHANGED <<given, source, report, file>>
        /\ \/ stage' = stage /\ status' = "signal"
           \/ stage' = "verify" /\ status' = "running"
    BY <1>3 DEF Trace, Exit, Go, Running
  <2>2. Tolerated(Past("verify")) /\ "verify" \in Stages /\ {"trace", "verify"} \cap Early = {}
    BY DEF Past, Tolerated, Stages, Early
  <2> QED BY <2>1, <2>2, Silent
<1>4. CASE verify
  <2>1. CASE "syntax" \in source
    <3>1. /\ Running /\ UNCHANGED <<given, source, report, file>>
          /\ stage' = stage /\ status' = "signal"
      BY <1>4, <2>1 DEF verify, Exit
    <3> QED BY <3>1, Silent
  <2>2. CASE "syntax" \notin source
    <3>1. Pass("verify",
               IF "duplicate global" \in source THEN {"duplicate global"} ELSE {"no main"},
               "typecheck")
      BY <1>4, <2>2 DEF verify
    <3> DEFINE sought == IF "duplicate global" \in source THEN {"duplicate global"}
                                                           ELSE {"no main"}
    <3>2. PassOf("verify", sought, "typecheck")
      BY DEF PassOf
    <3>3. Pass("verify", sought, "typecheck")
      BY <3>1
    <3> HIDE DEF sought
    <3> QED BY <2>2, <3>2, <3>3, Passing
  <2> QED BY <2>1, <2>2
<1>5. CASE typecheck
  <2>1. "syntax" \notin source
    BY <1>5, NoSyntaxError DEF typecheck, Pass
  <2>2. PassOf("typecheck", TypecheckDefects, "generate")
    BY DEF PassOf
  <2> QED BY <1>5, <2>1, <2>2, Passing DEF typecheck
<1>6. CASE generate_eeyore
  <2>1. "syntax" \notin source
    BY <1>6, NoSyntaxError DEF generate_eeyore, Pass
  <2>2. PassOf("generate", GenerateDefects, "optimize")
    BY DEF PassOf
  <2> QED BY <1>6, <2>1, <2>2, Passing DEF generate_eeyore
<1>7. CASE optimize
  <2>1. "syntax" \notin source
    BY <1>7, NoSyntaxError DEF optimize, Pass
  <2> DEFINE next == IF mode = "eeyore" THEN "print" ELSE "compile"
  <2>2. PassOf("optimize", OptimizeDefects, next)
    BY DEF PassOf
  <2>3. Pass("optimize", OptimizeDefects, next)
    BY <1>7 DEF optimize
  <2> HIDE DEF next
  <2> QED BY <2>1, <2>2, <2>3, Passing
<1>8. CASE compile
  <2>1. "syntax" \notin source
    BY <1>8, NoSyntaxError DEF compile, Pass
  <2>2. PassOf("compile", CompileDefects, "print")
    BY DEF PassOf
  <2> QED BY <1>8, <2>1, <2>2, Passing DEF compile
<1>9. CASE Write
  <2>1. /\ Running /\ stage = "print" /\ stage' = stage /\ status' = "0"
        /\ UNCHANGED <<given, source, report>>
        /\ disk = "good" => file' = mode
    BY <1>9 DEF Write, Exit
  <2>2. "syntax" \notin source /\ Tolerated(Met)
    BY <2>1, NoSyntaxError DEF IInv, Past
  <2>3. /\ report' = report /\ source' = source /\ disk' = disk /\ mode' = mode
        /\ debug' = debug /\ arguments' = arguments
    BY <2>1 DEF given
  <2>4. ReportsFirst'
    BY <2>3, SameReport DEF IInv
  <2>5. ZeroMeansCode'
    <3>1. Met' = Met
      BY <2>3 DEF Met
    <3>2. \A d : Stops(d)' <=> Stops(d)
      BY <2>3, SameBuild
    <3> QED BY <2>1, <2>2, <2>3, <3>1, <3>2 DEF ZeroMeansCode, Tolerated
  <2>6. arguments = "right"
    BY <2>1 DEF IInv
  <2> QED BY <2>1, <2>3, <2>4, <2>5, <2>6 DEF IInv, Opened, Reported, Running
<1> QED BY <1>1, <1>2, <1>3, <1>4, <1>5, <1>6, <1>7, <1>8, <1>9 DEF Next

(* The invariant that the theorems below rest on.                           *)
THEOREM Inductive == Spec => []IInv
BY InitInv, NextInv, PTL DEF Spec

(* main() touches the output file only when it is about to succeed, and not *)
(* when it has been asked for help.                                         *)
THEOREM FileIsUntouched == Spec => []Untouched
<1>1. IInv => Untouched
  BY DEF IInv, Opened, Untouched
<1> QED BY <1>1, Inductive, PTL

(* Exit status 0 means that help was asked for, or that no defect that this *)
(* build is sure to notice is in the source and the code is there, as far   *)
(* as the disk holds it.                                                    *)
THEOREM SuccessMeansCode == Spec => []ZeroMeansCode
BY Inductive, PTL DEF IInv

(* main() reports a defect of the source, and one that no earlier pass is   *)
(* sure to have met another before.                                         *)
THEOREM FirstIsReported == Spec => []ReportsFirst
BY Inductive, PTL DEF IInv
=============================================================================
