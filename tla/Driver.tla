------------------------------- MODULE Driver -------------------------------
(***************************************************************************)
(* main() (main.cpp): the passes in their order, what each one does with a *)
(* source that has defects, and what is left in the output file.  Only     *)
(* std::runtime_error is caught; other exceptions and assertions abort,    *)
(* C_ERROR exits, and a null pointer or a division by zero kills.  Memory  *)
(* and stack suffice for whatever ends.                                    *)
(***************************************************************************)
EXTENDS Integers, FiniteSets

CONSTANT MaxDefects      \* of one source

Mode == {"eeyore", "tigger", "riscv"}

VARIABLES
    arguments,      \* what the command line is
    trace, mode,    \* its options
    debug,          \* whether the compiler was built without NDEBUG
    disk,           \* what happens to what is written
    source,         \* the defects of the text
    stage,
    report,         \* the defect that is reported
    file,           \* the output file
    status

vars == <<arguments, trace, mode, debug, disk, source, stage, report, file, status>>
given == <<arguments, trace, mode, debug, disk>>

-----------------------------------------------------------------------------
(* What is wrong with a source, by the pass that meets it, and how the pass *)
(* may take it.                                                            *)

(* Behaviour that the language leaves undefined.                           *)
Undefined == {"signal", "exception", "goes on"}

(* assert(), and what comes of it in a build without assertions.           *)
Asserted(otherwise) == IF debug THEN {"exception"} ELSE otherwise

VerifyDefects == {"duplicate global", "no main"}

(* Constants and dimensions, names, initialisers of arrays.                *)
ConstantDefects == {"inconstant name", "call in a constant", "constant without value",
                    "array as a constant", "faulting constant"}
NameDefects == {"unknown name"}
ArrayDefects == {"rows of nothing", "deep braces", "negative length", "too many elements"}
TypecheckDefects == ConstantDefects \cup NameDefects \cup ArrayDefects

ConstantOutcomes(defect) ==
    CASE defect \in {"inconstant name", "call in a constant", "constant without value"} ->
            {"runtime_error"}
      [] defect = "array as a constant" -> {"exception"}
      [] defect = "faulting constant" -> {"signal"}

(* A list that is too long is expanded until there is no memory.           *)
ArrayOutcomes(defect) ==
    CASE defect = "rows of nothing" -> {"signal"}
      [] defect = "deep braces" -> Undefined
      [] defect = "negative length" -> {"exception"}
      [] defect = "too many elements" -> {"exception", "signal"}

GenerateDefects == {"break without a loop", "function as a variable", "variable as a function",
                    "array as a scalar", "scalar with an index"}

GenerateOutcomes(defect) ==
    CASE defect = "break without a loop" -> {"exception"}
      [] defect = "function as a variable" -> {"runtime_error"}
      [] defect = "variable as a function" -> Asserted({"signal"})
      [] defect = "array as a scalar" -> Asserted({"goes on"})
      [] defect = "scalar with an index" -> Asserted(Undefined)

OptimizeDefects == {"literals that fault"}

(* A thirteenth argument or parameter has no register.                     *)
CompileDefects == {"too many arguments"}
CompileOutcomes == IF debug THEN {"exit"} ELSE Undefined

PassDefects ==
    VerifyDefects \cup TypecheckDefects \cup GenerateDefects \cup OptimizeDefects
      \cup CompileDefects

Outcomes(defect) ==
    CASE defect \in VerifyDefects -> {"runtime_error"}
      [] defect \in ConstantDefects -> ConstantOutcomes(defect)
      [] defect \in NameDefects -> {"exception"}
      [] defect \in ArrayDefects -> ArrayOutcomes(defect)
      [] defect \in GenerateDefects -> GenerateOutcomes(defect)
      [] defect \in OptimizeDefects -> {"signal"}
      [] defect \in CompileDefects -> CompileOutcomes

(* Whether the pass that meets a defect surely ends.                       *)
Stops(defect) == "goes on" \notin Outcomes(defect)

-----------------------------------------------------------------------------

Init ==
    /\ arguments \in {"right", "wrong", "help"}
    /\ trace \in BOOLEAN /\ mode \in Mode /\ debug \in BOOLEAN
    /\ disk \in {"good", "no such directory", "full"}
    /\ source \in {s \in SUBSET ({"syntax"} \cup PassDefects) : Cardinality(s) <= MaxDefects}
    /\ stage = "arguments"
    /\ report = "none"
    /\ file = "old"
    /\ status = "running"

Running == status = "running"

Exit(code) == status' = code /\ UNCHANGED stage
Go(next) == stage' = next /\ UNCHANGED status

(* --help and --version are answered in parse_args(), which then exits.    *)
ParseArguments ==
    /\ Running /\ stage = "arguments"
    /\ CASE arguments = "right" -> Go("read")
         [] arguments = "wrong" -> Exit("1")
         [] arguments = "help"  -> Exit("0")
    /\ UNCHANGED <<given, source, report, file>>

(* A file that cannot be read is an empty one.                             *)
ReadInput ==
    /\ Running /\ stage = "read"
    /\ Go("parse")
    /\ \/ UNCHANGED <<source>>
       \/ source' = {"no main"}
    /\ UNCHANGED <<given, report, file>>

(* A syntax error is reported, and answered with a null pointer.           *)
Parse ==
    /\ Running /\ stage = "parse"
    /\ Go("trace")
    /\ report' = IF "syntax" \in source THEN "syntax" ELSE report
    /\ UNCHANGED <<given, source, file>>

(* toJSON() of the tree, which may be the null pointer, in a build that    *)
(* logs.                                                                   *)
Trace ==
    /\ Running /\ stage = "trace"
    /\ IF debug /\ trace /\ "syntax" \in source THEN Exit("signal") ELSE Go("verify")
    /\ UNCHANGED <<given, source, report, file>>

FailForgotten(defect) ==
    /\ \/ "runtime_error" \in Outcomes(defect) /\ Exit("0") /\ report' = defect
       \/ "exit" \in Outcomes(defect) /\ Exit("-1") /\ report' = defect
       \/ "exception" \in Outcomes(defect) /\ Exit("abort") /\ report' = defect
       \/ "signal" \in Outcomes(defect) /\ Exit("signal") /\ UNCHANGED report
    /\ UNCHANGED <<given, source, file>>

(* The end of main(), for a pass that meets a defect; C_ERROR exits with   *)
(* the status that main() returns.                                         *)
Fail(defect) ==
    /\ \/ Outcomes(defect) \cap {"runtime_error", "exit"} # {} /\ Exit("-1") /\ report' = defect
       \/ "exception" \in Outcomes(defect) /\ Exit("abort") /\ report' = defect
       \/ "signal" \in Outcomes(defect) /\ Exit("signal") /\ UNCHANGED report
    /\ UNCHANGED <<given, source, file>>

(* A pass ends with one of the defects that it meets, or goes on to the    *)
(* next pass if none of them stops it.                                     *)
Pass(name, defects, next) ==
    /\ Running /\ stage = name
    /\ \/ \E defect \in defects \cap source : Fail(defect)
       \/ /\ \A defect \in defects \cap source : ~ Stops(defect)
          /\ Go(next)
          /\ UNCHANGED <<given, source, report, file>>

verifyFunctions ==
    /\ "syntax" \notin source
    /\ Pass("verify", {"no main"}, "typecheck")

(* distinct_globals() reads the tree, which may be the null pointer, and   *)
(* asks for main() last.                                                   *)
verify ==
    \/ /\ Running /\ stage = "verify" /\ "syntax" \in source
       /\ Exit("signal")
       /\ UNCHANGED <<given, source, report, file>>
    \/ /\ "syntax" \notin source
       /\ Pass("verify",
               IF "duplicate global" \in source THEN {"duplicate global"} ELSE {"no main"},
               "typecheck")

typecheck == Pass("typecheck", TypecheckDefects, "generate")

generate_eeyoreOpens ==
    /\ Running /\ stage = "generate"
    /\ file' = "empty"
    /\ \/ /\ GenerateDefects \cap source = {} /\ Go("optimize")
          /\ UNCHANGED report
       \/ \E defect \in GenerateDefects \cap source :
              Exit("abort") /\ report' = defect
    /\ UNCHANGED <<given, source>>

generate_eeyore == Pass("generate", GenerateDefects, "optimize")

optimize == Pass("optimize", OptimizeDefects, IF mode = "eeyore" THEN "print" ELSE "compile")

(* What Dashie, Tigger and RISC-V take and Eeyore does not.                *)
compile == Pass("compile", CompileDefects, "print")

(* The text is complete before the file is opened, and nothing is asked of *)
(* the stream after that.                                                  *)
Write ==
    /\ Running /\ stage = "print"
    /\ file' = CASE disk = "good" -> mode
                 [] disk = "full" -> "empty"
                 [] disk = "no such directory" -> file
    /\ Exit("0")
    /\ UNCHANGED <<given, source, report>>

Next ==
    \/ ParseArguments \/ ReadInput \/ Parse \/ Trace
    \/ verify \/ typecheck \/ generate_eeyore \/ optimize \/ compile \/ Write

Spec == Init /\ [][Next]_vars

-----------------------------------------------------------------------------

(* When no program comes out, because something is wrong or help was asked *)
(* for, the output file is what it was.                                    *)
Untouched ==
    status \notin {"running", "0"} \/ arguments = "help" => file = "old"

(* The defects that the passes of a mode look at.                          *)
Met == {"syntax"} \cup VerifyDefects \cup TypecheckDefects \cup GenerateDefects
         \cup OptimizeDefects \cup (IF mode = "eeyore" THEN {} ELSE CompileDefects)

(* Success is answered to a command line that asks for help, or for a      *)
(* source whose defects, if any, are of those that this build lets pass,   *)
(* and then, as far as the disk can hold it, the code is there.            *)
ZeroMeansCode ==
    status = "0" /\ arguments # "help" =>
        /\ "syntax" \notin source
        /\ \A defect \in source \cap Met : ~ Stops(defect)
        /\ disk = "good" => file = mode

(* The defects that a pass before the one of this defect looks for.        *)
Earlier(defect) ==
    CASE defect = "syntax" -> {}
      [] defect = "duplicate global" -> {"syntax"}
      [] defect = "no main" -> {"syntax", "duplicate global"}
      [] defect \in TypecheckDefects -> {"syntax"} \cup VerifyDefects
      [] defect \in GenerateDefects -> {"syntax"} \cup VerifyDefects \cup TypecheckDefects
      [] defect \in OptimizeDefects ->
            {"syntax"} \cup VerifyDefects \cup TypecheckDefects \cup GenerateDefects
      [] defect \in CompileDefects -> ({"syntax"} \cup PassDefects) \ CompileDefects

(* What is reported is wrong with the source, and whatever an earlier pass *)
(* would have met first is of the kind that this build may let pass.       *)
ReportsFirst ==
    report # "none" =>
        /\ report \in source
        /\ \A defect \in source \cap Earlier(report) : defect # "syntax" /\ ~ Stops(defect)
=============================================================================
