CONSTANTS
    Globals <- MCGlobals
    Functions <- MCFunctions
    Mains <- MCMains
    Width = 28
    MaxEvents = 8
    LogSteps = 9
SPECIFICATION Spec
INVARIANTS
    GeneratedRight
    OptimisedRight
    StopsForAReason
    Ready
    LabelsRight
    EverythingDeclared
CHECK_DEADLOCK FALSE
