SPECIFICATION Spec
CONSTANTS
    Global <- MCGlobal
    Fun <- MCFun
    Reach <- MCReach
    Word = {0, 4}
    Un <- MCUn
    Bin <- MCBin
    NArg = 1
    NSpill = 1
    NTemp = 3
    NSave = 3
    FirstSpill = 3
    Frame = 100
    GlobalBase <- MCGlobalBase
INVARIANTS TypeOK MemoryHoldsEnv ArgsInPlace SameEvents CalleeSaved
