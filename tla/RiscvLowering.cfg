SPECIFICATION Spec
CONSTANTS
    Pool = {"a0", "s0"}
    CallerSaved = {"a0"}
    WordBits = 7
    ImmBits = 3
    Align = 16
    Table <- MCTable
    Imm <- MCImm
    Global = {0, 1}
    GloAddr <- MCGloAddr
    Frames = {4, 8}
    Begin <- MCBegin
    CallerSp = 48
    MaxUnits = 1
INVARIANTS TypeOK Encodable UnitsImplemented ReturnsToCaller
PROPERTY NothingBelowSp
CHECK_DEADLOCK FALSE
