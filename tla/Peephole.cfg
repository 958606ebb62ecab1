SPECIFICATION TSpec
CONSTANTS
    Reg = {r1, r2}
    CallerSaved = {r1}
    Val = {0, 1}
    Slot = {0, 4}
    ArrBase = {200}
    Glo = {100, 101}
    GloAddr <- MCGloAddr
    StkAddr <- MCStkAddr
    None = None
INVARIANTS TypeOK AliasSound Agree
PROPERTY ImplementsSource
