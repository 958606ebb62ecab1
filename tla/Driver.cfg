SPECIFICATION Spec
CONSTANT MaxDefects = 3
INVARIANT Untouched
INVARIANT ZeroMeansCode
INVARIANT ReportsFirst
CHECK_DEADLOCK FALSE
