SPECIFICATION Spec
CONSTANT Sources <- ShortSources
INVARIANT RangesInFile
CHECK_DEADLOCK FALSE
