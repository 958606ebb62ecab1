SPECIFICATION Spec
CONSTANT Sources <- MCSources
INVARIANT TypeOK
INVARIANT LongestMatch
INVARIANT PositionsRight
PROPERTY Answers
CHECK_DEADLOCK FALSE
