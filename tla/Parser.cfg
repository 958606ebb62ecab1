CONSTANT Texts <- MCTexts
SPECIFICATION Spec
INVARIANT RoundTrip
INVARIANT NothingInvented
CHECK_DEADLOCK FALSE
