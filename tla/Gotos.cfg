SPECIFICATION Spec
CONSTANTS
    Label = {1, 2}
    Work = {"work"}
    Codes <- MCCodes
INVARIANT TypeOK
INVARIANT InStep
CHECK_DEADLOCK FALSE
