SPECIFICATION LayoutSpec
CONSTANT Input <- MCOverfull
PROPERTY Terminates
CHECK_DEADLOCK FALSE
