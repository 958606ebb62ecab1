\* A finished compilation stops.
SPECIFICATION LayoutSpec
CONSTANT Input <- MCInput
INVARIANTS TypeOK LocalRight LookupRight
PROPERTY FittingEnds
CHECK_DEADLOCK FALSE
