SPECIFICATION Spec
CONSTANTS
    a = a
    b = b
    f = f
    Name = {a, b, f}
    Library = {f}
    MaxNodes = 3
    MaxEnvs = 4
SYMMETRY Renamings
INVARIANT TypeOK
INVARIANT LateLookup
INVARIANT DistinctIds
PROPERTY ImplementsScoping
CHECK_DEADLOCK FALSE
