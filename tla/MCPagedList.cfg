\* A client reads a filtered list in pages of two.
SPECIFICATION Spec
CONSTANTS
    a = a
    b = b
    c = c
    d = d
    e = e
    f = f
    Rows = {a, b, c, d, e, f}
    CreatedAt <- OneTie
    Requested = 2
    MaxDepartures = 3
INVARIANTS
    TypeOK
    MissesAreBounded
CHECK_DEADLOCK FALSE
