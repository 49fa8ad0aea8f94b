SPECIFICATION Spec
CONSTANTS
    p1 = p1
    p2 = p2
    i1 = i1
    i2 = i2
    i3 = i3
    Proc = {p1}
    Ident = {i1}
    None = None
    Torn = Torn
    MaxRuns = 2
CHECK_DEADLOCK FALSE
INVARIANT
    EverythingNuked
