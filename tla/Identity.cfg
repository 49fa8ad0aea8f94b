SPECIFICATION Spec
CONSTANTS
    p1 = p1
    p2 = p2
    i1 = i1
    i2 = i2
    i3 = i3
    Proc = {p1, p2}
    Ident = {i1, i2, i3}
    None = None
    Torn = Torn
    MaxRuns = 5
SYMMETRY Symmetry
CHECK_DEADLOCK FALSE
INVARIANTS
    TypeOK
    NothingSurvives
PROPERTY
    KeyIsKept
