SPECIFICATION Spec
CONSTANTS
    bob = bob
    Other = {bob}
    None = None
    Threshold = 3
    Period = 2
    Retry = 1
    Attempt = 1
    Store = 0
    Find = 1
INVARIANTS
    TypeOK
    PresenceIsFresh
    DotCorrectsItself
