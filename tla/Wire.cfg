SPECIFICATION Spec
CONSTANTS
    alice = alice
    bob = bob
    a = a
    b = b
    d = d
    x = x
    y = y
    Client = {alice, bob}
    Message = {a, b, d, x}
    From <- MCFrom
    To <- MCTo
    Large = {d}
    HighWater = 0
    MaxTimeouts = 2
CHECK_DEADLOCK FALSE
INVARIANTS
    TypeOK
    HandledInOrder
    OneWayNeverJams
PROPERTY
    Settles
