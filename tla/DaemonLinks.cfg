SPECIFICATION FairSpec
CONSTANTS
    R1 = R1
    R2 = R2
    None = None
    Host = {R1, R2}
    Known = {R1}
    MaxConns = 4
    MaxFaults = 2
CHECK_DEADLOCK FALSE
INVARIANTS
    TypeOK
    WriterIsListened
    HomeRelayIsServed
    ListenersBounded
PROPERTIES
    Reconnected
    StoppedForGood
