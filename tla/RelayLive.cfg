SPECIFICATION FairSpec
CONSTANTS
    alice = alice
    bob = bob
    a1 = a1
    b1 = b1
    b2 = b2
    home = home
    cafe = cafe
    m1 = m1
    m2 = m2
    None = None
    Peer = {alice, bob}
    Conn = {a1, b1, b2}
    Ip = {home, cafe}
    Msg = {m1, m2}
    Client <- MCClient
    Addr <- MCOwnAddr
    Sender <- MCSender
    Recipient <- MCRecipient
    MaxPerIp = 1
    Capacity = 2
    RateLimit = 1
    MaxCrashes = 0
CHECK_DEADLOCK FALSE
PROPERTIES
    BrokenConnectionEnds
    FoundRowsAreWritten
