SPECIFICATION Spec
CONSTANTS
    alice = alice
    bob = bob
    a1 = a1
    b1 = b1
    b2 = b2
    home = home
    cafe = cafe
    m1 = m1
    m2 = m2
    None = None
    Peer = {alice, bob}
    Conn = {a1, b1, b2}
    Ip = {home}
    Msg = {m1}
    Client <- MCClient
    Addr <- MCAddr
    Sender <- MCSender
    Recipient <- MCRecipient
    MaxPerIp = 3
    Capacity = 2
    RateLimit = 1
    MaxCrashes = 1
CHECK_DEADLOCK FALSE
INVARIANTS
    TypeOK
    OnlineIsServing
    IpAccounting
    Custody
    EveryPublishAnswered
    ReceiptCustody
PROPERTIES
    RowsLeaveOnlyWritten
    ImplementsMailbox
