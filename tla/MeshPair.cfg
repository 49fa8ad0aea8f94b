SPECIFICATION FairSpec
CONSTANTS
    R1 = R1
    R2 = R2
    R3 = R3
    bob = bob
    m1 = m1
    k1 = k1
    l12 = l12
    l21 = l21
    l13 = l13
    None = None
    Relay = {R1, R2}
    Peer = {bob}
    Link = {l12}
    Mail = {m1, k1}
    Receipts = {k1}
    Dialer <- MCDialer
    Acceptor <- MCAcceptor
    Source <- MCSource
    Dest <- MCDest
    MaxJoins = 3
    MaxResets = 1
    MaxCuts = 1
CHECK_DEADLOCK FALSE
INVARIANTS
    TypeOK
    MeshCustody
    PresenceAgrees
    LinkTables
PROPERTY
    PresenceConverges
