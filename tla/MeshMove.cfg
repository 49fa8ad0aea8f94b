SPECIFICATION Spec
CONSTANTS
    R1 = R1
    R2 = R2
    R3 = R3
    bob = bob
    m1 = m1
    k1 = k1
    l12 = l12
    l21 = l21
    l13 = l13
    None = None
    Relay = {R1, R2, R3}
    Peer = {bob}
    Link = {l12, l13}
    Mail = {}
    Receipts = {}
    Dialer <- MCDialer
    Acceptor <- MCAcceptor
    Source <- MCSource
    Dest <- MCDest
    MaxJoins = 2
    MaxResets = 0
    MaxCuts = 0
CHECK_DEADLOCK FALSE
INVARIANT
    PresenceAgrees
