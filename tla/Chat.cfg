SPECIFICATION Spec
CONSTANTS
    alice = alice
    bob = bob
    a = a
    x = x
    y = y
    l1 = l1
    l2 = l2
    None = None
    Peer = {alice, bob}
    Sent = {a}
    Received = {x, y}
    PeerOf <- MCPeerOf
    DialogPeer = {alice}
    KnownPeer = {bob}
    Listener = {l1, l2}
    Limit = 1
    RecentLength = 1
    MaxFrames = 2
    MaxRestarts = 1
SYMMETRY Symmetry
CHECK_DEADLOCK FALSE
INVARIANTS
    TypeOK
    NoFalseTick
    TicksAgree
    ShownIfSaved
    NothingOverlooked
    SavedOncePerSession
    AckedIsSavedOrLost
PROPERTY
    StatusNeverRegresses
