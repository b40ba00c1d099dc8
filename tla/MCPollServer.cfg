SPECIFICATION FairSpec
CONSTANTS
    Endpoints <- MCEndpoints
    MethodOf <- MCMethodOf
    PathOf <- MCPathOf
    Requests <- MCRequests
    MAX_ROUTES = 2
    p1 = p1
    p2 = p2
    Peers = {p1, p2}
    BACKLOG = 2
    None = None
INVARIANTS
    TypeOK
    NoDescriptorLost
PROPERTIES
    ImplementsContract
    QueuedPeerLeavesQueue
