SPECIFICATION FairSpec
CONSTANTS
    t1 = t1
    t2 = t2
    Endpoints <- MCEndpoints
    MethodOf <- MCMethodOf
    PathOf <- MCPathOf
    Requests <- MCRequests
    MAX_ROUTES = 2
    Sockets = {1, 2}
    Tasks <- MCTasks
    None = None
INVARIANTS
    TypeOK
    SingleServer
    NoSocketLost
    PublishedRoutesWhole
    DispatchIntact
PROPERTY StopEndsTask
