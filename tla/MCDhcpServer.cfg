SPECIFICATION Spec
CONSTANTS
    c1 = c1
    c2 = c2
    c3 = c3
    Clients <- MCClients
    NoMac = NoMac
    MAX_IP = 2
    BASE_IP = 16
    RequestBytes <- MCRequestBytes
    GRAIN = 2
    GRAINS = 4
    LEASE = 2
    MaxNow = 10
SYMMETRY Symmetry
INVARIANTS
    TypeOK
    UniqueAddress
    OfferAvoidsLive
    LapsedIsExpired
