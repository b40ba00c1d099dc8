SPECIFICATION FairSpec
CONSTANTS
    SCAN_MAX_NETWORKS = 2
    ArraySizes = {1, 2}
    TIMEOUT = 1
    TCPIP_MBOX_SIZE = 3
    MaxScans = 2
    MaxHeard = 3
    MaxLost = 1
    Queries <- MCQueries
INVARIANTS
    TypeOK
    ServersFollowAccessPoint
    NoSocketLeaked
    ScanListWhole
    DnsReplyFits
PROPERTIES
    StopSilencesServers
    CallsReturn
