SPECIFICATION Spec
CONSTANTS
    Clients <- MCClients
    Responses <- MCResponses
    BUFFER = 2
    HEADER_BUFFER = 4
INVARIANTS
    TypeOK
    TrueMeansStored
    NothingHeld
    FalseLeavesOldFile
