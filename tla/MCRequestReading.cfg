SPECIFICATION FairSpec
CONSTANTS
    Loops = {"RP2040", "POSIX"}
    CAPACITY = 4
    SIZE_MOD = 8
    Streams <- MCStreams
CHECK_DEADLOCK FALSE
INVARIANTS
    TypeOK
    TerminatorInBounds
    LwipVerdict
    PosixVerdict
PROPERTY FittingRequestServed
