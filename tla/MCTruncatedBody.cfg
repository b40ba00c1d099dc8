SPECIFICATION Spec
CONSTANTS
    Loops = {"POSIX"}
    CAPACITY = 4
    SIZE_MOD = 8
    Streams <- MCStreams
CHECK_DEADLOCK FALSE
INVARIANT AnnouncedBodyArrived
