SPECIFICATION FairSpec
CONSTANTS
    CALLS = 2
    SEGMENTS = 2
    TIMEOUT = 2
CHECK_DEADLOCK FALSE
INVARIANT ReturnsOnlyWhenOver
