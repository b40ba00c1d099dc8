SPECIFICATION Spec
CONSTANTS
    Networks = {n1, n2}
    None = None
    TIMEOUT = 2
INVARIANTS
    TypeOK
    RunningServes
    StoppedIsSilent
    DriverFollowsFlag
PROPERTY AnswerHolds
