SPECIFICATION FairSpec
CONSTANTS
    MaxSessions = 1
    MaxAttempts = 1
    MayWedge = {1}
    Plans <- NothingToReplay
PROPERTIES
    ShutdownIsBounded
CHECK_DEADLOCK FALSE
