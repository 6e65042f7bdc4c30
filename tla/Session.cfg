SPECIFICATION FairSpec
CONSTANTS
    MaxSessions = 2
    MaxAttempts = 2
    MayWedge = {2}
    Plans <- OneRequest
INVARIANTS
    OwnedReaders
    ConnectionIsOwned
    StopBeforeReport
    ClosedStreamHasReason
    StopLeavesNothing
PROPERTIES
    ImplementsOutages
    LossIsResolved
    DeathIsNoticed
    DeathClosesStream
    NoOrphanWriter
    DisconnectReturns
CHECK_DEADLOCK FALSE
