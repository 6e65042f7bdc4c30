SPECIFICATION FairSpec
CONSTANTS
    MaxSessions = 2
    MaxAttempts = 1
    MayWedge = {}
    Plans <- OneRequest
PROPERTIES
    DropStopsTheReaders
CHECK_DEADLOCK FALSE
