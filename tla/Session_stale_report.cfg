SPECIFICATION Spec
CONSTANTS
    MaxSessions = 3
    MaxAttempts = 2
    MayWedge = {}
    Plans <- OneRequest
PROPERTIES
    LostMeansDead
CHECK_DEADLOCK FALSE
