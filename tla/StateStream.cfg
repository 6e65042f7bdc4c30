SPECIFICATION FairSpec
CONSTANTS
    Receivers = {r1, r2}
    Capacity = 2
    Policies <- MCPolicies
    MaxAttempts = 3
    MinDelay = 2
    Doublings = 2
    DurationMax = 15
    Word = 4
    MaxStreams = 2
    MaxOutages = 1
INVARIANTS
    ReceiversListen
PROPERTIES
    BackoffIsSteady
    EndIsHeard
    StreamEnds
CHECK_DEADLOCK FALSE
