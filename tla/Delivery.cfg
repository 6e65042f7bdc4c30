SPECIFICATION FairSpec
CONSTANTS
    MaxEvents = 6
    MaxBatch = 3
    QueueFloor = 1
    EventBuffer = 2
    Policies = {"Drop", "Block"}
    Watched <- OddEvents
INVARIANTS
    LossesAreCounted
    BurstFits
    NothingElseIsLost
PROPERTIES
    StreamCloses
    ImplementsLossyFifo
CHECK_DEADLOCK FALSE
