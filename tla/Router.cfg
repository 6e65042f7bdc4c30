SPECIFICATION FairSpec
CONSTANTS
    owner = owner
    replay = replay
    Callers = {owner, replay}
    Supervisor = replay
    Channels = {1, 2}
    Kinds = {"FEED_CONFIG"}
    MaxRequests = 2
    MaxUnasked = 1
    MaxSessions = 3
INVARIANTS
    RegistrationsMatchCalls
PROPERTIES
    NothingIsSwallowed
    AnsweredOnce
    LossWakesWaiters
    CallsReturn
CHECK_DEADLOCK FALSE
