SPECIFICATION MCSpec
CONSTANTS
    MaxChannels = 2
    Types = {Quote, Trade}
    Quote = Quote
    Trade = Trade
    MaxCalls = 6
    MaxLosses = 2
    MaxUnasked = 2
    MaxRows = 1
CONSTRAINT Explored
INVARIANTS
    TypeOK
    ServedAsRecorded
    DecodedAsSent
    ClosedLeavesNothing
CHECK_DEADLOCK FALSE
