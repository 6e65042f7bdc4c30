SPECIFICATION Spec
CONSTANTS
    MaxChannels = 1
    Types = {Quote}
    Quote = Quote
    MaxCalls = 4
    MaxLosses = 0
    MaxUnasked = 1
    MaxRows = 1
INVARIANTS
    NegotiatedIsDecoded
CHECK_DEADLOCK FALSE
