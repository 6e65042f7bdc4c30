SPECIFICATION Spec
CONSTANTS
    MaxChannels = 1
    Types = {Quote}
    Quote = Quote
    MaxCalls = 4
    MaxLosses = 1
    MaxUnasked = 0
    MaxRows = 0
PROPERTIES
    SkippedHasNothingToReplay
CHECK_DEADLOCK FALSE
