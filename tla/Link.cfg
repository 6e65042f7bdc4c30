SPECIFICATION Spec
CONSTANTS
    Second = 2
    ConnectTimeout = 3
    HandshakeTimeout = 4
    Advertisable = {1, 4}
    Negotiable = {0, 1, 2, 4, 7}
INVARIANTS
    HeardInTime
    SilenceIsTimed
    HandshakeIsBounded
    UpMeansAuthorized
    AnswersAreFinal
CHECK_DEADLOCK FALSE
