SPECIFICATION FairSpec
CONSTANTS
    Sends = {s1}
    Malformed = {}
    Workers = {w1, w2}
    MaxAttempts = 3
    NoSend = NoSend
INVARIANTS
    TypeOK
    AckedMeansDecided
    FailedMeansNotAccepted
    GivenUpOnlyAtTheEnd
PROPERTIES
    ImplementsMailer
    ComesToRest
CHECK_DEADLOCK FALSE
