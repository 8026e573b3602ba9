SPECIFICATION FairSpec
CONSTANTS
    k1 = k1
    k2 = k2
    r1 = r1
    r2 = r2
    Recipients = {r1, r2}
    Chunks = {k1, k2}
    Malformed = {}
    Scenarios <- OneFailing_ApartCalm
    Workers = {w1, w2}
    None = None
    MaxAttempts = 2
PROPERTIES
    ImplementsMailer
    CalmCompletes
    ComesToRest
CHECK_DEADLOCK FALSE
