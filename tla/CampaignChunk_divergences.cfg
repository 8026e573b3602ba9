SPECIFICATION Spec
CONSTANTS
    k1 = k1
    k2 = k2
    r1 = r1
    r2 = r2
    Recipients = {r1, r2}
    Chunks = {k1}
    Malformed = {}
    Scenarios <- OneFailing_TogetherCalm
    Workers = {w1}
    None = None
    MaxAttempts = 3
INVARIANTS
    CompletedMeansProcessed
    AckedMeansCounted
CHECK_DEADLOCK FALSE
