SPECIFICATION Spec
CONSTANTS
    k1 = k1
    k2 = k2
    r1 = r1
    r2 = r2
    Recipients = {r1, r2}
    Chunks = {k1}
    Malformed = {}
    Scenarios <- TogetherFailing
    Workers = {w1}
    None = None
    MaxAttempts = 2
INVARIANTS
    SettledIsJustified
    SentCountIsEarned
CHECK_DEADLOCK FALSE
