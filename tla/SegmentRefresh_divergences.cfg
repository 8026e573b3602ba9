SPECIFICATION Spec
CONSTANTS
    Jobs = {j1, j2}
    Malformed = {}
    Workers = {w1, w2}
    MaxAttempts = 2
    LastContact = 1
    PageSize = 1
    FilterTrees = {"valid"}
    Faults = {"crash", "outliveLock"}
    NoJob = NoJob
INVARIANTS
    NoConcurrentRecomputes
    SkippedIsHandled
    CrashIsTakenUp
CHECK_DEADLOCK FALSE
