SPECIFICATION FairSpec
CONSTANTS
    Jobs = {j1}
    Malformed = {}
    Workers = {w1, w2}
    MaxAttempts = 2
    LastContact = 2
    PageSize = 1
    FilterTrees = {"valid", "invalid", "missing"}
    Faults = {"call", "crash"}
    NoJob = NoJob
INVARIANTS
    TypeOK
    ReadyMeansCounted
    SettledIsJustified
PROPERTIES
    ReadyMembersAreMatched
    ComesToRest
CHECK_DEADLOCK FALSE
