SPECIFICATION OverlapOrFaults
CONSTANTS
    w2 = w2
    Jobs = {j1}
    Workers = {w1, w2}
    Sweepers = {s1}
    DkimChanges <- AnyChange
    ReminderAfterAttempt = 1
    CountedUpTo = 2
    Faults = {"call", "crash"}
    NoJob = NoJob
INVARIANTS
    TypeOK
    VerifiedIsTrue
    PollingGoesOn
PROPERTIES
    DecisionsStand
    Verifies
CHECK_DEADLOCK FALSE
