SPECIFICATION OverlapOrFaults
CONSTANTS
    w2 = w2
    Jobs = {j1}
    Workers = {w1, w2}
    Sweepers = {s1}
    DkimChanges <- ToSuccess
    ReminderAfterAttempt = 3
    CountedUpTo = 10
    Faults = {"call"}
    NoJob = NoJob
INVARIANTS
    ExpiredEventIsTrue
    ExpiryStays
    ReminderIsSent
    FailedAfterNine
PROPERTIES
    VerifiedIsKept
CHECK_DEADLOCK FALSE
