SPECIFICATION StillOrMoving
CONSTANTS
    j1 = j1
    j2 = j2
    a1 = a1
    p1 = p1
    p2 = p2
    Contacts = {1, 2}
    ChunkSize = 1
    MaxChunks = 2
    Generations = 2
    Jobs = {j1}
    BadJobs = {}
    StartWorkers = {a1, a2}
    ChunkWorkers = {w1}
    Schedulers = {p1}
    None = None
    MaxAttempts = 2
    StartMayFail = TRUE
    ChunkMayFail = FALSE
    SchedulerMayFail = FALSE
    Segments <- TwoContacts
    WindowCloses = FALSE
INVARIANTS
    WellTyped
    CompletedMeansCounted
    StillMeansPublished
    FiredOnce
PROPERTIES
    CompletedIsFinal
CHECK_DEADLOCK FALSE
