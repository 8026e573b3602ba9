SPECIFICATION Spec
CONSTANTS
    j1 = j1
    j2 = j2
    a1 = a1
    p1 = p1
    p2 = p2
    Contacts = {1, 2, 3}
    ChunkSize = 2
    MaxChunks = 2
    Generations = 2
    Jobs = {j1}
    BadJobs = {}
    StartWorkers = {a1}
    ChunkWorkers = {w1, w2}
    Schedulers = {p1}
    None = None
    MaxAttempts = 2
    StartMayFail = TRUE
    ChunkMayFail = FALSE
    SchedulerMayFail = TRUE
    Segments <- GainsOne
    WindowCloses = TRUE
INVARIANTS
    EveryRowIsInAChunk
    ClaimedMeansFired
    AcceptedOnce
PROPERTIES
    NoContactMissed
CHECK_DEADLOCK FALSE
