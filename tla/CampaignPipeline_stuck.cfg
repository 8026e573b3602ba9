SPECIFICATION Spec
CONSTANTS
    j1 = j1
    j2 = j2
    a1 = a1
    p1 = p1
    p2 = p2
    Contacts = {1}
    ChunkSize = 1
    MaxChunks = 1
    Generations = 1
    Jobs = {j1}
    BadJobs = {}
    StartWorkers = {a1}
    ChunkWorkers = {w1}
    Schedulers = {p1}
    None = None
    MaxAttempts = 2
    StartMayFail = FALSE
    ChunkMayFail = FALSE
    SchedulerMayFail = FALSE
    Segments <- OneContact
    WindowCloses = FALSE
INVARIANTS
    AllDoneMeansCompleted
CHECK_DEADLOCK FALSE
