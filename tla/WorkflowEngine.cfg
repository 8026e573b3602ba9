SPECIFICATION FairSpec
CONSTANTS
    Triggers = {t1}
    Malformed = {}
    Executions = {e1}
    KeyOf <- OneKey
    Workers = {w1, w2}
    Schedulers = {s1, s2}
    Nodes = {"start", "hello", "wait", "again", "done"}
    Graphs <- WholeAndBroken
    MaxAttempts = 2
    FaultKinds = {"refused", "lost", "crash"}
    MaxFaults = 1
    NoNode = "no node"
    Nobody = Nobody
INVARIANTS
    TypeOK
    EmailOncePerNode
    CompletedMeansEmailed
PROPERTIES
    DelayIsServed
    WaitingIsResumed
CHECK_DEADLOCK FALSE
