SPECIFICATION Spec
CONSTANTS
    Triggers = {t1}
    Malformed = {}
    Executions = {e1}
    KeyOf <- OneKey
    Workers = {w1}
    Schedulers = {s1, s2}
    Nodes = {"start", "hello", "wait", "again", "done"}
    Graphs <- TwoDelays
    MaxAttempts = 2
    FaultKinds = {"crash", "outliveLock"}
    MaxFaults = 1
    NoNode = "no node"
    Nobody = Nobody
INVARIANTS
    CutShortIsRetried
PROPERTIES
    StaleListIsHarmless
CHECK_DEADLOCK FALSE
