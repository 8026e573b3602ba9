SPECIFICATION Spec
CONSTANTS
    e1 = e1
    e2 = e2
    e3 = e3
    u1 = u1
    u2 = u2
    a1 = a1
    a2 = a2
    Events = {e1, e2, e3}
    Rowless = {e3}
    Scenarios <- Several
    Garbled = Garbled
    Users = {u1, u2}
    Anons = {a1, a2}
    Workflows = {wf}
    Workers = {w1}
    MaxAttempts = 2
    FaultKinds = {"refused", "lost", "crash", "late"}
    MaxFaults = 0
    NoId = NoId
    Nothing = Nothing
INVARIANTS
    TriggersStartWorkflows
CHECK_DEADLOCK FALSE
