SPECIFICATION CalmSpec
CONSTANTS
    Sends = {s1}
    Malformed = {}
    Workers = {w1}
    MaxAttempts = 6
    NoSend = NoSend
INVARIANTS
    ExhaustedIsDeadLettered
CHECK_DEADLOCK FALSE
