SPECIFICATION Spec
CONSTANTS
    Sends = {s1}
    Malformed = {}
    Workers = {w1}
    MaxAttempts = 2
    NoSend = NoSend
INVARIANTS
    DuplicateDeliveryIsSafe
CHECK_DEADLOCK FALSE
