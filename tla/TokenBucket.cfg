SPECIFICATION AloneOrShared
CONSTANTS
    c1 = c1
    Clients = {c1, c2}
    Rate = 3
    Cost = 5
    Capacity = 10
    Rounding = 1
    MaxWait = 3
    TTL = 4
    Skew <- NoSkew
    CallsLag = FALSE
    MaxNow = 5
INVARIANTS
    RateIsKept
    AloneWaitsTwice
CHECK_DEADLOCK FALSE
