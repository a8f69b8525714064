SPECIFICATION LeaseSpec
CONSTANTS
    r1 = r1  r2 = r2  r3 = r3  a1 = a1  a2 = a2
    Requests = {r1, r2, r3}
    Accounts = {a1, a2}
    MaxConcurrency = 1
    LeaseTtl = 3
    StaleAfter = 2
    QueueDepth = 1
    QueueWait = 1
    Resets = 1
    MaxTime = 3
SYMMETRY RequestSymmetry
INVARIANTS SlotsTrue
CHECK_DEADLOCK FALSE
