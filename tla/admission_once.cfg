SPECIFICATION Spec
CONSTANTS
    f1 = f1
    n1 = n1
    n2 = n2
    Fps = {f1}
    Nonces = {n1, n2}
    Requests <- MCRequests
    HasSecret = TRUE
    TOLERANCE = 2
    MAX_NONCES = 2
    ROUTING_EPOCH = 2
    MIX_MAX_DELAY = 1
    ClockAhead = 2
    MayRestart = TRUE
    MaxTime = 5
    MaxRecords = 4
INVARIANT AtMostOnce
