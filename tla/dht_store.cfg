CONSTANTS
    Focuses = {"dht", "limiter", "connections", "presence"}
    Clients = {c1}
    Keys = {k}
    Blobs = {b}
    Nonces = {0, 1}
    MaxAge = 1
    TTL = 2
    BlobTTL = 1
    Retention = 2
    KeepNonces = 1
    MaxKeys = 1
    MaxTime = 4
    MaxRequests = 2
    MaxHandlers = 2
    MaxBlobTime = 1
    NServers = 2
    Hosts = {h1, h2}
    ADDR_TTL = 4
    MaxIntervals = 5
    Callers = {p, q, r}
    Limit = 2
    Window = 2
    MaxBuckets = 2
    MaxClock = 5
    Cleanup = 2
SPECIFICATION Spec
INVARIANTS ReplayRefused WindowBound
           SurvivesMisses RecordIsCurrent
PROPERTIES SeqFallsInRaceOnly
CHECK_DEADLOCK FALSE
