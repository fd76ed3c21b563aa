SPECIFICATION FairSpec
CONSTANTS
    r1 = r1
    r2 = r2
    r3 = r3
    x1 = x1
    n1 = n1
    Relays = {r1, r2}
    Outside = {}
    Nids = {}
    Configured <- MCMesh
    Others = {r1, r2}
    Holders = {r1}
    HasSecret = TRUE
    CHANNEL = 2
    ROUTE_TTL = 1
    PEER_TIMEOUT = 4
    GOSSIP = 4
    CHALLENGE_TTL = 1
    TOLERANCE = 1
    STAMP = 1
    MAX_HOPS = 5
    MaxTime = 3
    MaxBreaks = 1
    MaxInputs = 1
INVARIANT ReceiptOnce
PROPERTY  FloodEnds
CHECK_DEADLOCK FALSE
