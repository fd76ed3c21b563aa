SPECIFICATION Spec
CONSTANTS
    r1 = r1
    r2 = r2
    r3 = r3
    x1 = x1
    n1 = n1
    Relays = {r1, r2}
    Outside = {x1}
    Nids = {n1}
    Configured <- MCConfigured
    Others = {r1, r2}
    Holders = {}
    HasSecret = TRUE
    CHANNEL = 2
    ROUTE_TTL = 1
    PEER_TIMEOUT = 2
    GOSSIP = 1
    CHALLENGE_TTL = 1
    TOLERANCE = 1
    STAMP = 1
    MAX_HOPS = 5
    MaxTime = 2
    MaxBreaks = 1
    MaxInputs = 2
INVARIANT RoutesExpire
CHECK_DEADLOCK FALSE
