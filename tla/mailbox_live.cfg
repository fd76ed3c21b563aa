SPECIFICATION FairSpec
CONSTANTS
    a = a
    b = b
    m1 = m1
    m2 = m2
    m3 = m3
    Users = {a, b}
    Msgs = {m1, m3}
    From <- MCFrom
    To <- MCTo
    SeqOf <- MCSeq
    HasSecret = FALSE
    AllowRelay = TRUE
    MAX_ENTRIES_PER_SENDER = 2
    MAX_MAILBOX_SIZE = 2
    MAILBOX_TTL = 1
    ROUTING_EPOCH = 1
    ROUTING_BUCKET = 1
    MIX_MAX_DELAY = 1
    DbOutcomes = {TRUE}
    MaxTime = 1
    MaxStores = 3
    MaxInFlight = 1
INVARIANT Capped
PROPERTY EventuallyFetched
