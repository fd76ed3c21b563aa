CONSTANTS
    Passes = {p1}
    NoPass = NoPass
    Setting = 1
    MaxInits = 3
    NewKeys = {83, 202}
    Lines = {1, 142}
    MaxBoots = 3
    Add <- gf_add
    Mul <- gf_mul
    Div <- gf_div
    Parties = {q1, q2}
    Secrets = {1, 2}
    MAX_SKIP_AHEAD = 2
    MAX_SKIPPED_KEYS = 2
    MaxSend = 4
    Procs = {c1, c2}
    Mids = {m1, m2}
    Old = m1
    MaxId = 3
    Conns = {c1, c2}
    Hosts = {h1, h2}
    Values = {1, 2}
    Peers = {f1, f2, f3}
    Capacity = 2
SPECIFICATION Spec
INVARIANTS KemOpens CertKept DestroyedOnlyAfter
           MigratedOnce TofuHolds PqOpens
PROPERTIES KeyKept DbKeyKept OpensUncut StaysBound
CHECK_DEADLOCK FALSE
