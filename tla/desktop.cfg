SPECIFICATION FairSpec
CONSTANTS
    maxRetries = 2
    MaxCalls = 3
    MaxListens = 2
    MaxLaunches = 2
    Peers = {peer, me}
    Me = me
    Texts = {text}
    Names = {file}
    MaxItems = 2
    MaxStarts = 3
INVARIANTS
    ListenerOwned
    RunsInTurn
    ShownOnce
    ComesBack
PROPERTY Settles
CHECK_DEADLOCK FALSE
