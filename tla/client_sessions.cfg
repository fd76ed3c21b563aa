CONSTANTS
    a = a
    b = b
    Users <- MCUsers
    Texts <- MCTexts
    Reflectors = {b}
    Legacy <- Both
    Added <- Self
    NRelays = 1
    MaxSecrets = 3
    MaxConns = 2
    MaxSkippedKeys = 2
    MaxSkipAhead = 2
SPECIFICATION Spec
INVARIANTS NoKeyReuse InStep RelayReadable DirectReadable
CHECK_DEADLOCK FALSE
