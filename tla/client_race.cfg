\* Two handlers share the client; nothing fails.
SPECIFICATION Spec
CONSTANTS
    a1 = a1
    a2 = a2
    a3 = a3
    None = None
    Addr = {a1, a2}
    First = a1
    knownAddrs <- TwoAddrs
    Undialable = {}
    Caller = {p1, p2}
    Conn = {1, 2, 3, 4, 5}
    MaxAttempts = 2
    MaxElections = 1
    MayKill = FALSE
    MayDrop = FALSE
PROPERTIES
    LeaderIsReached
