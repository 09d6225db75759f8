\* One handler at a time; the leader moves or dies, attempts and dials fail.
SPECIFICATION Spec
CONSTANTS
    a1 = a1
    a2 = a2
    a3 = a3
    None = None
    Addr = {a1, a2, a3}
    First = a1
    knownAddrs <- AllAddrs
    Undialable = {a3}
    Caller = {p1}
    Conn = {1, 2, 3, 4}
    MaxAttempts = 3
    MaxElections = 2
    MayKill = TRUE
    MayDrop = TRUE
INVARIANTS
    ClientIsConnected
PROPERTIES
    ApplyReturns
    LeaderIsReached
