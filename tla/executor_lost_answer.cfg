\* Calls of the Raft service may be lost.
SPECIFICATION Spec
CONSTANTS
    o1 = o1
    o2 = o2
    e1 = e1
    e2 = e2
    None = None
    Order <- Order1
    Event = {e1, e2}
    Command <- Rivals
    Valid <- Rivals
    Caller = {w1, w2}
    Millis = {0}
    Faults = {"rpc"}
    MaxAttempts = 2
    MaxTries = 2
    BatchSize = 1
    MaxCrashes = 0
INVARIANTS
    EventAccounted
