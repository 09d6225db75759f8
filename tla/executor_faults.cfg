\* Two workers, rival commands for one order and a rejected one, every fault,
\* one crash.
SPECIFICATION Spec
CONSTANTS
    o1 = o1
    o2 = o2
    e1 = e1
    e2 = e2
    None = None
    Order <- Order2
    Event = {e1, e2}
    Command <- Commands3
    Valid <- Rivals
    Caller = {w1, w2}
    Millis = {0}
    Faults = {"rpc", "sqlite", "kafka", "crash"}
    MaxAttempts = 2
    MaxTries = 2
    BatchSize = 1
    MaxCrashes = 1
INVARIANTS
    TypeOK
    IInv
    OneEventPerOrder
    EventOfWinner
    CommitOnlyDecided
    EventLossHasCause
PROPERTIES
    HandlerEnds
    DecidedIsPublished
    ImplementsPromise
