\* Three transactions that share orders and event ids,
\* beside the publisher; every fault.
SPECIFICATION Spec
CONSTANTS
    o1 = o1
    o2 = o2
    e1 = e1
    e2 = e2
    None = None
    Order = {o1, o2}
    Event = {e1, e2}
    Command <- Commands3
    Caller = {p1, p2, p3}
    MaxCalls = 3
    Millis = {0}
    BatchSize = 2
    Faults = {"sqlite", "kafka", "crash"}
INVARIANTS
    TablesAgree
    ReplyIsTrue
    CheckIsNotStale
    MarkedIsOnTopic
PROPERTIES
    RowIsMarkedUnlessLocked
