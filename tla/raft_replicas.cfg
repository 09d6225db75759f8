\* Two attempts, a change of leader, a crash and a snapshot.
SPECIFICATION Spec
SYMMETRY Symmetry
CONSTANTS
    o1 = o1
    o2 = o2
    e1 = e1
    e2 = e2
    e3 = e3
    None = None
    Order = {o1, o2}
    Event = {e1, e2, e3}
    Command <- Commands3
    Node = {n1, n2}
    Caller = {p1}
    Faults = {"rpc"}
    MaxAttempts = 2
    MaxLog = 2
    MaxTerms = 2
    MaxCrashes = 1
    MaxSnapshots = 1
INVARIANTS
    ClusterInv
    ReplicaMatchesLog
    SnapshotMatchesLog
PROPERTIES
    ImplementsPromise
    FoundStaysFound
\* The system stops when the log is full and the callers have given up.
CHECK_DEADLOCK FALSE
CONSTRAINT TwoCommands
