\* Four nodes, one of which bootstraps; processes stop at any time.
SPECIFICATION JoinsSpec
CONSTANTS
    None = None
    Node = {n1, n2, n3, n4}
    Bootstrap = {n1}
    MaxStops = 2
INVARIANTS
    MembershipInv
    OneCluster
    JoinedIsVoter
PROPERTIES
    EveryNodeJoins
\* The cluster has formed, or its processes have stopped.
CHECK_DEADLOCK FALSE
