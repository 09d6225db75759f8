--------------------------- MODULE MCRaftCluster ---------------------------
(* Small instances of the Raft cluster for TLC. *)
EXTENDS RaftCluster, TLC

CONSTANTS o1, o2, e1, e2, e3

\* Two commands ask for one order.
Rivals == {[order |-> o1, event |-> e1], [order |-> o1, event |-> e2]}

\* A third one asks for another order.
Commands3 == Rivals \union {[order |-> o2, event |-> e3]}

\* The nodes are interchangeable, and so are the callers and the rivals.
Symmetry == Permutations(Node) \union Permutations(Caller) \union Permutations({e1, e2})

\* Bound: two different commands at a time, rivals or not.
TwoCommands ==
    LET used == {log[i] : i \in DOMAIN log} \union orphans \union {cmd[p] : p \in Caller}
    IN  Cardinality(used \ {None}) <= 2
=============================================================================
