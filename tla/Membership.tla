----------------------------- MODULE Membership -----------------------------
(***************************************************************************)
(* How a cluster comes about: raft-node processes that start, bootstrap or *)
(* wait to be joined, stop and start again, and the Join call that makes a *)
(* node a voter.  A node's data directory outlives its process.            *)
(*                                                                         *)
(* The configurations, elections and their replication are the library's.  *)
(***************************************************************************)
EXTENDS Naturals, FiniteSets

CONSTANTS
    Node,           \* the raft-node processes
    None,           \* no leader
    Bootstrap,      \* those started with RAFT_BOOTSTRAP=true
    MaxStops        \* bound: how often a process stops

ASSUME NodeAssumption == IsFiniteSet(Node) /\ None \notin Node /\ Bootstrap \subseteq Node
ASSUME StopAssumption == MaxStops \in Nat

\* The scripts start one node with RAFT_BOOTSTRAP=true.
ASSUME BootstrapAssumption == \A m, n \in Bootstrap : m = n

VARIABLES
    process,    \* whether a process runs; "fatal" if raft.Start failed
    stored,     \* the voters in the node's latest configuration, none at first
    ahead,      \* the nodes whose log goes on after the last entry of the node's
    leader,     \* the node that leads
    joining,    \* the node whose Join call waits for its configuration
    joined,     \* nodes whose Join call was answered with Ok
    stops       \* how often a process has stopped

logVars == <<stored, ahead>>
vars == <<process, logVars, leader, joining, joined, stops>>

TypeOK ==
    /\ process \in [Node -> {"down", "up", "fatal"}]
    /\ stored \in [Node -> SUBSET Node]
    /\ ahead \in [Node -> SUBSET Node]
    /\ leader \in Node \union {None}
    /\ joining \in Node \union {None}
    /\ joined \subseteq Node
    /\ stops \in 0..MaxStops

Init ==
    /\ process = [n \in Node |-> "down"]
    /\ stored = [n \in Node |-> {}] /\ ahead = [n \in Node |-> {}]
    /\ leader = None /\ joining = None /\ joined = {} /\ stops = 0

-----------------------------------------------------------------------------
Up == {n \in Node : process[n] = "up"}

Majority(S, C) == 2 * Cardinality(S \intersect C) > Cardinality(C)

\* n appends an entry to its log, from where it has the configuration C.
Append(n, C) ==
    /\ ahead' = [m \in Node |-> IF m = n THEN {} ELSE ahead[m] \union {n}]
    /\ stored' = [stored EXCEPT ![n] = C]

\* Slip: every node bootstraps a cluster of its own.
StartNew_Always(n) ==
    /\ process[n] = "down" /\ stored[n] = {}
    /\ process' = [process EXCEPT ![n] = "up"]
    /\ Append(n, {n})
    /\ UNCHANGED <<leader, joining, joined, stops>>

\* A start on an empty data directory.  Only a bootstrapping node writes a
\* configuration; RAFT_JOIN_ADDR is logged and nothing else.
StartNew(n) ==
    /\ process[n] = "down" /\ stored[n] = {}
    /\ process' = [process EXCEPT ![n] = "up"]
    /\ IF n \in Bootstrap THEN Append(n, {n}) ELSE UNCHANGED logVars
    /\ UNCHANGED <<leader, joining, joined, stops>>

\* A start on a directory with state.  The library refuses to bootstrap it
\* again with a message ("bootstrap only works on new clusters") that is not
\* the one raft.Start ignores: main ends the process.
StartAgain(n) ==
    /\ process[n] = "down" /\ stored[n] # {}
    /\ process' = [process EXCEPT ![n] = IF n \in Bootstrap THEN "fatal" ELSE "up"]
    /\ UNCHANGED <<logVars, leader, joining, joined, stops>>

\* A signal, a crash, or CHAOS_EXIT_ON_LEADER.
Stop(n) ==
    /\ process[n] = "up" /\ stops < MaxStops
    /\ stops' = stops + 1
    /\ process' = [process EXCEPT ![n] = "down"]
    /\ IF leader = n THEN leader' = None /\ joining' = None
                     ELSE UNCHANGED <<leader, joining>>
    /\ UNCHANGED <<logVars, joined>>

-----------------------------------------------------------------------------
(* The library.                                                            *)

\* A node is elected by a majority of the configuration it knows, none of
\* whom has a later entry.  It begins its term with an entry of its own.
Elect(n) ==
    /\ leader = None
    /\ process[n] = "up" /\ n \in stored[n]
    /\ Majority(Up \ ahead[n], stored[n])
    /\ leader' = n
    /\ Append(n, stored[n])
    /\ UNCHANGED <<process, joining, joined, stops>>

\* A leader that cannot reach a majority steps down; a Join fails with it.
StepDown ==
    /\ leader # None
    /\ ~Majority(Up, stored[leader])
    /\ leader' = None /\ joining' = None
    /\ UNCHANGED <<process, logVars, joined, stops>>

\* The leader's log, of which no other goes on after the end, becomes that of n.
Replicate(n) ==
    /\ leader # None /\ process[n] = "up"
    /\ n \in stored[leader] /\ ahead[n] # {}
    /\ stored' = [stored EXCEPT ![n] = stored[leader]]
    /\ ahead' = [m \in Node |-> IF m = n \/ ahead[m] = {} THEN {} ELSE ahead[m] \union {n}]
    /\ UNCHANGED <<process, leader, joining, joined, stops>>

-----------------------------------------------------------------------------
(* Server.Join, called by the operator's script.                           *)

\* All that the leader has is committed: the library adds a voter only when
\* the configuration and an entry of the leader's own term are.
Committed ==
    leader # None /\ Majority({n \in Node : ahead[n] = {}}, stored[leader])

\* Slip: the voter may be added without its id.
Join_EmptyId(n) ==
    /\ joining = None /\ n \notin joined
    /\ Committed
    /\ \E id \in {n, None} :
          joining' = id /\ Append(leader, stored[leader] \union {id})
    /\ UNCHANGED <<process, leader, joined, stops>>

\* Slip: AddVoter is not called.
Join_NotAppended(n) ==
    /\ joining = None /\ n \notin joined
    /\ Committed
    /\ joining' = n
    /\ UNCHANGED <<process, logVars, leader, joined, stops>>

\* Asked of a node that does not lead, Join only names the leader.  Asked of
\* the leader, it appends a configuration with the node, running or not, which
\* counts at once.
Join(n) ==
    /\ joining = None /\ n \notin joined
    /\ Committed
    /\ joining' = n
    /\ Append(leader, stored[leader] \union {n})
    /\ UNCHANGED <<process, leader, joined, stops>>

\* Slip: the answer does not wait for the configuration.
JoinOk_Early ==
    /\ joining # None
    /\ joined' = joined \union {joining}
    /\ joining' = None
    /\ UNCHANGED <<process, logVars, leader, stops>>

\* AddVoter's future: the configuration is committed.
JoinOk ==
    /\ joining # None /\ Committed
    /\ joined' = joined \union {joining}
    /\ joining' = None
    /\ UNCHANGED <<process, logVars, leader, stops>>

Next ==
    \/ \E n \in Node : StartNew(n) \/ StartAgain(n) \/ Stop(n)
                       \/ Elect(n) \/ Replicate(n) \/ Join(n)
    \/ StepDown
    \/ JoinOk

\* Processes are started, and the library's own steps happen.
Fairness ==
    /\ \A n \in Node : WF_vars(StartNew(n) \/ StartAgain(n))
    /\ \A n \in Node : WF_vars(Elect(n)) /\ WF_vars(Replicate(n))
    /\ WF_vars(StepDown) /\ WF_vars(JoinOk)

\* The operator runs the script for every node, again if need be.
OperatorFairness == \A n \in Node : SF_vars(Join(n))

Spec      == Init /\ [][Next]_vars /\ Fairness
JoinsSpec == Spec /\ OperatorFairness

-----------------------------------------------------------------------------
\* One cluster comes about and not several: any two configurations, of nodes
\* however far behind, have a voter in common.
OneCluster ==
    \A m, n \in Node :
        stored[m] # {} /\ stored[n] # {} => stored[m] \intersect stored[n] # {}

\* A node that was told it has joined is a voter for every leader from then
\* on, whoever stops in between.
JoinedIsVoter == leader # None => joined \subseteq stored[leader]

\* The cluster forms: as long as no node stops, every node becomes a voter,
\* once the operator has joined it.  ("joins via node 1")
EveryNodeJoins ==
    [](stops = 0) => <>(\A n \in Node : \E m \in Node : leader = m /\ n \in stored[m])
-----------------------------------------------------------------------------
\* The inductive invariant from which the safety properties follow.

\* n could be elected if all nodes ran.
Electable(n) == Majority(Node \ ahead[n], stored[n])

\* The logs that are the longest are the same, and longer than all others.
LongestLogs ==
    \A m, n \in Node : ahead[m] = {} =>
        IF ahead[n] = {} THEN stored[m] = stored[n] ELSE m \in ahead[n]

\* The cluster begins with the node that bootstraps, which stays in it.
OneOrigin ==
    /\ \A b \in Bootstrap : stored[b] = {} => joined = {} /\ \A n \in Node : stored[n] = {}
    /\ \A n \in Node : stored[n] # {} => Bootstrap # {} /\ Bootstrap \subseteq stored[n]

\* No log is longer than the leader's, which has the leader as a voter, and the
\* node that a call of Join waits for.
LeaderIsAhead ==
    /\ leader # None => ahead[leader] = {} /\ leader \in stored[leader]
    /\ joining # None => leader # None /\ joining \in stored[leader]

\* Configurations that differ by a voter at most: their majorities meet.
Adjacent(C, D) == \E x \in Node : D = C \/ D = C \union {x} \/ C = D \union {x}

\* The nodes that could lead next differ by the voter that is being added.
RivalsAreAdjacent ==
    \A m, n \in Node : Electable(m) /\ Electable(n) => Adjacent(stored[m], stored[n])

\* Whoever could lead next knows of everyone who was told that it has joined.
RivalsKnowJoined == \A n \in Node : Electable(n) => joined \subseteq stored[n]

MembershipInv ==
    /\ TypeOK
    /\ LongestLogs
    /\ OneOrigin
    /\ LeaderIsAhead
    /\ RivalsAreAdjacent
    /\ RivalsKnowJoined
=============================================================================
