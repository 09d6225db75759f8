----------------------------- MODULE RaftClient -----------------------------
(***************************************************************************)
(* The client of the Raft service that all handlers of the executor share: *)
(* one connection at a time, which any of them replaces, without a lock,   *)
(* when it follows a leader hint or goes on to the next address.           *)
(*                                                                         *)
(* The accesses to addr, cc, svc and currentIdx are one step each (nextAddr *)
(* uses the index it has just written).  They race: a word is read either  *)
(* before or after it is written, and the addresses, which are two words,  *)
(* have one length in every configuration of the repository.               *)
(***************************************************************************)
EXTENDS Naturals, Sequences, FiniteSets

CONSTANTS
    Addr,           \* gRPC addresses of the Raft nodes
    None,           \* no node, no connection
    First,          \* the address Dial was given
    knownAddrs,     \* the addresses to try in turn
    Undialable,     \* addresses that may be such that no connection can be made of them
    Caller,         \* goroutines that call Apply
    Conn,           \* names for connections
    MaxAttempts,    \* attempts of one Apply (maxRetries)
    MaxElections,   \* bound: elections after the first
    MayKill,        \* whether a node may die
    MayDrop         \* whether an attempt may fail at a node that runs

ASSUME AddrAssumption ==
    /\ None \notin Addr
    /\ knownAddrs \in Seq(Addr) /\ knownAddrs # <<>>
    /\ First \in Addr \ Undialable /\ Undialable \subseteq Addr
\* The names never run out: there is one that nobody uses.
ASSUME ConnAssumption ==
    /\ 1 \in Conn /\ None \notin Conn
    /\ IsFiniteSet(Caller) /\ IsFiniteSet(Conn)
    /\ Cardinality(Conn) > Cardinality(Caller) + 2
ASSUME BoundAssumption == MaxAttempts \in Nat \ {0} /\ MaxElections \in Nat
ASSUME FaultAssumption == {MayKill, MayDrop} \subseteq BOOLEAN

VARIABLES
    alive, leader,      \* the nodes that run, and the one that can commit
    known,              \* the leader each node knows of, if any
    elections,
    malformed,          \* addresses no connection can be made of
    addr, cc, svc, currentIdx,      \* the client's fields
    to, open,           \* where a connection leads, and whether it is open
    pc,                 \* where a caller stands in Apply
    target,             \* its currentAddr
    tries,              \* its attempts so far
    mine,               \* the connection it has made, or waits on
    seen,               \* the index it has read in nextAddr
    result,             \* how its last Apply ended
    link,               \* history: what the redials have left the client with
    clash               \* history: callers whose redial overlaps another's

nodeVars   == <<alive, leader, known, elections, malformed>>
clientVars == <<addr, cc, svc, currentIdx>>
connVars   == <<to, open>>
ownVars    == <<target, tries, mine, seen, result>>
callerVars == <<pc, ownVars>>
historyVars == <<link, clash>>
vars == <<nodeVars, clientVars, connVars, callerVars, historyVars>>

\* A redial begins when the connection is found to be another's; from "dial" on
\* the old connection is closed.
Installs == {"setcc", "setsvc", "setaddr"}
Redial   == {"dial"} \union Installs
Redials  == {"close"} \union Redial
PC     == {"idle", "check", "close", "call", "wait", "next"} \union Redial

TypeOK ==
    /\ alive \subseteq Addr /\ leader \in Addr
    /\ known \in [Addr -> Addr \union {None}]
    /\ elections \in 0..MaxElections /\ malformed \subseteq Undialable
    /\ addr \in Addr /\ cc \in Conn /\ svc \in Conn
    /\ currentIdx \in 1..Len(knownAddrs)
    /\ to \in [Conn -> Addr] /\ open \in [Conn -> BOOLEAN]
    /\ pc \in [Caller -> PC]
    /\ target \in [Caller -> Addr]
    /\ tries \in [Caller -> 0..MaxAttempts - 1]
    /\ mine \in [Caller -> Conn \union {None}]
    /\ seen \in [Caller -> 1..Len(knownAddrs)]
    /\ result \in [Caller -> {"none", "applied", "refused", "error"}]
    /\ link \in {"whole", "closed", "torn"} /\ clash \subseteq Caller

\* Dial has connected the client to the first address; some node leads.
Init ==
    /\ alive = Addr /\ leader \in Addr /\ elections = 0
    /\ malformed \in {{}, Undialable}
    /\ known = [n \in Addr |-> leader]
    /\ addr = First /\ cc = 1 /\ svc = 1 /\ currentIdx = 1
    /\ to = [k \in Conn |-> First]
    /\ open = [k \in Conn |-> k = 1]
    /\ pc = [p \in Caller |-> "idle"]
    /\ target = [p \in Caller |-> First]
    /\ tries = [p \in Caller |-> 0]
    /\ mine = [p \in Caller |-> None]
    /\ seen = [p \in Caller |-> 1]
    /\ result = [p \in Caller |-> "none"]
    /\ link = "whole" /\ clash = {}

-----------------------------------------------------------------------------
(* The nodes.                                                              *)

Elect(n) ==
    /\ n \in alive /\ n # leader
    /\ elections < MaxElections
    /\ elections' = elections + 1
    /\ leader' = n
    /\ known' = [known EXCEPT ![n] = n]
    /\ UNCHANGED <<alive, malformed, clientVars, connVars, callerVars, historyVars>>

\* A node hears from the leader.
Learn(n) ==
    /\ n \in alive
    /\ known[n] # leader
    /\ known' = [known EXCEPT ![n] = leader]
    /\ UNCHANGED <<alive, leader, elections, malformed,
                   clientVars, connVars, callerVars, historyVars>>

\* A node misses the old leader, or steps down: it knows of none for a while.
Forget(n) ==
    /\ n \in alive
    /\ known[n] \notin {leader, None}
    /\ known' = [known EXCEPT ![n] = None]
    /\ UNCHANGED <<alive, leader, elections, malformed,
                   clientVars, connVars, callerVars, historyVars>>

\* The leader dies and another node takes over; a majority is left.
Kill ==
    /\ MayKill /\ alive = Addr
    /\ alive' = Addr \ {leader}
    /\ leader' \in alive'
    /\ known' = [known EXCEPT ![leader'] = leader']
    /\ UNCHANGED <<elections, malformed, clientVars, connVars, callerVars, historyVars>>

-----------------------------------------------------------------------------
(* Client.Apply.                                                           *)

Goto(p, s) == pc' = [pc EXCEPT ![p] = s]

Start(p) ==
    /\ pc[p] = "idle"
    /\ Goto(p, "check")
    /\ target' = [target EXCEPT ![p] = addr]
    /\ result' = [result EXCEPT ![p] = "none"]
    /\ UNCHANGED <<tries, mine, seen, nodeVars, clientVars, connVars, historyVars>>

\* History: a redial begins, perhaps while others are under way, and ends.
BeginRedial(p) ==
    LET others == {q \in Caller \ {p} : pc[q] \in Redials}
    IN  IF others = {}
        THEN UNCHANGED historyVars
        ELSE clash' = clash \union others \union {p} /\ link' = "torn"

EndRedial(p, l) ==
    /\ clash' = clash \ {p}
    /\ link' = IF p \in clash THEN link ELSE l

\* The head of the loop: is the client where it should be, or elsewhere?
Check(p) ==
    /\ pc[p] = "check"
    /\ \/ target[p] = addr /\ Goto(p, "call") /\ UNCHANGED historyVars
       \/ target[p] # addr /\ Goto(p, "close") /\ BeginRedial(p)
    /\ UNCHANGED <<ownVars, nodeVars, clientVars, connVars>>

\* c.cc.Close(), whoever made that connection and whoever waits on it.
CloseOld(p) ==
    /\ pc[p] = "close"
    /\ open' = [open EXCEPT ![cc] = FALSE]
    /\ Goto(p, "dial")
    /\ UNCHANGED <<to, ownVars, nodeVars, clientVars, historyVars>>

Unused(k) == k \notin {cc, svc} /\ \A p \in Caller : mine[p] # k
fresh == CHOOSE k \in Conn : Unused(k)

\* A client connection is made at once, whether or not the node runs.
Dial(p) ==
    /\ pc[p] = "dial"
    /\ target[p] \notin malformed
    /\ to' = [to EXCEPT ![fresh] = target[p]]
    /\ open' = [open EXCEPT ![fresh] = TRUE]
    /\ mine' = [mine EXCEPT ![p] = fresh]
    /\ Goto(p, "setcc")
    /\ UNCHANGED <<target, tries, seen, result, nodeVars, clientVars, historyVars>>

End(p, r) ==
    /\ Goto(p, "idle")
    /\ result' = [result EXCEPT ![p] = r]
    /\ tries' = [tries EXCEPT ![p] = 0]
    /\ mine' = [mine EXCEPT ![p] = None]

\* Slip: the attempt is not counted.
Again_Uncounted(p) ==
    /\ Goto(p, "check")
    /\ mine' = [mine EXCEPT ![p] = None]
    /\ UNCHANGED <<tries, result>>

\* The loop goes on to the next attempt, or has made them all.
Again(p) ==
    IF tries[p] + 1 < MaxAttempts
    THEN /\ Goto(p, "check")
         /\ tries' = [tries EXCEPT ![p] = @ + 1]
         /\ mine' = [mine EXCEPT ![p] = None]
         /\ UNCHANGED result
    ELSE End(p, "error")

\* The first half of nextAddr: the client's index is read.
ReadIndex(p) ==
    /\ seen' = [seen EXCEPT ![p] = currentIdx]
    /\ Goto(p, "next")
    /\ UNCHANGED <<tries, mine, result>>

\* The second half: it moves on, for all callers, and so does the loop.
NextAddr(p) ==
    /\ pc[p] = "next"
    /\ currentIdx' = (seen[p] % Len(knownAddrs)) + 1
    /\ target' = [target EXCEPT ![p] = knownAddrs[currentIdx']]
    /\ seen' = [seen EXCEPT ![p] = 1]
    /\ Again(p)
    /\ UNCHANGED <<addr, cc, svc, connVars, historyVars, nodeVars>>

\* The connection that was closed is not replaced.
DialFails(p) ==
    /\ pc[p] = "dial"
    /\ target[p] \in malformed
    /\ ReadIndex(p)
    /\ EndRedial(p, IF link = "torn" THEN "torn" ELSE "closed")
    /\ UNCHANGED <<target, clientVars, connVars, nodeVars>>

SetConn(p) ==
    /\ pc[p] = "setcc"
    /\ cc' = mine[p]
    /\ Goto(p, "setsvc")
    /\ UNCHANGED <<addr, svc, currentIdx, connVars, historyVars, ownVars, nodeVars>>

\* Slip: the stub of the old connection is kept.
SetService_Kept(p) ==
    /\ pc[p] = "setsvc"
    /\ Goto(p, "setaddr")
    /\ UNCHANGED <<clientVars, connVars, historyVars, ownVars, nodeVars>>

SetService(p) ==
    /\ pc[p] = "setsvc"
    /\ svc' = mine[p]
    /\ Goto(p, "setaddr")
    /\ UNCHANGED <<addr, cc, currentIdx, connVars, historyVars, ownVars, nodeVars>>

SetAddr(p) ==
    /\ pc[p] = "setaddr"
    /\ addr' = target[p]
    /\ Goto(p, "call")
    /\ EndRedial(p, "whole")
    /\ UNCHANGED <<cc, svc, currentIdx, connVars, ownVars, nodeVars>>

Call(p) ==
    /\ pc[p] = "call"
    /\ mine' = [mine EXCEPT ![p] = svc]
    /\ Goto(p, "wait")
    /\ UNCHANGED <<target, tries, seen, result, clientVars, connVars, historyVars, nodeVars>>

-----------------------------------------------------------------------------
(* The answers.                                                            *)

Reaches(p, n) == pc[p] = "wait" /\ open[mine[p]] /\ to[mine[p]] = n /\ n \in alive

\* A call on a closed connection, or one that is closed meanwhile, is canceled:
\* not a retryable status.
Canceled(p) ==
    /\ pc[p] = "wait"
    /\ ~open[mine[p]]
    /\ End(p, "error")
    /\ UNCHANGED <<target, seen, clientVars, connVars, historyVars, nodeVars>>

\* Unavailable, or the deadline: a retryable status, and the same address.
Unavailable(p) ==
    /\ pc[p] = "wait" /\ open[mine[p]]
    /\ to[mine[p]] \notin alive \/ MayDrop
    /\ Again(p)
    /\ UNCHANGED <<target, seen, clientVars, connVars, historyVars, nodeVars>>

Applied(p) ==
    /\ Reaches(p, leader)
    /\ End(p, "applied")
    /\ UNCHANGED <<target, seen, clientVars, connVars, historyVars, nodeVars>>

\* The node does not lead, or the leader fails to commit in time.  Its hint
\* names the leader it knows of; a node that takes itself for it gives none.
Refuses(p, n) == Reaches(p, n) /\ (n # leader \/ MayDrop)
hint(n) == IF known[n] = n THEN None ELSE known[n]

\* Slip: the hint is not followed.
FollowHint_Stay(p) ==
    /\ \E n \in Addr : Refuses(p, n) /\ hint(n) # None
    /\ tries[p] + 1 < MaxAttempts
    /\ UNCHANGED target
    /\ Again(p)
    /\ UNCHANGED <<seen, clientVars, connVars, historyVars, nodeVars>>

FollowHint(p) ==
    /\ \E n \in Addr :
          /\ Refuses(p, n)
          /\ hint(n) # None
          /\ target' = [target EXCEPT ![p] = hint(n)]
    /\ tries[p] + 1 < MaxAttempts
    /\ Again(p)
    /\ UNCHANGED <<seen, clientVars, connVars, historyVars, nodeVars>>

RoundRobin(p) ==
    /\ \E n \in Addr : Refuses(p, n) /\ hint(n) = None
    /\ tries[p] + 1 < MaxAttempts
    /\ ReadIndex(p)
    /\ UNCHANGED <<target, clientVars, connVars, historyVars, nodeVars>>

\* The last attempt's acknowledgement is returned as it is.
Refused(p) ==
    /\ \E n \in Addr : Refuses(p, n)
    /\ tries[p] + 1 = MaxAttempts
    /\ End(p, "refused")
    /\ UNCHANGED <<target, seen, clientVars, connVars, historyVars, nodeVars>>

Step(p) ==
    \/ Start(p) \/ Check(p) \/ CloseOld(p) \/ Dial(p) \/ DialFails(p)
    \/ SetConn(p) \/ SetService(p) \/ SetAddr(p) \/ Call(p)
    \/ Canceled(p) \/ Unavailable(p) \/ Applied(p)
    \/ FollowHint(p) \/ RoundRobin(p) \/ Refused(p) \/ NextAddr(p)

Next ==
    \/ \E p \in Caller : Step(p)
    \/ \E n \in Addr : Elect(n) \/ Learn(n) \/ Forget(n)
    \/ Kill

\* Every wait of Apply has a deadline, commands keep coming, and a node that
\* runs hears from the leader.  A node that runs does not fail every attempt.
Fairness ==
    /\ \A p \in Caller : WF_vars(Step(p)) /\ SF_vars(Applied(p)) /\ SF_vars(FollowHint(p))
    /\ \A n \in Addr : WF_vars(Learn(n))

Spec == Init /\ [][Next]_vars /\ Fairness

-----------------------------------------------------------------------------
\* Between redials the client's stub is the one of its own connection, which
\* leads to the address that the client takes itself to be at and is open.  Only
\* redials that overlap, or a malformed address, can break this, and the next
\* redial that a caller makes alone mends it.  (client.go 63-80, without a lock)
ClientIsConnected ==
    (\A p \in Caller : pc[p] \notin Redial) =>
        /\ link # "torn" => cc = svc /\ to[svc] = addr
        /\ link = "whole" => open[svc]

\* Every Apply returns, whatever the nodes and the other callers do.
ApplyReturns == \A p \in Caller : pc[p] # "idle" ~> pc[p] = "idle"

\* The client follows the leader: as long as no node dies, commands are applied
\* again and again, wherever the leader moves and whatever attempts fail.
\* ("with leader following and retry logic")
LeaderIsReached ==
    malformed = {} /\ [](alive = Addr) => []<>(\E p \in Caller : result[p] = "applied")
-----------------------------------------------------------------------------
\* The inductive invariant from which ClientIsConnected follows.

\* The connection that a caller installs is its own and leads where it wants.
InstallsItsOwn ==
    \A p \in Caller :
        /\ pc[p] \in Installs => mine[p] \in Conn /\ to[mine[p]] = target[p]
        /\ pc[p] = "wait" => mine[p] \in Conn

\* Redials that overlap are known to.
OverlapIsTorn ==
    /\ \A p, q \in Caller : p # q /\ pc[p] \in Redials /\ pc[q] \in Redials => p \in clash
    /\ \A p \in clash : pc[p] \in Redials /\ link = "torn"

\* A caller that redials alone replaces connection, stub and address one after
\* the other, and none before the new connection is made.
AloneInstalls ==
    \A p \in Caller \ clash :
        /\ pc[p] \in Installs => open[mine[p]]
        /\ pc[p] \in {"setsvc", "setaddr"} => cc = mine[p]
        /\ pc[p] = "setaddr" => svc = mine[p]

StaysConnected ==
    /\ link # "torn" /\ (\A p \in Caller : pc[p] \notin Installs)
        => cc = svc /\ to[svc] = addr
    /\ link = "whole" /\ (\A p \in Caller : pc[p] \notin Redial)
        => open[svc]

ClientInv == TypeOK /\ InstallsItsOwn /\ OverlapIsTorn /\ AloneInstalls /\ StaysConnected
=============================================================================
