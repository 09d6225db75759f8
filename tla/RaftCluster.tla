---------------------------- MODULE RaftCluster ----------------------------
(***************************************************************************)
(* The Raft nodes behind the promise of ProcessedOrders: the RPC server of *)
(* a node with its two leadership checks, the FSM each node applies the    *)
(* committed log to, snapshots and restarts.  Consensus itself is the      *)
(* library's: a committed log that never changes, a leader that changes at *)
(* will, and proposals that a change of leader leaves undecided.           *)
(***************************************************************************)
EXTENDS Orders, Naturals, Sequences, FiniteSets

CONSTANTS
    Node,           \* the cluster's nodes
    Caller,         \* goroutines that call the service
    MaxAttempts,    \* attempts of one Client.Apply
    MaxLog,         \* bound: length of the log
    MaxTerms,       \* bound: elections
    MaxCrashes,     \* bound: crashes of nodes
    MaxSnapshots    \* bound: snapshots taken

ASSUME NodeAssumption  == IsFiniteSet(Node) /\ Node # {} /\ None \notin Node
ASSUME AttemptAssumption == MaxAttempts \in Nat \ {0}
ASSUME BoundAssumption == {MaxLog, MaxTerms, MaxCrashes, MaxSnapshots} \subseteq Nat

VARIABLES
    log,        \* the committed log
    up,         \* nodes that run
    current,    \* the leader that can commit
    role,       \* nodes whose raft.State() is Leader, the deposed included
    fsm,        \* FSM.processed of each node
    applied,    \* the index up to which the node has applied the log
    snap,       \* the last snapshot persisted
    taking,     \* the snapshot taken and being persisted
    orphans,    \* commands nobody waits for that may still be committed
    cmd, call, attempt,     \* as in ProcessedOrders
    at,         \* the node an attempt was sent to
    stage,      \* where the attempt stands in Server.Apply there
    index,      \* the log index of its entry
    count       \* elections, crashes and snapshots so far

nodeVars  == <<up, current, role, fsm, applied, snap, taking, count>>
serverVars == <<at, stage, index>>
callVars  == <<cmd, call, attempt>>
vars == <<log, orphans, nodeVars, callVars, serverVars>>

Processed == [Order -> Command \union {None}]
Nothing   == [o \in Order |-> None]
Snapshot  == [index : 0..MaxLog, state : Processed]
Empty     == [index |-> 0, state |-> Nothing]
Stage     == {"none", "sent", "checked", "proposed", "doomed", "committed"}
Calls     == {"none", "pending", "applied", "duplicate", "retry", "error"}

TypeOK ==
    /\ log \in Seq(Command) /\ Len(log) <= MaxLog
    /\ up \subseteq Node /\ role \subseteq Node /\ current \in Node \union {None}
    /\ fsm \in [Node -> Processed]
    /\ applied \in [Node -> 0..Len(log)]
    /\ snap \in [Node -> Snapshot]
    /\ taking \in [Node -> Snapshot \union {None}]
    /\ orphans \subseteq Command
    /\ cmd \in [Caller -> Command \union {None}]
    /\ call \in [Caller -> Calls]
    /\ attempt \in [Caller -> 0..MaxAttempts]
    /\ at \in [Caller -> Node \union {None}]
    /\ stage \in [Caller -> Stage]
    /\ index \in [Caller -> 0..Len(log)]
    /\ count \in [{"terms", "crashes", "snapshots"} -> Nat]

Init ==
    /\ log = <<>>
    /\ up = Node /\ role = {} /\ current = None
    /\ fsm = [n \in Node |-> Nothing]
    /\ applied = [n \in Node |-> 0]
    /\ snap = [n \in Node |-> Empty]
    /\ taking = [n \in Node |-> None]
    /\ orphans = {}
    /\ cmd = [p \in Caller |-> None]
    /\ call = [p \in Caller |-> "none"]
    /\ attempt = [p \in Caller |-> 0]
    /\ at = [p \in Caller |-> None]
    /\ stage = [p \in Caller |-> "none"]
    /\ index = [p \in Caller |-> 0]
    /\ count = [c \in {"terms", "crashes", "snapshots"} |-> 0]

-----------------------------------------------------------------------------
\* f holds what the first k entries of the log decide: for each order the
\* first of its commands, and nothing else.
FirstIn(k, i) ==
    i \in 1..k /\ \A j \in 1..i - 1 : log[j].order # log[i].order

Matches(f, k) ==
    \A o \in Order :
        \/ f[o] = None /\ \A i \in 1..k : log[i].order # o
        \/ \E i \in 1..k : FirstIn(k, i) /\ log[i].order = o /\ f[o] = log[i]

\* FSM.Apply: the first command of an order is recorded.
Upsert(f, c) == IF f[c.order] = None THEN [f EXCEPT ![c.order] = c] ELSE f

\* Slip: the duplicate flag is never set.
Result_NoFlag(f, c) == "applied"

Result(f, c) == IF f[c.order] = None THEN "applied" ELSE "duplicate"

Bump(c, max) == count[c] < max /\ count' = [count EXCEPT ![c] = @ + 1]

\* The attempts of the callers P are over.
Forget(P) ==
    /\ at' = [p \in Caller |-> IF p \in P THEN None ELSE at[p]]
    /\ stage' = [p \in Caller |-> IF p \in P THEN "none" ELSE stage[p]]
    /\ index' = [p \in Caller |-> IF p \in P THEN 0 ELSE index[p]]

\* Nobody waits for c any longer; it may be committed once, again or never.
Abandon(c) == orphans' = orphans \union {c}

-----------------------------------------------------------------------------
(* The library: elections, commits, crashes.                               *)

Majority == 2 * Cardinality(up) > Cardinality(Node)

\* Proposals of the old leader are answered with an error, in time.
Deposed == [p \in Caller |-> IF stage[p] = "proposed" THEN "doomed" ELSE stage[p]]

\* A node wins an election; the leader before it may not know yet.
Elect(n) ==
    /\ n \in up /\ Majority /\ n # current
    /\ Bump("terms", MaxTerms)
    /\ current' = n
    /\ role' = role \union {n}
    /\ stage' = Deposed
    /\ UNCHANGED <<log, up, fsm, applied, snap, taking, orphans, callVars, at, index>>

StepDown(n) ==
    /\ n \in role \ {current}
    /\ role' = role \ {n}
    /\ UNCHANGED <<log, up, current, fsm, applied, snap, taking, count, orphans,
                   callVars, serverVars>>

Extend(c) ==
    /\ current # None /\ Majority /\ Len(log) < MaxLog
    /\ log' = Append(log, c)

\* The entry of a waiting attempt is committed.
CommitEntry(p) ==
    /\ stage[p] = "proposed"
    /\ Extend(cmd[p])
    /\ index' = [index EXCEPT ![p] = Len(log) + 1]
    /\ stage' = [stage EXCEPT ![p] = "committed"]
    /\ UNCHANGED <<orphans, nodeVars, callVars, at>>

CommitOrphan ==
    /\ \E c \in orphans : Extend(c)
    /\ UNCHANGED <<orphans, nodeVars, callVars, serverVars>>

-----------------------------------------------------------------------------
(* The nodes: FSM, snapshots, restarts.                                    *)

\* The attempts that wait at node n for entry i.
Waiting(n, i) == {p \in Caller : stage[p] = "committed" /\ at[p] = n /\ index[p] = i}

\* A node applies the next entry; the attempt that waits for it there is
\* answered with the FSM's result.
ApplyEntry(n) ==
    /\ n \in up /\ applied[n] < Len(log)
    /\ LET i == applied[n] + 1
           c == log[i]
       IN  /\ fsm' = [fsm EXCEPT ![n] = Upsert(@, c)]
           /\ applied' = [applied EXCEPT ![n] = i]
           /\ call' = [p \in Caller |->
                          IF p \in Waiting(n, i) THEN Result(fsm[n], c) ELSE call[p]]
           /\ Forget(Waiting(n, i))
    /\ UNCHANGED <<log, up, current, role, snap, taking, count, orphans, cmd, attempt>>

\* FSM.Snapshot copies the map; Persist writes the copy while entries go on
\* being applied, or fails and cancels the sink.
TakeSnapshot(n) ==
    /\ n \in up /\ taking[n] = None /\ applied[n] > snap[n].index
    /\ Bump("snapshots", MaxSnapshots)
    /\ taking' = [taking EXCEPT ![n] = [index |-> applied[n], state |-> fsm[n]]]
    /\ UNCHANGED <<log, up, current, role, fsm, applied, snap, orphans, callVars, serverVars>>

\* Slip: Snapshot keeps a reference to the live map.
Persist_Live(n) ==
    /\ taking[n] # None
    /\ snap' \in {snap, [snap EXCEPT ![n] = [index |-> taking[n].index, state |-> fsm[n]]]}
    /\ taking' = [taking EXCEPT ![n] = None]
    /\ UNCHANGED <<log, up, current, role, fsm, applied, count, orphans, callVars, serverVars>>

Persist(n) ==
    /\ taking[n] # None
    /\ snap' \in {snap, [snap EXCEPT ![n] = taking[n]]}
    /\ taking' = [taking EXCEPT ![n] = None]
    /\ UNCHANGED <<log, up, current, role, fsm, applied, count, orphans, callVars, serverVars>>

\* Slip: a snapshot is restored although the node is ahead of it.
InstallSnapshot_Older(n) ==
    /\ n \in up /\ current \in up \ {n}
    /\ fsm' = [fsm EXCEPT ![n] = snap[current].state]
    /\ applied' = [applied EXCEPT ![n] = snap[current].index]
    /\ snap' = [snap EXCEPT ![n] = snap[current]]
    /\ taking' = [taking EXCEPT ![n] = None]
    /\ UNCHANGED <<log, up, current, role, count, orphans, callVars, serverVars>>

\* The leader sends its snapshot to a node that lags behind it: FSM.Restore.
InstallSnapshot(n) ==
    /\ n \in up /\ current \in up \ {n}
    /\ snap[current].index > applied[n]
    /\ fsm' = [fsm EXCEPT ![n] = snap[current].state]
    /\ applied' = [applied EXCEPT ![n] = snap[current].index]
    /\ snap' = [snap EXCEPT ![n] = snap[current]]
    /\ taking' = [taking EXCEPT ![n] = None]
    /\ UNCHANGED <<log, up, current, role, count, orphans, callVars, serverVars>>

\* A node dies: its map is gone, its log and snapshot are not, and nobody will
\* answer the attempts sent to it.
Crash(n) ==
    /\ n \in up
    /\ Bump("crashes", MaxCrashes)
    /\ up' = up \ {n} /\ role' = role \ {n}
    /\ taking' = [taking EXCEPT ![n] = None]
    /\ IF current = n THEN current' = None /\ stage' = Deposed
                      ELSE UNCHANGED <<current, stage>>
    /\ at' = [p \in Caller |-> IF at[p] = n THEN None ELSE at[p]]
    /\ UNCHANGED <<log, fsm, applied, snap, orphans, callVars, index>>

\* Slip: the snapshot is not restored.
Restart_NoRestore(n) ==
    /\ n \notin up
    /\ up' = up \union {n}
    /\ fsm' = [fsm EXCEPT ![n] = Nothing]
    /\ applied' = [applied EXCEPT ![n] = snap[n].index]
    /\ UNCHANGED <<log, current, role, snap, taking, count, orphans, callVars, serverVars>>

\* It starts with an empty map, restores the snapshot and replays the log.
Restart(n) ==
    /\ n \notin up
    /\ up' = up \union {n}
    /\ fsm' = [fsm EXCEPT ![n] = snap[n].state]
    /\ applied' = [applied EXCEPT ![n] = snap[n].index]
    /\ UNCHANGED <<log, current, role, snap, taking, count, orphans, callVars, serverVars>>

-----------------------------------------------------------------------------
(* The callers and Server.Apply.                                           *)

\* An attempt is sent to some node: the first address, a leader hint or the
\* next address in turn.
Send(p) ==
    /\ call' = [call EXCEPT ![p] = "pending"]
    /\ stage' = [stage EXCEPT ![p] = "sent"]
    /\ \E n \in Node : at' = [at EXCEPT ![p] = n]
    /\ UNCHANGED <<log, orphans, nodeVars, index>>

Begin(p, c) ==
    /\ call[p] = "none"
    /\ cmd' = [cmd EXCEPT ![p] = c]
    /\ attempt' = [attempt EXCEPT ![p] = 1]
    /\ Send(p)

\* Slip: one attempt too many.
Retry_OneMore(p) ==
    /\ call[p] = "retry" /\ attempt[p] <= MaxAttempts
    /\ attempt' = [attempt EXCEPT ![p] = @ + 1]
    /\ UNCHANGED cmd
    /\ Send(p)

Retry(p) ==
    /\ call[p] = "retry" /\ attempt[p] < MaxAttempts
    /\ attempt' = [attempt EXCEPT ![p] = @ + 1]
    /\ UNCHANGED cmd
    /\ Send(p)

\* The attempt ends without an answer that counts.
Drop(p, s) ==
    /\ call' = [call EXCEPT ![p] = s]
    /\ Forget({p})
    /\ UNCHANGED <<log, nodeVars, cmd, attempt>>

\* IsLeader in Server.Apply: refused with a hint, or let through.
CheckLeader(p) ==
    /\ stage[p] = "sent" /\ at[p] \in up
    /\ IF at[p] \in role
       THEN /\ stage' = [stage EXCEPT ![p] = "checked"]
            /\ UNCHANGED <<log, orphans, nodeVars, callVars, at, index>>
       ELSE Drop(p, "retry") /\ UNCHANGED orphans

\* IsLeader again in Node.Apply, then raft.Apply: a deposed leader takes the
\* command too, and will answer that leadership was lost.
Propose(p) ==
    /\ stage[p] = "checked" /\ at[p] \in up
    /\ IF at[p] \in role
       THEN /\ stage' = [stage EXCEPT ![p] = IF at[p] = current THEN "proposed" ELSE "doomed"]
            /\ UNCHANGED <<log, orphans, nodeVars, callVars, at, index>>
       ELSE Drop(p, "retry") /\ UNCHANGED orphans

\* The future fails: "apply failed".  The entry may survive all the same.
FailApply(p) ==
    /\ "rpc" \in Faults
    /\ stage[p] = "doomed"
    /\ Drop(p, "retry")
    /\ Abandon(cmd[p])

\* The call fails: dropped by chaos, deadline, a dead node or connection.  The
\* server may go on with it.
Lose(p) ==
    /\ "rpc" \in Faults
    /\ call[p] \in {"pending", "applied", "duplicate"}
    /\ \E s \in {"retry", "error"} : Drop(p, s)
    /\ IF call[p] = "pending" /\ stage[p] # "committed"
       THEN Abandon(cmd[p]) ELSE UNCHANGED orphans

GaveUp(p) == call[p] = "error" \/ (call[p] = "retry" /\ attempt[p] = MaxAttempts)

\* The caller is done with the answer.
Return(p) ==
    /\ call[p] \in {"applied", "duplicate"} \/ GaveUp(p)
    /\ call' = [call EXCEPT ![p] = "none"]
    /\ cmd' = [cmd EXCEPT ![p] = None]
    /\ attempt' = [attempt EXCEPT ![p] = 0]
    /\ UNCHANGED <<log, orphans, nodeVars, serverVars>>

Next ==
    \/ \E n \in Node : Elect(n) \/ StepDown(n) \/ ApplyEntry(n) \/ TakeSnapshot(n)
                       \/ Persist(n) \/ InstallSnapshot(n) \/ Crash(n) \/ Restart(n)
    \/ CommitOrphan
    \/ \E p \in Caller, c \in Command : Begin(p, c)
    \/ \E p \in Caller : CommitEntry(p) \/ Retry(p) \/ CheckLeader(p) \/ Propose(p)
                         \/ FailApply(p) \/ Lose(p) \/ Return(p)

Spec == Init /\ [][Next]_vars

-----------------------------------------------------------------------------
\* The map of a node is what the entries it has applied decide, through
\* snapshots, installs and restarts: so a Read never finds what is not decided.
ReplicaMatchesLog == \A n \in up : Matches(fsm[n], applied[n])

\* A snapshot says what the log up to its index decides, although entries are
\* applied while it is persisted.
SnapshotMatchesLog == \A n \in Node : Matches(snap[n].state, snap[n].index)

\* The same of the maps that no Read sees: those of nodes that are down, and
\* the copies that are being persisted.
CopiesMatchLog ==
    /\ \A n \in Node : Matches(fsm[n], applied[n])
    /\ \A n \in Node : taking[n] # None => Matches(taking[n].state, taking[n].index)

\* Nothing is ahead of the log.
WithinLog ==
    \A n \in Node : snap[n].index <= Len(log) /\ (taking[n] # None => taking[n].index <= Len(log))

\* An order that has an entry has a first one.
FirstExists ==
    \A i \in 1..Len(log) :
        \E j \in 1..Len(log) : FirstIn(Len(log), j) /\ log[j].order = log[i].order

\* An attempt is somewhere in Server.Apply exactly while its caller waits, and
\* one whose entry is committed waits for an entry with its command.
AttemptsBelong ==
    \A p \in Caller :
        /\ stage[p] # "none" <=> call[p] = "pending"
        /\ call[p] # "none" => cmd[p] \in Command
        /\ stage[p] = "committed" => index[p] \in 1..Len(log) /\ log[index[p]] = cmd[p]

\* The inductive invariant of the cluster.
ClusterInv ==
    /\ TypeOK
    /\ ReplicaMatchesLog
    /\ SnapshotMatchesLog
    /\ CopiesMatchLog
    /\ WithinLog
    /\ FirstExists
    /\ AttemptsBelong

\* While a node runs, an order that a Read found there is found again, with
\* the same record: neither Restore nor Apply takes it away.
FoundStaysFound ==
    [][\A n \in up \intersect up', o \in Order :
          fsm[n][o] # None => fsm'[n][o] = fsm[n][o]]_vars

-----------------------------------------------------------------------------
\* The committed log as the ledger of ProcessedOrders.
winner(o) == CHOOSE i \in DOMAIN log : FirstIn(Len(log), i) /\ log[i].order = o

ledger ==
    [o \in Order |->
        IF \E i \in DOMAIN log : log[i].order = o THEN log[winner(o)] ELSE None]

\* An attempt is answered, for ProcessedOrders, when its entry is committed.
answered ==
    [p \in Caller |->
        IF stage[p] # "committed" THEN call[p]
        ELSE IF FirstIn(Len(log), index[p]) THEN "applied" ELSE "duplicate"]

Promise == INSTANCE ProcessedOrders WITH
    ledger <- ledger,
    call <- answered,
    orphans <- {c \in orphans : ledger[c.order] = None}

\* The cluster keeps the promise: the first command committed for an order
\* wins, its caller alone is told "applied", and what the leader's FSM says
\* when it catches up is what the log had decided.
ImplementsPromise == Promise!RaftSpec
=============================================================================
