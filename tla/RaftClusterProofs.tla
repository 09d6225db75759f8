------------------------- MODULE RaftClusterProofs -------------------------
(***************************************************************************)
(* Proofs about the Raft cluster, for every number of nodes, callers,      *)
(* commands, elections, crashes and snapshots: replicas and snapshots are  *)
(* what the log decides, and the cluster keeps the promise ProcessedOrders *)
(* makes to its callers.                                                   *)
(***************************************************************************)
EXTENDS RaftCluster, TLAPS

-----------------------------------------------------------------------------
(* What a log decides, for any log l.                                      *)

FirstOf(l, k, i) == i \in 1..k /\ \A j \in 1..i - 1 : l[j].order # l[i].order

MatchesOf(l, f, k) ==
    \A o \in Order :
        \/ f[o] = None /\ \A i \in 1..k : l[i].order # o
        \/ \E i \in 1..k : FirstOf(l, k, i) /\ l[i].order = o /\ f[o] = l[i]

LEMMA MatchesLog == \A f, k : Matches(f, k) <=> MatchesOf(log, f, k)
BY DEF Matches, MatchesOf, FirstIn, FirstOf

LEMMA CommandHasOrder == \A c \in Command : c.order \in Order /\ c # None
BY CommandAssumption, NoneAssumption

\* An order has one first entry, however much of the log is looked at.
LEMMA FirstIsUnique ==
  ASSUME NEW l, NEW k \in Nat, NEW m \in Nat, NEW i, NEW j,
         FirstOf(l, k, i), FirstOf(l, m, j), l[i].order = l[j].order
  PROVE  i = j
<1>1. i \in Nat \ {0} /\ j \in Nat \ {0}
  BY DEF FirstOf
<1>2. ~(i < j) /\ ~(j < i)
  BY <1>1 DEF FirstOf
<1>. QED  BY <1>1, <1>2

\* Appending an entry leaves those before it where they are.
LEMMA AppendKeeps ==
  ASSUME NEW l \in Seq(Command), NEW c \in Command
  PROVE  /\ Append(l, c) \in Seq(Command) /\ Len(Append(l, c)) = Len(l) + 1
         /\ Len(l) \in Nat /\ Append(l, c)[Len(l) + 1] = c
         /\ \A i \in 1..Len(l) : Append(l, c)[i] = l[i] /\ l[i] \in Command
OBVIOUS

\* A map that says what a prefix of the log decides goes on saying so.
LEMMA MatchesAppend ==
  ASSUME NEW l \in Seq(Command), NEW c \in Command, NEW f, NEW k \in 0..Len(l),
         MatchesOf(l, f, k)
  PROVE  MatchesOf(Append(l, c), f, k)
<1> DEFINE m == Append(l, c)
<1>1. \A i \in 1..k : m[i] = l[i]
  BY AppendKeeps
<1>2. ASSUME NEW i \in 1..k, FirstOf(l, k, i) PROVE FirstOf(m, k, i)
  BY <1>1, <1>2 DEF FirstOf
<1> HIDE DEF m
<1>. QED  BY <1>1, <1>2 DEF MatchesOf, m

\* FSM.Apply of the next entry: what one more entry decides.
LEMMA MatchesUpsert ==
  ASSUME NEW l \in Seq(Command), NEW f \in Processed, NEW k \in Nat, k < Len(l),
         MatchesOf(l, f, k)
  PROVE  MatchesOf(l, Upsert(f, l[k + 1]), k + 1)
<1> DEFINE c == l[k + 1]
           g == Upsert(f, c)
<1>1. c \in Command /\ c.order \in Order /\ c # None
  BY CommandHasOrder
<1> SUFFICES ASSUME NEW o \in Order
             PROVE  \/ g[o] = None /\ \A i \in 1..k + 1 : l[i].order # o
                    \/ \E i \in 1..k + 1 : FirstOf(l, k + 1, i) /\ l[i].order = o /\ g[o] = l[i]
  BY DEF MatchesOf
<1>2. CASE f[o] = None /\ \A i \in 1..k : l[i].order # o
  <2>1. CASE o = c.order
    <3>1. FirstOf(l, k + 1, k + 1)
      BY <1>2, <2>1 DEF FirstOf
    <3>2. g[o] = c
      BY <1>1, <1>2, <2>1 DEF Upsert, Processed
    <3>. QED  BY <2>1, <3>1, <3>2
  <2>2. CASE o # c.order
    <3>1. g[o] = None
      BY <1>2, <2>2 DEF Upsert, Processed
    <3>. QED  BY <1>2, <2>2, <3>1
  <2>. QED  BY <2>1, <2>2
<1>3. ASSUME NEW i \in 1..k, FirstOf(l, k, i), l[i].order = o, f[o] = l[i]
      PROVE  i \in 1..k + 1 /\ FirstOf(l, k + 1, i) /\ l[i].order = o /\ g[o] = l[i]
  <2>1. l[i] # None
    BY <1>3, CommandHasOrder
  <2>2. g[o] = f[o]
    BY <1>3, <2>1 DEF Upsert, Processed
  <2>. QED  BY <1>3, <2>2 DEF FirstOf
<1>. QED  BY <1>2, <1>3 DEF MatchesOf

\* The flag of the answer: the order is new to the map exactly if the entry
\* applied next is the order's first in the whole log.
LEMMA ResultIsFirst ==
  ASSUME NEW l \in Seq(Command), NEW f \in Processed, NEW k \in Nat, k < Len(l),
         MatchesOf(l, f, k)
  PROVE  f[l[k + 1].order] = None <=> FirstOf(l, Len(l), k + 1)
<1> DEFINE o == l[k + 1].order
<1>1. o \in Order /\ \A i \in 1..k : l[i] # None
  BY CommandHasOrder
<1> HIDE DEF o
<1>2. CASE f[o] = None /\ \A i \in 1..k : l[i].order # o
  BY <1>2 DEF FirstOf, o
<1>3. CASE \E i \in 1..k : FirstOf(l, k, i) /\ l[i].order = o /\ f[o] = l[i]
  BY <1>1, <1>3 DEF FirstOf, o
<1>. QED  BY <1>1, <1>2, <1>3 DEF MatchesOf, o

\* Two maps agree on what both have: the one that is ahead has all of it.
LEMMA MatchesAgree ==
  ASSUME NEW l, NEW f, NEW g, NEW k \in Nat, NEW m \in Nat, k <= m,
         MatchesOf(l, f, k), MatchesOf(l, g, m), NEW o \in Order, f[o] # None
  PROVE  g[o] = f[o]
<1>1. PICK i \in 1..k : FirstOf(l, k, i) /\ l[i].order = o /\ f[o] = l[i]
  BY DEF MatchesOf
<1>2. PICK j \in 1..m : FirstOf(l, m, j) /\ l[j].order = o /\ g[o] = l[j]
  BY <1>1 DEF MatchesOf
<1>3. i = j
  BY <1>1, <1>2, FirstIsUnique
<1>. QED  BY <1>1, <1>2, <1>3

LEMMA NothingMatches == \A l : MatchesOf(l, Nothing, 0)
BY DEF MatchesOf, Nothing

-----------------------------------------------------------------------------
(* The invariant, node by node and caller by caller.                       *)

\* The maps of a node: in memory, on disk and on the way there.
NodeOK(n) ==
    /\ MatchesOf(log, fsm[n], applied[n])
    /\ MatchesOf(log, snap[n].state, snap[n].index)
    /\ snap[n].index <= Len(log)
    /\ taking[n] # None =>
           MatchesOf(log, taking[n].state, taking[n].index) /\ taking[n].index <= Len(log)

CallerOK(p) ==
    /\ stage[p] # "none" <=> call[p] = "pending"
    /\ call[p] # "none" => cmd[p] \in Command
    /\ stage[p] = "committed" => index[p] \in 1..Len(log) /\ log[index[p]] = cmd[p]

LEMMA InvParts ==
  ClusterInv <=> /\ TypeOK /\ FirstExists
                 /\ \A n \in Node : NodeOK(n)
                 /\ \A p \in Caller : CallerOK(p)
BY MatchesLog
DEF ClusterInv, TypeOK, ReplicaMatchesLog, SnapshotMatchesLog, CopiesMatchLog, WithinLog,
    AttemptsBelong, NodeOK, CallerOK

LEMMA NextInvParts ==
  ClusterInv' <=> /\ TypeOK' /\ FirstExists'
                  /\ \A n \in Node : NodeOK(n)'
                  /\ \A p \in Caller : CallerOK(p)'
<1>1. ASSUME NEW n \in Node
      PROVE  /\ Matches(fsm[n], applied[n])' <=> MatchesOf(log', fsm'[n], applied'[n])
             /\ Matches(snap[n].state, snap[n].index)'
                    <=> MatchesOf(log', snap'[n].state, snap'[n].index)
             /\ Matches(taking[n].state, taking[n].index)'
                    <=> MatchesOf(log', taking'[n].state, taking'[n].index)
  BY DEF Matches, MatchesOf, FirstIn, FirstOf
<1>2. (\A n \in Node : NodeOK(n)') <=> SnapshotMatchesLog' /\ CopiesMatchLog' /\ WithinLog'
  BY <1>1 DEF NodeOK, SnapshotMatchesLog, CopiesMatchLog, WithinLog
<1>3. TypeOK' /\ CopiesMatchLog' => ReplicaMatchesLog'
  BY <1>1 DEF TypeOK, CopiesMatchLog, ReplicaMatchesLog
<1>4. (\A p \in Caller : CallerOK(p)') <=> AttemptsBelong'
  BY DEF AttemptsBelong, CallerOK
<1>. QED  BY <1>2, <1>3, <1>4 DEF ClusterInv

\* A node, a caller and a log that stay as they are.
LEMMA NodeKept ==
  ASSUME NEW n \in Node, NodeOK(n), log' = log, fsm'[n] = fsm[n],
         applied'[n] = applied[n], snap'[n] = snap[n], taking'[n] = taking[n]
  PROVE  NodeOK(n)'
BY DEF NodeOK, MatchesOf, FirstOf

LEMMA CallerKept ==
  ASSUME NEW p \in Caller, CallerOK(p), log' = log, stage'[p] = stage[p],
         call'[p] = call[p], cmd'[p] = cmd[p], index'[p] = index[p]
  PROVE  CallerOK(p)'
BY DEF CallerOK

LEMMA FirstKept ==
  ASSUME FirstExists, log' = log
  PROVE  FirstExists'
BY DEF FirstExists, FirstIn

\* What is known of the data of a node.
LEMMA NodeData ==
  ASSUME ClusterInv, NEW n \in Node
  PROVE  /\ fsm[n] \in Processed /\ applied[n] \in 0..Len(log) /\ applied[n] <= MaxLog
         /\ snap[n] \in Snapshot /\ snap[n].index \in 0..Len(log) /\ snap[n].state \in Processed
         /\ taking[n] # None => taking[n] \in Snapshot /\ taking[n].index \in 0..Len(log)
         /\ Len(log) \in Nat
<1>1. /\ fsm[n] \in Processed /\ applied[n] \in 0..Len(log) /\ Len(log) \in Nat /\ Len(log) <= MaxLog
      /\ snap[n] \in Snapshot /\ (taking[n] # None => taking[n] \in Snapshot)
  BY DEF ClusterInv, TypeOK
<1>2. snap[n].index <= Len(log) /\ (taking[n] # None => taking[n].index <= Len(log))
  BY DEF ClusterInv, WithinLog
<1>. QED  BY <1>1, <1>2, BoundAssumption DEF Snapshot

\* No entry has been committed, and no call is on its way.
LEMMA InitInv == Init => ClusterInv
<1> SUFFICES ASSUME Init PROVE ClusterInv
  OBVIOUS
<1> USE DEF Init
<1>1. Len(log) = 0 /\ log \in Seq(Command)
  OBVIOUS
<1>2. Nothing \in Processed /\ Empty \in Snapshot
  BY BoundAssumption DEF Nothing, Processed, Empty, Snapshot
<1>3. TypeOK
  BY <1>1, <1>2, BoundAssumption, AttemptAssumption DEF TypeOK, Calls, Stage
<1>4. \A n \in Node : NodeOK(n)
  BY <1>1, NothingMatches DEF NodeOK, Empty
<1>5. FirstExists /\ \A p \in Caller : CallerOK(p)
  BY <1>1 DEF FirstExists, CallerOK
<1>. QED  BY <1>3, <1>4, <1>5, InvParts

-----------------------------------------------------------------------------
(* The log grows.                                                          *)

LEMMA ExtendKeepsMaps ==
  ASSUME ClusterInv, NEW c \in Command, Extend(c), UNCHANGED <<fsm, applied, snap, taking>>
  PROVE  /\ FirstExists' /\ \A n \in Node : NodeOK(n)'
         /\ log' \in Seq(Command) /\ Len(log') = Len(log) + 1 /\ Len(log') <= MaxLog
         /\ log'[Len(log) + 1] = c /\ \A i \in 1..Len(log) : log'[i] = log[i]
<1>0. log \in Seq(Command) /\ Len(log) \in Nat
  BY DEF ClusterInv, TypeOK
<1>1. /\ log' = Append(log, c) /\ log' \in Seq(Command) /\ Len(log') = Len(log) + 1
      /\ log'[Len(log) + 1] = c /\ \A i \in 1..Len(log) : log'[i] = log[i]
      /\ Len(log) < MaxLog
  BY <1>0, AppendKeeps DEF Extend
<1>2. ASSUME NEW n \in Node PROVE NodeOK(n)'
  <2>1. /\ applied[n] \in 0..Len(log) /\ snap[n].index \in 0..Len(log)
        /\ taking[n] # None => taking[n].index \in 0..Len(log)
    BY NodeData
  <2>2. NodeOK(n)
    BY InvParts
  <2>3. /\ MatchesOf(log', fsm[n], applied[n])
        /\ MatchesOf(log', snap[n].state, snap[n].index)
        /\ taking[n] # None => MatchesOf(log', taking[n].state, taking[n].index)
    BY <1>0, <1>1, <2>1, <2>2, MatchesAppend DEF NodeOK
  <2>4. snap[n].index <= Len(log') /\ (taking[n] # None => taking[n].index <= Len(log'))
    BY <1>0, <1>1, <2>1
  <2>. QED  BY <2>3, <2>4 DEF NodeOK
<1>3. FirstExists'
  <2> DEFINE k == Len(log)
  <2>1. FirstExists
    BY InvParts
  <2>2. ASSUME NEW j \in 1..k, FirstIn(k, j)
        PROVE  FirstOf(log', k + 1, j) /\ j \in 1..k + 1
    BY <1>0, <1>1, <2>2 DEF FirstIn, FirstOf
  <2> SUFFICES ASSUME NEW i \in 1..k + 1
               PROVE  \E j \in 1..k + 1 : FirstOf(log', k + 1, j) /\ log'[j].order = log'[i].order
    BY <1>0, <1>1 DEF FirstExists, FirstIn, FirstOf
  <2>3. CASE i \in 1..k
    <3>1. PICK j \in 1..k : FirstIn(k, j) /\ log[j].order = log[i].order
      BY <2>1, <2>3 DEF FirstExists
    <3>. QED  BY <1>0, <1>1, <2>2, <2>3, <3>1
  <2>4. CASE i = k + 1
    <3>1. CASE \E m \in 1..k : log[m].order = c.order
      <4>1. PICK j \in 1..k : FirstIn(k, j) /\ log[j].order = c.order
        BY <2>1, <3>1 DEF FirstExists
      <4>. QED  BY <1>0, <1>1, <2>2, <2>4, <4>1
    <3>2. CASE ~\E m \in 1..k : log[m].order = c.order
      <4>1. FirstOf(log', k + 1, k + 1)
        BY <1>0, <1>1, <3>2 DEF FirstOf
      <4>. QED  BY <1>0, <2>4, <4>1
    <3>. QED  BY <3>1, <3>2
  <2>. QED  BY <1>0, <2>3, <2>4
<1>. QED  BY <1>0, <1>1, <1>2, <1>3, BoundAssumption

\* An entry is committed, somebody waiting for it or not.
LEMMA ExtendInv ==
  ASSUME ClusterInv, CommitOrphan \/ \E p \in Caller : CommitEntry(p)
  PROVE  ClusterInv'
<1>1. PICK c \in Command :
        /\ Extend(c) /\ UNCHANGED <<orphans, nodeVars, callVars, at>>
        /\ \/ UNCHANGED serverVars
           \/ \E p \in Caller :
                 /\ stage[p] = "proposed" /\ c = cmd[p]
                 /\ index' = [index EXCEPT ![p] = Len(log) + 1]
                 /\ stage' = [stage EXCEPT ![p] = "committed"]
  <2>1. ASSUME NEW p \in Caller, CommitEntry(p) PROVE cmd[p] \in Command
    BY <2>1 DEF CommitEntry, ClusterInv, AttemptsBelong
  <2>2. orphans \subseteq Command
    BY DEF ClusterInv, TypeOK
  <2>3. CASE CommitOrphan
    <3>1. PICK c \in orphans : Extend(c)
      BY <2>3 DEF CommitOrphan
    <3>2. c \in Command /\ UNCHANGED <<orphans, nodeVars, callVars, at>> /\ UNCHANGED serverVars
      BY <2>2, <2>3 DEF CommitOrphan, serverVars
    <3>. QED  BY <3>1, <3>2
  <2>4. ASSUME NEW p \in Caller, CommitEntry(p)
        PROVE  /\ stage[p] = "proposed" /\ Extend(cmd[p])
               /\ index' = [index EXCEPT ![p] = Len(log) + 1]
               /\ stage' = [stage EXCEPT ![p] = "committed"]
               /\ UNCHANGED <<orphans, nodeVars, callVars, at>>
    BY <2>4 DEF CommitEntry
  <2>. QED  BY <2>1, <2>3, <2>4
<1>2. /\ FirstExists' /\ \A n \in Node : NodeOK(n)'
      /\ log' \in Seq(Command) /\ Len(log') = Len(log) + 1 /\ Len(log') <= MaxLog
      /\ log'[Len(log) + 1] = c /\ \A i \in 1..Len(log) : log'[i] = log[i]
  BY <1>1, ExtendKeepsMaps DEF nodeVars
<1>3. Len(log) \in Nat
  BY DEF ClusterInv, TypeOK
<1>4. TypeOK'
  <2>1. applied' \in [Node -> 0..Len(log')]
    BY <1>1, <1>2, <1>3 DEF nodeVars, ClusterInv, TypeOK
  <2>2. index' \in [Caller -> 0..Len(log')] /\ stage' \in [Caller -> Stage]
    <3>1. /\ index \in [Caller -> 0..Len(log')] /\ Len(log) + 1 \in 0..Len(log')
          /\ stage \in [Caller -> Stage] /\ "committed" \in Stage
      BY <1>2, <1>3 DEF ClusterInv, TypeOK, Stage
    <3>2. CASE UNCHANGED serverVars
      BY <3>1, <3>2 DEF serverVars
    <3>3. CASE \E p \in Caller : /\ index' = [index EXCEPT ![p] = Len(log) + 1]
                                /\ stage' = [stage EXCEPT ![p] = "committed"]
      BY <3>1, <3>3
    <3>. QED  BY <1>1, <3>2, <3>3
  <2>. QED  BY <1>1, <1>2, <2>1, <2>2 DEF nodeVars, callVars, ClusterInv, TypeOK
<1>5. ASSUME NEW q \in Caller PROVE CallerOK(q)'
  <2>0. CallerOK(q)
    BY InvParts
  <2>1. CASE stage'[q] = stage[q] /\ index'[q] = index[q]
    BY <1>1, <1>2, <1>3, <2>0, <2>1 DEF CallerOK, callVars
  <2>2. CASE /\ stage[q] = "proposed" /\ c = cmd[q]
             /\ stage'[q] = "committed" /\ index'[q] = Len(log) + 1
    BY <1>1, <1>2, <1>3, <2>0, <2>2 DEF CallerOK, callVars
  <2>. QED  BY <1>1, <2>1, <2>2 DEF serverVars, ClusterInv, TypeOK
<1>. QED  BY <1>2, <1>4, <1>5, NextInvParts

-----------------------------------------------------------------------------
(* The nodes.                                                              *)

\* Forgetting attempts touches no other.
LEMMA ForgetFacts ==
  ASSUME NEW P, Forget(P), NEW p \in Caller
  PROVE  /\ p \in P => stage'[p] = "none"
         /\ p \notin P => stage'[p] = stage[p] /\ index'[p] = index[p]
BY DEF Forget

LEMMA ForgetType ==
  ASSUME TypeOK, NEW P, Forget(P), log' = log
  PROVE  /\ at' \in [Caller -> Node \union {None}]
         /\ stage' \in [Caller -> Stage]
         /\ index' \in [Caller -> 0..Len(log')]
BY DEF Forget, TypeOK, Stage

\* Applying the next entry, and answering who waits for it.
LEMMA ApplyEntryInv ==
  ASSUME ClusterInv, NEW n \in Node, ApplyEntry(n)
  PROVE  ClusterInv'
<1> DEFINE i == applied[n] + 1
           c == log[i]
           W == Waiting(n, i)
<1>0. /\ log \in Seq(Command) /\ Len(log) \in Nat /\ applied[n] \in Nat /\ applied[n] < Len(log)
      /\ fsm[n] \in Processed /\ i \in 1..Len(log) /\ c \in Command /\ c.order \in Order
  BY NodeData, CommandHasOrder DEF ClusterInv, TypeOK, ApplyEntry
<1>1. /\ fsm' = [fsm EXCEPT ![n] = Upsert(fsm[n], c)] /\ applied' = [applied EXCEPT ![n] = i]
      /\ call' = [p \in Caller |-> IF p \in W THEN Result(fsm[n], c) ELSE call[p]]
      /\ Forget(W)
      /\ UNCHANGED <<log, up, current, role, snap, taking, count, orphans, cmd, attempt>>
  BY DEF ApplyEntry
<1>2. Upsert(fsm[n], c) \in Processed
  BY <1>0 DEF Upsert, Processed
<1>3. ASSUME NEW m \in Node PROVE NodeOK(m)'
  <2>0. NodeOK(m)
    BY InvParts
  <2>1. CASE m = n
    <3>1. MatchesOf(log, Upsert(fsm[n], c), applied[n] + 1)
      BY <1>0, <2>0, <2>1, MatchesUpsert DEF NodeOK
    <3>2. fsm'[n] = Upsert(fsm[n], c) /\ applied'[n] = applied[n] + 1
      BY <1>1 DEF ClusterInv, TypeOK
    <3>. QED  BY <1>1, <2>0, <2>1, <3>1, <3>2 DEF NodeOK
  <2>2. CASE m # n
    BY <1>1, <2>0, <2>2, NodeKept DEF ClusterInv, TypeOK
  <2>. QED  BY <2>1, <2>2
<1>4. TypeOK'
  <2>1. fsm' \in [Node -> Processed] /\ applied' \in [Node -> 0..Len(log')]
    BY <1>0, <1>1, <1>2 DEF ClusterInv, TypeOK
  <2>2. call' \in [Caller -> Calls]
    BY <1>1 DEF ClusterInv, TypeOK, Calls, Result
  <2>. QED  BY <1>1, <2>1, <2>2, ForgetType DEF ClusterInv, TypeOK
<1>5. ASSUME NEW p \in Caller PROVE CallerOK(p)'
  <2>0. CallerOK(p)
    BY InvParts
  <2>1. CASE p \in W
    <3>1. stage'[p] = "none" /\ call'[p] \in {"applied", "duplicate"} /\ cmd'[p] = cmd[p]
      BY <1>1, <2>1, ForgetFacts DEF Result
    <3>2. call[p] = "pending"
      BY <2>0, <2>1 DEF CallerOK, Waiting
    <3>. QED  BY <2>0, <3>1, <3>2 DEF CallerOK
  <2>2. CASE p \notin W
    BY <1>1, <2>0, <2>2, ForgetFacts, CallerKept
  <2>. QED  BY <2>1, <2>2
<1>. QED  BY <1>1, <1>3, <1>4, <1>5, FirstKept, NextInvParts, InvParts

\* Taking a snapshot, writing it, or having it cancelled.
LEMMA SnapshotInv ==
  ASSUME ClusterInv, NEW n \in Node, TakeSnapshot(n) \/ Persist(n)
  PROVE  ClusterInv'
<1>1. /\ UNCHANGED <<log, up, current, role, fsm, applied, orphans, callVars, serverVars>>
      /\ \/ /\ snap' = snap /\ taking[n] = None
            /\ taking' = [taking EXCEPT ![n] = [index |-> applied[n], state |-> fsm[n]]]
         \/ /\ taking' = [taking EXCEPT ![n] = None]
            /\ snap' = snap \/ (taking[n] # None /\ snap' = [snap EXCEPT ![n] = taking[n]])
  BY DEF TakeSnapshot, Persist
<1>2. count' \in [{"terms", "crashes", "snapshots"} -> Nat]
  BY DEF TakeSnapshot, Persist, Bump, ClusterInv, TypeOK
<1>3. ASSUME NEW m \in Node PROVE NodeOK(m)'
  <2>0. NodeOK(m) /\ applied[m] <= Len(log)
    BY InvParts, NodeData
  <2>1. CASE m = n
    BY <1>1, <2>0, <2>1 DEF NodeOK, ClusterInv, TypeOK
  <2>2. CASE m # n
    BY <1>1, <2>0, <2>2, NodeKept DEF ClusterInv, TypeOK
  <2>. QED  BY <2>1, <2>2
<1>4. TypeOK'
  <2>1. [index |-> applied[n], state |-> fsm[n]] \in Snapshot
    BY NodeData, BoundAssumption DEF Snapshot
  <2>2. snap' \in [Node -> Snapshot] /\ taking' \in [Node -> Snapshot \union {None}]
    BY <1>1, <2>1, NodeData DEF ClusterInv, TypeOK
  <2>. QED  BY <1>1, <1>2, <2>2 DEF ClusterInv, TypeOK, callVars, serverVars
<1>5. \A p \in Caller : CallerOK(p)'
  BY <1>1, InvParts, CallerKept DEF callVars, serverVars
<1>. QED  BY <1>1, <1>3, <1>4, <1>5, FirstKept, NextInvParts, InvParts

\* Restoring a snapshot: the node's own after a crash, or the leader's.
LEMMA RestoreInv ==
  ASSUME ClusterInv, NEW n \in Node, InstallSnapshot(n) \/ Restart(n)
  PROVE  ClusterInv'
<1>0. up \subseteq Node
  BY DEF ClusterInv, TypeOK
<1>1. PICK s \in Node :
        /\ fsm' = [fsm EXCEPT ![n] = snap[s].state]
        /\ applied' = [applied EXCEPT ![n] = snap[s].index]
        /\ snap' = [snap EXCEPT ![n] = snap[s]]
        /\ taking' = taking \/ taking' = [taking EXCEPT ![n] = None]
        /\ up' \subseteq Node
        /\ UNCHANGED <<log, current, role, count, orphans, callVars, serverVars>>
  <2>1. CASE InstallSnapshot(n)
    BY <1>0, <2>1 DEF InstallSnapshot
  <2>2. CASE Restart(n)
    <3>1. snap' = [snap EXCEPT ![n] = snap[n]]
      BY <2>2 DEF Restart, ClusterInv, TypeOK
    <3>. QED  BY <1>0, <2>2, <3>1 DEF Restart
  <2>. QED  BY <2>1, <2>2
<1>2. /\ snap[s] \in Snapshot /\ snap[s].state \in Processed /\ snap[s].index \in 0..Len(log)
      /\ MatchesOf(log, snap[s].state, snap[s].index)
  BY NodeData, InvParts DEF NodeOK
<1>3. ASSUME NEW m \in Node PROVE NodeOK(m)'
  <2>0. NodeOK(m)
    BY InvParts
  <2>1. CASE m = n
    BY <1>1, <1>2, <2>0, <2>1 DEF NodeOK, ClusterInv, TypeOK
  <2>2. CASE m # n
    BY <1>1, <2>0, <2>2, NodeKept DEF ClusterInv, TypeOK
  <2>. QED  BY <2>1, <2>2
<1>4. TypeOK'
  <2>1. /\ fsm' \in [Node -> Processed] /\ applied' \in [Node -> 0..Len(log')]
        /\ snap' \in [Node -> Snapshot] /\ taking' \in [Node -> Snapshot \union {None}]
    BY <1>1, <1>2 DEF ClusterInv, TypeOK
  <2>. QED  BY <1>1, <2>1 DEF ClusterInv, TypeOK, callVars, serverVars
<1>5. \A p \in Caller : CallerOK(p)'
  BY <1>1, InvParts, CallerKept DEF callVars, serverVars
<1>. QED  BY <1>1, <1>3, <1>4, <1>5, FirstKept, NextInvParts, InvParts

\* Elections, a deposed leader that notices, and a crash: the attempts stay
\* where they are, those proposed to the old leader without hope.
LEMMA LeaderInv ==
  ASSUME ClusterInv, NEW n \in Node, Elect(n) \/ StepDown(n) \/ Crash(n)
  PROVE  ClusterInv'
<1>1. /\ UNCHANGED <<log, fsm, applied, snap, orphans, callVars, index>>
      /\ taking' = taking \/ taking' = [taking EXCEPT ![n] = None]
      /\ stage' = stage \/ stage' = Deposed
      /\ up' \subseteq Node /\ role' \subseteq Node /\ current' \in Node \union {None}
      /\ at' = at \/ at' = [p \in Caller |-> IF at[p] = n THEN None ELSE at[p]]
  BY DEF Elect, StepDown, Crash, ClusterInv, TypeOK, serverVars
<1>2. count' \in [{"terms", "crashes", "snapshots"} -> Nat]
  BY DEF Elect, StepDown, Crash, Bump, ClusterInv, TypeOK
<1>3. \A m \in Node : NodeOK(m)'
  <2> SUFFICES ASSUME NEW m \in Node PROVE NodeOK(m)'
    OBVIOUS
  <2>1. taking'[m] = taking[m] \/ taking'[m] = None
    BY <1>1 DEF ClusterInv, TypeOK
  <2>. QED  BY <1>1, <2>1, InvParts DEF NodeOK
<1>4. ASSUME NEW p \in Caller PROVE CallerOK(p)'
  <2>1. CallerOK(p)
    BY InvParts
  <2>2. stage'[p] = stage[p] \/ (stage[p] = "proposed" /\ stage'[p] = "doomed")
    BY <1>1 DEF Deposed
  <2>. QED  BY <1>1, <2>1, <2>2 DEF CallerOK, callVars
<1>5. TypeOK'
  <2>1. stage' \in [Caller -> Stage] /\ at' \in [Caller -> Node \union {None}]
    BY <1>1 DEF Deposed, Stage, ClusterInv, TypeOK
  <2>2. taking' \in [Node -> Snapshot \union {None}]
    BY <1>1 DEF ClusterInv, TypeOK
  <2>. QED  BY <1>1, <1>2, <2>1, <2>2 DEF ClusterInv, TypeOK, callVars
<1>. QED  BY <1>1, <1>3, <1>4, <1>5, FirstKept, NextInvParts, InvParts

-----------------------------------------------------------------------------
(* The callers.                                                            *)

\* A step of one caller leaves the nodes and the other callers alone.
LEMMA CallerStepInv ==
  ASSUME ClusterInv, UNCHANGED <<log, nodeVars>>, NEW p \in Caller, CallerOK(p)',
         orphans' \subseteq Command,
         cmd' \in [Caller -> Command \union {None}], call' \in [Caller -> Calls],
         attempt' \in [Caller -> 0..MaxAttempts], at' \in [Caller -> Node \union {None}],
         stage' \in [Caller -> Stage], index' \in [Caller -> 0..Len(log')],
         \A q \in Caller \ {p} : /\ stage'[q] = stage[q] /\ index'[q] = index[q]
                                 /\ call'[q] = call[q] /\ cmd'[q] = cmd[q]
  PROVE  ClusterInv'
<1>1. TypeOK'
  BY DEF ClusterInv, TypeOK, nodeVars
<1>2. \A n \in Node : NodeOK(n)'
  BY InvParts, NodeKept DEF nodeVars
<1>3. \A q \in Caller : CallerOK(q)'
  BY InvParts, CallerKept
<1>. QED  BY <1>1, <1>2, <1>3, FirstKept, NextInvParts, InvParts

\* A call begins, or tries again.
LEMMA SendInv ==
  ASSUME ClusterInv, NEW p \in Caller, (\E c \in Command : Begin(p, c)) \/ Retry(p)
  PROVE  ClusterInv'
<1> USE DEF ClusterInv, TypeOK
<1>0. CallerOK(p)
  BY InvParts
<1>1. /\ Send(p)
      /\ \/ \E c \in Command : cmd' = [cmd EXCEPT ![p] = c] /\ attempt' = [attempt EXCEPT ![p] = 1]
         \/ /\ cmd' = cmd /\ attempt' = [attempt EXCEPT ![p] = @ + 1]
            /\ call[p] = "retry" /\ attempt[p] < MaxAttempts
  BY DEF Begin, Retry
<1>2. cmd' \in [Caller -> Command \union {None}] /\ cmd'[p] \in Command
  BY <1>0, <1>1 DEF CallerOK
<1>3. attempt' \in [Caller -> 0..MaxAttempts]
  <2>1. CASE attempt' = [attempt EXCEPT ![p] = 1]
    BY <2>1, AttemptAssumption
  <2>2. CASE attempt' = [attempt EXCEPT ![p] = @ + 1] /\ attempt[p] < MaxAttempts
    BY <2>2, AttemptAssumption
  <2>. QED  BY <1>1, <2>1, <2>2
<1>4. /\ UNCHANGED <<log, nodeVars, orphans, index>>
      /\ call' = [call EXCEPT ![p] = "pending"] /\ stage' = [stage EXCEPT ![p] = "sent"]
      /\ \E n \in Node : at' = [at EXCEPT ![p] = n]
  BY <1>1 DEF Send
<1>5. /\ call' \in [Caller -> Calls] /\ stage' \in [Caller -> Stage]
      /\ at' \in [Caller -> Node \union {None}] /\ index' \in [Caller -> 0..Len(log')]
      /\ orphans' \subseteq Command
  BY <1>4 DEF Calls, Stage
<1>6. CallerOK(p)'
  BY <1>2, <1>4 DEF CallerOK
<1>. QED  BY <1>1, <1>2, <1>3, <1>4, <1>5, <1>6, CallerStepInv

\* The attempt passes a check of the leadership.
LEMMA PassInv ==
  ASSUME ClusterInv, NEW p \in Caller, stage[p] # "none",
         \E s \in {"checked", "proposed", "doomed"} : stage' = [stage EXCEPT ![p] = s],
         UNCHANGED <<log, orphans, nodeVars, callVars, at, index>>
  PROVE  ClusterInv'
<1> USE DEF ClusterInv, TypeOK
<1>1. stage' \in [Caller -> Stage]
  BY DEF Stage
<1>2. CallerOK(p)'
  BY InvParts DEF CallerOK, callVars
<1>. QED  BY <1>1, <1>2, CallerStepInv DEF callVars

\* The attempt is refused, fails or is lost.
LEMMA DropInv ==
  ASSUME ClusterInv, NEW p \in Caller, call[p] # "none", NEW s \in {"retry", "error"},
         Drop(p, s), orphans' = orphans \/ Abandon(cmd[p])
  PROVE  ClusterInv'
<1> USE DEF ClusterInv, TypeOK
<1>0. CallerOK(p) /\ cmd[p] \in Command
  BY InvParts DEF CallerOK
<1>1. /\ UNCHANGED <<log, nodeVars, cmd, attempt>>
      /\ call' = [call EXCEPT ![p] = s] /\ Forget({p})
  BY DEF Drop
<1>2. orphans' \subseteq Command
  BY <1>0 DEF Abandon
<1>3. call' \in [Caller -> Calls]
  BY <1>1 DEF Calls
<1>4. stage'[p] = "none" /\ call'[p] = s /\ cmd'[p] \in Command
  BY <1>0, <1>1, ForgetFacts
<1>5. CallerOK(p)'
  BY <1>4 DEF CallerOK
<1>6. \A q \in Caller \ {p} : stage'[q] = stage[q] /\ index'[q] = index[q] /\ call'[q] = call[q]
  BY <1>1, ForgetFacts
<1>. QED  BY <1>1, <1>2, <1>3, <1>5, <1>6, ForgetType, CallerStepInv

\* Server.Apply, the ways in which an attempt fails, and the end of a call.
LEMMA ServeInv ==
  ASSUME ClusterInv, NEW p \in Caller,
         CheckLeader(p) \/ Propose(p) \/ FailApply(p) \/ Lose(p) \/ Return(p)
  PROVE  ClusterInv'
<1>0. stage[p] # "none" => call[p] # "none"
  BY InvParts DEF CallerOK
<1>1. CASE CheckLeader(p) \/ Propose(p)
  <2>1. CASE at[p] \in role
    BY <1>1, <2>1, PassInv DEF CheckLeader, Propose
  <2>2. CASE at[p] \notin role
    BY <1>0, <1>1, <2>2, DropInv DEF CheckLeader, Propose
  <2>. QED  BY <2>1, <2>2
<1>2. CASE FailApply(p) \/ Lose(p)
  BY <1>0, <1>2, DropInv DEF FailApply, Lose
<1>3. CASE Return(p)
  <2> USE DEF ClusterInv, TypeOK
  <2>1. /\ call' = [call EXCEPT ![p] = "none"] /\ cmd' = [cmd EXCEPT ![p] = None]
        /\ attempt' = [attempt EXCEPT ![p] = 0]
        /\ UNCHANGED <<log, orphans, nodeVars, serverVars>> /\ call[p] # "pending"
    BY <1>3 DEF Return, GaveUp
  <2>2. /\ call' \in [Caller -> Calls] /\ cmd' \in [Caller -> Command \union {None}]
        /\ attempt' \in [Caller -> 0..MaxAttempts]
    BY <2>1, AttemptAssumption DEF Calls
  <2>3. CallerOK(p)'
    BY <2>1, InvParts DEF CallerOK, serverVars
  <2>. QED  BY <2>1, <2>2, <2>3, CallerStepInv DEF serverVars
<1>. QED  BY <1>1, <1>2, <1>3

-----------------------------------------------------------------------------
\* Every step of the cluster keeps its invariant.
LEMMA NextInv ==
  ASSUME ClusterInv, [Next]_vars
  PROVE  ClusterInv'
<1>1. CASE CommitOrphan \/ \E p \in Caller : CommitEntry(p)
  BY <1>1, ExtendInv
<1>2. ASSUME NEW n \in Node, ApplyEntry(n) PROVE ClusterInv'
  BY <1>2, ApplyEntryInv
<1>3. ASSUME NEW n \in Node, TakeSnapshot(n) \/ Persist(n) PROVE ClusterInv'
  BY <1>3, SnapshotInv
<1>4. ASSUME NEW n \in Node, InstallSnapshot(n) \/ Restart(n) PROVE ClusterInv'
  BY <1>4, RestoreInv
<1>5. ASSUME NEW n \in Node, Elect(n) \/ StepDown(n) \/ Crash(n) PROVE ClusterInv'
  BY <1>5, LeaderInv
<1>6. ASSUME NEW p \in Caller, (\E c \in Command : Begin(p, c)) \/ Retry(p) PROVE ClusterInv'
  BY <1>6, SendInv
<1>7. ASSUME NEW p \in Caller,
             CheckLeader(p) \/ Propose(p) \/ FailApply(p) \/ Lose(p) \/ Return(p)
      PROVE  ClusterInv'
  BY <1>7, ServeInv
<1>8. CASE UNCHANGED vars
  <2> USE <1>8 DEF vars, nodeVars, callVars, serverVars
  <2>1. TypeOK'
    BY DEF ClusterInv, TypeOK
  <2>. QED  BY <2>1, InvParts, NextInvParts, FirstKept, NodeKept, CallerKept
<1>. QED  BY <1>1, <1>2, <1>3, <1>4, <1>5, <1>6, <1>7, <1>8 DEF Next

\* The cluster's invariant holds in every state of every behaviour.
THEOREM ClusterInvariance == Spec => []ClusterInv
BY InitInv, NextInv, PTL DEF Spec

\* The map of a running node is what the entries it has applied decide, through
\* snapshots, restores and replays (fsm.go).
THEOREM ReplicasMatchLog == Spec => []ReplicaMatchesLog
<1>1. ClusterInv => ReplicaMatchesLog
  BY DEF ClusterInv
<1>. QED  BY <1>1, ClusterInvariance, PTL

\* A persisted snapshot is what the log up to its index decides: Snapshot has
\* copied the map before later entries are applied to it.
THEOREM SnapshotsMatchLog == Spec => []SnapshotMatchesLog
<1>1. ClusterInv => SnapshotMatchesLog
  BY DEF ClusterInv
<1>. QED  BY <1>1, ClusterInvariance, PTL

\* Two replicas never disagree on an order that both have.
ReplicasAgree ==
    \A m, n \in Node, o \in Order :
        fsm[m][o] # None /\ fsm[n][o] # None => fsm[m][o] = fsm[n][o]

\* Whichever replica a Read is served by, running or restored, it gives no
\* other record of an order than the rest (server.go reads its own FSM).
THEOREM NoReplicaDisagrees == Spec => []ReplicasAgree
<1>1. ASSUME ClusterInv PROVE ReplicasAgree
  <2> SUFFICES ASSUME NEW m \in Node, NEW n \in Node, NEW o \in Order,
                      fsm[m][o] # None, fsm[n][o] # None
               PROVE  fsm[m][o] = fsm[n][o]
    BY DEF ReplicasAgree
  <2>1. /\ MatchesOf(log, fsm[m], applied[m]) /\ MatchesOf(log, fsm[n], applied[n])
        /\ applied[m] \in Nat /\ applied[n] \in Nat
    BY <1>1, InvParts, NodeData DEF NodeOK
  <2>2. CASE applied[m] <= applied[n]
    BY <2>1, <2>2, MatchesAgree
  <2>3. CASE applied[n] <= applied[m]
    BY <2>1, <2>3, MatchesAgree
  <2>. QED  BY <2>1, <2>2, <2>3
<1>. QED  BY <1>1, ClusterInvariance, PTL

\* One step of FoundStaysFound.
FoundStays ==
    \A n \in up \intersect up', o \in Order : fsm[n][o] # None => fsm'[n][o] = fsm[n][o]

LEMMA FoundStep ==
  ASSUME ClusterInv, [Next]_vars
  PROVE  FoundStays
<1>0. up \subseteq Node
  BY DEF ClusterInv, TypeOK
<1>1. ASSUME NEW n \in Node, ApplyEntry(n) PROVE FoundStays
  <2>1. \A o \in Order : fsm[n][o] # None => Upsert(fsm[n], log[applied[n] + 1])[o] = fsm[n][o]
    BY NodeData DEF Upsert, Processed
  <2>. QED  BY <1>0, <1>1, <2>1 DEF ApplyEntry, FoundStays, ClusterInv, TypeOK
<1>2. ASSUME NEW n \in Node, InstallSnapshot(n) PROVE FoundStays
  <2>1. current \in Node /\ snap[current].index > applied[n]
    BY <1>0, <1>2 DEF InstallSnapshot
  <2>2. /\ MatchesOf(log, fsm[n], applied[n]) /\ applied[n] \in Nat
        /\ MatchesOf(log, snap[current].state, snap[current].index) /\ snap[current].index \in Nat
    BY <2>1, InvParts, NodeData DEF NodeOK
  <2>3. \A o \in Order : fsm[n][o] # None => snap[current].state[o] = fsm[n][o]
    BY <2>1, <2>2, MatchesAgree
  <2>. QED  BY <1>0, <1>2, <2>3 DEF InstallSnapshot, FoundStays, ClusterInv, TypeOK
<1>3. ASSUME NEW n \in Node, Restart(n) PROVE FoundStays
  BY <1>0, <1>3 DEF Restart, FoundStays, ClusterInv, TypeOK
<1>4. CASE fsm' = fsm
  BY <1>4 DEF FoundStays
<1>5. CASE ~\E n \in Node : ApplyEntry(n) \/ InstallSnapshot(n) \/ Restart(n)
  <2>1. fsm' = fsm
    BY <1>5 DEF Next, Elect, StepDown, TakeSnapshot, Persist, Crash, CommitOrphan, Begin, Send,
                CommitEntry, Retry, CheckLeader, Propose, FailApply, Lose, Drop, Return,
                nodeVars, vars
  <2>. QED  BY <1>4, <2>1
<1>. QED  BY <1>1, <1>2, <1>3, <1>5

\* While a node runs, an order that a Read found there is found again, with the
\* same record: neither FSM.Restore nor FSM.Apply takes it away.
THEOREM FoundOrdersStay == Spec => FoundStaysFound
<1>1. ClusterInv /\ [Next]_vars => [FoundStays]_vars
  BY FoundStep
<1>. QED  BY <1>1, ClusterInvariance, PTL DEF Spec, FoundStaysFound, FoundStays

-----------------------------------------------------------------------------
(* The cluster implements ProcessedOrders.                                 *)

\* The ledger a log stands for.
WinnerOf(l, o) == CHOOSE i \in DOMAIN l : FirstOf(l, Len(l), i) /\ l[i].order = o

LedgerOf(l) ==
    [o \in Order |-> IF \E i \in DOMAIN l : l[i].order = o THEN l[WinnerOf(l, o)] ELSE None]

FirstsExist(l) ==
    \A i \in 1..Len(l) : \E j \in 1..Len(l) : FirstOf(l, Len(l), j) /\ l[j].order = l[i].order

\* It is what all the entries together decide ...
LEMMA LedgerMatches ==
  ASSUME NEW l \in Seq(Command), FirstsExist(l)
  PROVE  LedgerOf(l) \in Processed /\ MatchesOf(l, LedgerOf(l), Len(l))
<1>0. DOMAIN l = 1..Len(l) /\ \A i \in DOMAIN l : l[i] \in Command
  OBVIOUS
<1>1. ASSUME NEW o \in Order, \E i \in DOMAIN l : l[i].order = o
      PROVE  /\ WinnerOf(l, o) \in 1..Len(l)
             /\ FirstOf(l, Len(l), WinnerOf(l, o)) /\ l[WinnerOf(l, o)].order = o
  <2>1. \E j \in DOMAIN l : FirstOf(l, Len(l), j) /\ l[j].order = o
    BY <1>0, <1>1 DEF FirstsExist
  <2>. QED  BY <1>0, <2>1 DEF WinnerOf
<1>2. LedgerOf(l) \in Processed
  BY <1>0, <1>1 DEF LedgerOf, Processed
<1>3. MatchesOf(l, LedgerOf(l), Len(l))
  BY <1>0, <1>1 DEF LedgerOf, MatchesOf
<1>. QED  BY <1>2, <1>3

\* ... and the only map that is.
LEMMA MatchIsUnique ==
  ASSUME NEW l \in Seq(Command), NEW f \in Processed, NEW g \in Processed,
         NEW k \in Nat, k <= Len(l), MatchesOf(l, f, k), MatchesOf(l, g, k)
  PROVE  f = g
<1> SUFFICES ASSUME NEW o \in Order PROVE f[o] = g[o]
  BY DEF Processed
<1>1. f[o] # None => g[o] = f[o]
  BY MatchesAgree
<1>2. g[o] # None => f[o] = g[o]
  BY MatchesAgree
<1>. QED  BY <1>1, <1>2

\* Committing an entry is an upsert into the ledger.
LEMMA AppendIsUpsert ==
  ASSUME NEW l \in Seq(Command), NEW c \in Command, FirstsExist(l), FirstsExist(Append(l, c))
  PROVE  LedgerOf(Append(l, c)) = Upsert(LedgerOf(l), c)
<1> DEFINE m == Append(l, c)
           k == Len(l)
           f == LedgerOf(l)
<1>1. m \in Seq(Command) /\ Len(m) = k + 1 /\ m[k + 1] = c /\ k \in Nat
  BY AppendKeeps
<1>2. f \in Processed /\ MatchesOf(l, f, k)
  BY LedgerMatches
<1>3. MatchesOf(m, f, k)
  BY <1>1, <1>2, MatchesAppend
<1>4. LedgerOf(m) \in Processed /\ MatchesOf(m, LedgerOf(m), k + 1)
  BY <1>1, LedgerMatches
<1> HIDE DEF m, k, f
<1>5. MatchesOf(m, Upsert(f, c), k + 1)
  BY <1>1, <1>2, <1>3, MatchesUpsert
<1>6. Upsert(f, c) \in Processed
  BY <1>2, CommandHasOrder DEF Upsert, Processed
<1>7. k + 1 \in Nat /\ k + 1 <= Len(m)
  BY <1>1
<1>8. LedgerOf(m) = Upsert(f, c)
  BY <1>1, <1>4, <1>5, <1>6, <1>7, MatchIsUnique
<1>. QED  BY <1>8 DEF m, f

\* The ledger and the orphans the promise sees.
open == {c \in orphans : ledger[c.order] = None}

LEMMA LedgerIs ==
  ASSUME ClusterInv
  PROVE  ledger = LedgerOf(log) /\ FirstsExist(log) /\ ledger \in Processed
<1>1. ledger = LedgerOf(log) /\ FirstsExist(log)
  BY DEF ledger, LedgerOf, winner, WinnerOf, FirstIn, FirstOf, FirstsExist, ClusterInv, FirstExists
<1>. QED  BY <1>1, LedgerMatches DEF ClusterInv, TypeOK

LEMMA NextLedgerIs ==
  ASSUME ClusterInv'
  PROVE  ledger' = LedgerOf(log') /\ FirstsExist(log')
BY DEF ledger, LedgerOf, winner, WinnerOf, FirstIn, FirstOf, FirstsExist, ClusterInv, FirstExists

\* An answer that is not of a committed entry is the caller's own state.
LEMMA AnsweredIs ==
  /\ answered = [p \in Caller |-> answered[p]]
  /\ \A p \in Caller :
        answered[p] = IF stage[p] # "committed" THEN call[p]
                      ELSE IF FirstOf(log, Len(log), index[p]) THEN "applied" ELSE "duplicate"
BY DEF answered, FirstIn, FirstOf

LEMMA NextAnsweredIs ==
  /\ answered' = [p \in Caller |-> answered'[p]]
  /\ \A p \in Caller :
        answered'[p] = IF stage'[p] # "committed" THEN call'[p]
                       ELSE IF FirstOf(log', Len(log'), index'[p]) THEN "applied" ELSE "duplicate"
BY DEF answered, FirstIn, FirstOf

\* While the log and the orphans stay, so do the ledger and the open commands.
LEMMA LedgerKept ==
  ASSUME log' = log
  PROVE  ledger' = ledger /\ (orphans' = orphans => open' = open)
<1>1. ledger' = ledger
  BY DEF ledger, winner, FirstIn
<1>. QED  BY <1>1 DEF open

\* A step that no caller can see.
LEMMA Unseen ==
  ASSUME log' = log, UNCHANGED <<orphans, cmd, attempt>>,
         \A p \in Caller : answered'[p] = answered[p]
  PROVE  UNCHANGED Promise!raftVars
<1>1. answered' = answered
  BY AnsweredIs, NextAnsweredIs
<1>. QED  BY <1>1, LedgerKept DEF Promise!raftVars, open

\* What the nodes do is not seen: an attempt that ApplyEntry answers is told
\* what the log had decided when its entry was committed.
LEMMA NodeStepUnseen ==
  ASSUME ClusterInv, NEW n \in Node,
         \/ Elect(n) \/ StepDown(n) \/ ApplyEntry(n) \/ TakeSnapshot(n)
         \/ Persist(n) \/ InstallSnapshot(n) \/ Crash(n) \/ Restart(n)
  PROVE  UNCHANGED Promise!raftVars
<1>1. UNCHANGED <<log, orphans, cmd, attempt>>
  BY DEF Elect, StepDown, ApplyEntry, TakeSnapshot, Persist, InstallSnapshot, Crash, Restart, callVars
<1>2. CASE ApplyEntry(n)
  <2> DEFINE i == applied[n] + 1
             W == Waiting(n, i)
  <2>1. /\ log \in Seq(Command) /\ applied[n] \in Nat /\ applied[n] < Len(log)
        /\ fsm[n] \in Processed /\ MatchesOf(log, fsm[n], applied[n])
    BY <1>2, NodeData, InvParts DEF ApplyEntry, NodeOK, ClusterInv, TypeOK
  <2>2. fsm[n][log[i].order] = None <=> FirstOf(log, Len(log), i)
    BY <2>1, ResultIsFirst
  <2>3. Forget(W) /\ \A p \in Caller : call'[p] = IF p \in W THEN Result(fsm[n], log[i]) ELSE call[p]
    BY <1>2 DEF ApplyEntry
  <2>4. ASSUME NEW p \in Caller, p \in W PROVE answered'[p] = answered[p]
    <3>1. stage[p] = "committed" /\ index[p] = i /\ stage'[p] = "none"
      BY <2>3, <2>4, ForgetFacts DEF Waiting
    <3>2. answered'[p] = Result(fsm[n], log[i])
      BY <2>3, <2>4, <3>1, NextAnsweredIs
    <3>. QED  BY <2>2, <3>1, <3>2, AnsweredIs DEF Result
  <2>5. ASSUME NEW p \in Caller, p \notin W PROVE answered'[p] = answered[p]
    BY <1>1, <2>3, <2>5, ForgetFacts, AnsweredIs, NextAnsweredIs
  <2>. QED  BY <1>1, <2>4, <2>5, Unseen
<1>3. CASE ~ApplyEntry(n)
  <2>1. UNCHANGED <<call, index>> /\ (stage' = stage \/ stage' = Deposed)
    BY <1>3 DEF Elect, StepDown, TakeSnapshot, Persist, InstallSnapshot, Crash, Restart,
                callVars, serverVars
  <2>2. ASSUME NEW p \in Caller PROVE answered'[p] = answered[p]
    <3>1. stage'[p] = stage[p] \/ (stage[p] = "proposed" /\ stage'[p] = "doomed")
      BY <2>1 DEF Deposed
    <3>. QED  BY <1>1, <2>1, <3>1, AnsweredIs, NextAnsweredIs
  <2>. QED  BY <1>1, <2>2, Unseen
<1>. QED  BY <1>2, <1>3

-----------------------------------------------------------------------------
(* The steps that are seen.                                                *)

\* An entry is committed: the ledger gets it, and those who wait for earlier
\* entries are told what they were told before.
LEMMA ExtendIsUpsert ==
  ASSUME ClusterInv, ClusterInv', NEW c \in Command, Extend(c), orphans' = orphans
  PROVE  /\ ledger' = Upsert(ledger, c)
         /\ open' = {d \in open : d.order # c.order}
         /\ ledger[c.order] = None <=> FirstOf(log', Len(log'), Len(log) + 1)
         /\ \A i \in 1..Len(log) : FirstOf(log', Len(log'), i) <=> FirstOf(log, Len(log), i)
<1>0. /\ log \in Seq(Command) /\ log' = Append(log, c)
      /\ Len(log') = Len(log) + 1 /\ Len(log) \in Nat
      /\ log'[Len(log) + 1] = c /\ \A i \in 1..Len(log) : log'[i] = log[i]
  BY AppendKeeps DEF Extend, ClusterInv, TypeOK
<1>1. ledger = LedgerOf(log) /\ FirstsExist(log) /\ ledger \in Processed
  BY LedgerIs
<1>2. ledger' = LedgerOf(log') /\ FirstsExist(log')
  BY NextLedgerIs
<1>3. ledger' = Upsert(ledger, c)
  BY <1>0, <1>1, <1>2, AppendIsUpsert
<1>4. open' = {d \in open : d.order # c.order}
  <2>1. orphans \subseteq Command
    BY DEF ClusterInv, TypeOK
  <2>2. ASSUME NEW d \in orphans
        PROVE  ledger'[d.order] = None <=> ledger[d.order] = None /\ d.order # c.order
    <3>1. d.order \in Order /\ c.order \in Order /\ c # None
      BY <2>1, CommandHasOrder
    <3>. QED  BY <1>1, <1>3, <3>1 DEF Upsert, Processed
  <2>. QED  BY <2>2 DEF open
<1>5. ledger[c.order] = None <=> FirstOf(log', Len(log'), Len(log) + 1)
  <2>1. MatchesOf(log, ledger, Len(log)) /\ c.order \in Order
    BY <1>0, <1>1, LedgerMatches, CommandHasOrder
  <2>2. \A i \in 1..Len(log) : log[i] # None
    BY <1>0, CommandHasOrder
  <2>3. ledger[c.order] = None <=> \A i \in 1..Len(log) : log[i].order # c.order
    BY <2>1, <2>2 DEF MatchesOf
  <2>. QED  BY <1>0, <2>3 DEF FirstOf
<1>6. \A i \in 1..Len(log) : FirstOf(log', Len(log'), i) <=> FirstOf(log, Len(log), i)
  BY <1>0 DEF FirstOf
<1>. QED  BY <1>3, <1>4, <1>5, <1>6

LEMMA CommitOrphanIs ==
  ASSUME ClusterInv, ClusterInv', CommitOrphan
  PROVE  Promise!CommitOrphan \/ UNCHANGED Promise!raftVars
<1>1. PICK c \in orphans : Extend(c)
  BY DEF CommitOrphan
<1>2. /\ c \in Command /\ c.order \in Order
      /\ UNCHANGED <<orphans, cmd, attempt, call, stage, index>>
  BY CommandHasOrder DEF CommitOrphan, ClusterInv, TypeOK, callVars, serverVars
<1>3. /\ ledger' = Upsert(ledger, c) /\ open' = {d \in open : d.order # c.order}
      /\ \A i \in 1..Len(log) : FirstOf(log', Len(log'), i) <=> FirstOf(log, Len(log), i)
  BY <1>1, <1>2, ExtendIsUpsert
<1>4. answered' = answered
  <2>1. \A p \in Caller : stage[p] = "committed" => index[p] \in 1..Len(log)
    BY InvParts DEF CallerOK
  <2>2. \A p \in Caller : answered'[p] = answered[p]
    BY <1>2, <1>3, <2>1, AnsweredIs, NextAnsweredIs
  <2>. QED  BY <2>2, AnsweredIs, NextAnsweredIs
<1>5. CASE ledger[c.order] = None
  <2>1. c \in open
    BY <1>5 DEF open
  <2>. QED
    BY <1>2, <1>3, <1>4, <1>5, <2>1
    DEF Promise!CommitOrphan, Promise!Upsert, Promise!Decided, Upsert, open
<1>6. CASE ledger[c.order] # None
  <2>1. ledger' = ledger /\ open' = open
    BY <1>3, <1>6 DEF Upsert, open
  <2>. QED  BY <1>2, <1>4, <2>1 DEF Promise!raftVars, open
<1>. QED  BY <1>5, <1>6

LEMMA CommitEntryIs ==
  ASSUME ClusterInv, ClusterInv', NEW p \in Caller, CommitEntry(p)
  PROVE  Promise!Commit(p)
<1> DEFINE c == cmd[p]
<1>1. /\ c \in Command /\ Extend(c) /\ stage[p] = "proposed" /\ call[p] = "pending"
      /\ UNCHANGED <<orphans, cmd, attempt, call>>
  BY InvParts DEF CommitEntry, CallerOK, callVars
<1>2. /\ ledger' = Upsert(ledger, c) /\ open' = {d \in open : d.order # c.order}
      /\ ledger[c.order] = None <=> FirstOf(log', Len(log'), Len(log) + 1)
      /\ \A i \in 1..Len(log) : FirstOf(log', Len(log'), i) <=> FirstOf(log, Len(log), i)
  BY <1>1, ExtendIsUpsert
<1>3. answered[p] = "pending"
  BY <1>1, AnsweredIs
<1>4. answered' = [answered EXCEPT ![p] = Promise!Outcome(c)]
  <2>1. answered'[p] = Promise!Outcome(c)
    <3>1. stage'[p] = "committed" /\ index'[p] = Len(log) + 1
      BY DEF CommitEntry, ClusterInv, TypeOK
    <3>. QED  BY <1>2, <3>1, NextAnsweredIs DEF Promise!Outcome, Promise!Decided
  <2>2. ASSUME NEW q \in Caller, q # p PROVE answered'[q] = answered[q]
    <3>1. stage'[q] = stage[q] /\ index'[q] = index[q]
      BY <2>2 DEF CommitEntry, ClusterInv, TypeOK
    <3>2. stage[q] = "committed" => index[q] \in 1..Len(log)
      BY InvParts DEF CallerOK
    <3>. QED  BY <1>1, <1>2, <3>1, <3>2, AnsweredIs, NextAnsweredIs
  <2>. QED  BY <2>1, <2>2, AnsweredIs, NextAnsweredIs
<1>. QED
  BY <1>1, <1>2, <1>3, <1>4
  DEF Promise!Commit, Promise!Upsert, Promise!Decided, Upsert, open

\* How the answer of one caller changes.
LEMMA OneAnswer ==
  ASSUME ClusterInv, log' = log, NEW p \in Caller, stage'[p] # "committed",
         \A q \in Caller \ {p} :
             stage'[q] = stage[q] /\ index'[q] = index[q] /\ call'[q] = call[q]
  PROVE  answered' = [answered EXCEPT ![p] = call'[p]]
<1>1. answered'[p] = call'[p]
  BY NextAnsweredIs
<1>2. \A q \in Caller \ {p} : answered'[q] = answered[q]
  BY AnsweredIs, NextAnsweredIs
<1>. QED  BY <1>1, <1>2, AnsweredIs, NextAnsweredIs

LEMMA SendIs ==
  ASSUME ClusterInv, NEW p \in Caller
  PROVE  /\ \A c \in Command : Begin(p, c) => Promise!Begin(p, c)
         /\ Retry(p) => Promise!Retry(p)
<1>1. ASSUME Send(p), call[p] \in {"none", "retry"}
      PROVE  /\ answered[p] = call[p] /\ answered' = [answered EXCEPT ![p] = "pending"]
             /\ ledger' = ledger /\ open' = open
  <2>1. /\ UNCHANGED <<log, orphans, index>>
        /\ call' = [call EXCEPT ![p] = "pending"] /\ stage' = [stage EXCEPT ![p] = "sent"]
    BY <1>1 DEF Send
  <2>2. /\ stage'[p] = "sent" /\ call'[p] = "pending"
        /\ \A q \in Caller \ {p} : stage'[q] = stage[q] /\ call'[q] = call[q]
    BY <2>1 DEF ClusterInv, TypeOK
  <2>3. stage[p] = "none"
    BY <1>1, InvParts DEF CallerOK
  <2>. QED  BY <2>1, <2>2, <2>3, AnsweredIs, OneAnswer, LedgerKept
<1>2. ASSUME NEW c \in Command, Begin(p, c) PROVE Promise!Begin(p, c)
  BY <1>1, <1>2 DEF Begin, Promise!Begin, open
<1>3. ASSUME Retry(p) PROVE Promise!Retry(p)
  BY <1>1, <1>3 DEF Retry, Promise!Retry, open
<1>. QED  BY <1>2, <1>3

\* An attempt ends without an answer.
LEMMA DropIs ==
  ASSUME ClusterInv, NEW p \in Caller, NEW s, Drop(p, s)
  PROVE  /\ answered' = [answered EXCEPT ![p] = s]
         /\ ledger' = ledger /\ UNCHANGED <<cmd, attempt>>
         /\ orphans' = orphans => open' = open
<1>1. /\ UNCHANGED <<log, cmd, attempt>>
      /\ call' = [call EXCEPT ![p] = s] /\ Forget({p})
  BY DEF Drop
<1>2. /\ stage'[p] = "none" /\ call'[p] = s
      /\ \A q \in Caller \ {p} : stage'[q] = stage[q] /\ index'[q] = index[q] /\ call'[q] = call[q]
  BY <1>1, ForgetFacts DEF ClusterInv, TypeOK
<1>. QED  BY <1>1, <1>2, OneAnswer, LedgerKept

\* A command that is abandoned is an orphan of the promise if its order is open.
LEMMA AbandonIs ==
  ASSUME NEW p \in Caller, Abandon(cmd[p]), ledger' = ledger
  PROVE  Promise!Abandon({cmd[p]})
<1>1. open' = open \union {d \in {cmd[p]} : ledger[d.order] = None}
  BY DEF Abandon, open
<1>. QED  BY <1>1 DEF Promise!Abandon, Promise!Decided, open

LEMMA ServeIs ==
  ASSUME ClusterInv, NEW p \in Caller,
         CheckLeader(p) \/ Propose(p) \/ FailApply(p) \/ Lose(p)
  PROVE  Promise!Refuse(p) \/ Promise!Lose(p) \/ UNCHANGED Promise!raftVars
<1>0. stage[p] # "none" <=> call[p] = "pending"
  BY InvParts DEF CallerOK
<1>1. CASE (CheckLeader(p) \/ Propose(p)) /\ at[p] \in role
  <2>1. /\ UNCHANGED <<log, orphans, call, cmd, attempt, index>>
        /\ stage[p] # "committed"
        /\ \E s \in {"checked", "proposed", "doomed"} : stage' = [stage EXCEPT ![p] = s]
    BY <1>1 DEF CheckLeader, Propose, callVars
  <2>2. stage'[p] # "committed" /\ \A q \in Caller \ {p} : stage'[q] = stage[q]
    BY <2>1 DEF ClusterInv, TypeOK
  <2>3. \A q \in Caller : answered'[q] = answered[q]
    BY <2>1, <2>2, AnsweredIs, NextAnsweredIs
  <2>. QED  BY <2>1, <2>3, Unseen
<1>2. CASE (CheckLeader(p) \/ Propose(p)) /\ at[p] \notin role
  <2>1. Drop(p, "retry") /\ orphans' = orphans /\ stage[p] \in {"sent", "checked"}
    BY <1>2 DEF CheckLeader, Propose
  <2>2. answered[p] = "pending"
    BY <1>0, <2>1, AnsweredIs
  <2>. QED  BY <2>1, <2>2, DropIs DEF Promise!Refuse, open
<1>3. CASE FailApply(p)
  <2>1. Drop(p, "retry") /\ Abandon(cmd[p]) /\ "rpc" \in Faults /\ stage[p] = "doomed"
    BY <1>3 DEF FailApply
  <2>2. answered[p] = "pending"
    BY <1>0, <2>1, AnsweredIs
  <2>3. answered' = [answered EXCEPT ![p] = "retry"] /\ ledger' = ledger /\ UNCHANGED <<cmd, attempt>>
    BY <2>1, DropIs
  <2>4. Promise!Abandon({cmd[p]})
    BY <2>1, <2>3, AbandonIs
  <2>. QED  BY <2>1, <2>2, <2>3, <2>4 DEF Promise!Lose
<1>4. CASE Lose(p)
  <2>1. PICK s \in {"retry", "error"} : Drop(p, s)
    BY <1>4 DEF Lose
  <2>2. CASE call[p] = "pending" /\ stage[p] # "committed"
    <3>1. answered[p] = "pending" /\ Abandon(cmd[p])
      BY <1>4, <2>2, AnsweredIs DEF Lose
    <3>2. answered' = [answered EXCEPT ![p] = s] /\ ledger' = ledger /\ UNCHANGED <<cmd, attempt>>
      BY <2>1, DropIs
    <3>3. Promise!Abandon({cmd[p]})
      BY <3>1, <3>2, AbandonIs
    <3>4. "rpc" \in Faults
      BY <1>4 DEF Lose
    <3>. QED  BY <3>1, <3>2, <3>3, <3>4 DEF Promise!Lose
  <2>3. CASE ~(call[p] = "pending" /\ stage[p] # "committed")
    <3>1. answered[p] \in {"applied", "duplicate"} /\ orphans' = orphans
      BY <1>0, <1>4, <2>3, AnsweredIs DEF Lose
    <3>. QED  BY <1>4, <2>1, <3>1, DropIs DEF Lose, Promise!Lose, open
  <2>. QED  BY <2>2, <2>3
<1>. QED  BY <1>1, <1>2, <1>3, <1>4

LEMMA ReturnIs ==
  ASSUME ClusterInv, NEW p \in Caller, Return(p)
  PROVE  Promise!Finished(p) /\ Promise!Return(p)
<1>1. /\ call' = [call EXCEPT ![p] = "none"] /\ cmd' = [cmd EXCEPT ![p] = None]
      /\ attempt' = [attempt EXCEPT ![p] = 0]
      /\ UNCHANGED <<log, orphans, stage, index>>
      /\ call[p] \in {"applied", "duplicate"} \/ GaveUp(p)
  BY DEF Return, serverVars
<1>2. stage[p] = "none"
  BY <1>1, InvParts DEF CallerOK, GaveUp
<1>3. /\ call'[p] = "none" /\ \A q \in Caller \ {p} : call'[q] = call[q]
  BY <1>1 DEF ClusterInv, TypeOK
<1>4. answered[p] = call[p] /\ answered' = [answered EXCEPT ![p] = "none"]
  BY <1>1, <1>2, <1>3, AnsweredIs, OneAnswer
<1>. QED
  BY <1>1, <1>4, LedgerKept
  DEF GaveUp, Promise!Finished, Promise!GaveUp, Promise!Return, open

-----------------------------------------------------------------------------
\* Every step of the cluster is a step of the promise or a stutter.
LEMMA StepImplements ==
  ASSUME ClusterInv, ClusterInv', [Next]_vars
  PROVE  [Promise!RaftNext]_(Promise!raftVars)
<1> USE DEF Promise!RaftNext
<1>1. ASSUME NEW n \in Node,
             \/ Elect(n) \/ StepDown(n) \/ ApplyEntry(n) \/ TakeSnapshot(n)
             \/ Persist(n) \/ InstallSnapshot(n) \/ Crash(n) \/ Restart(n)
      PROVE  UNCHANGED Promise!raftVars
  BY <1>1, NodeStepUnseen
<1>2. CASE CommitOrphan
  BY <1>2, CommitOrphanIs
<1>3. CASE \E p \in Caller, c \in Command : Begin(p, c)
  BY <1>3, SendIs
<1>4. CASE \E p \in Caller : CommitEntry(p)
  BY <1>4, CommitEntryIs
<1>5. CASE \E p \in Caller : Retry(p)
  BY <1>5, SendIs
<1>6. CASE \E p \in Caller : CheckLeader(p) \/ Propose(p) \/ FailApply(p) \/ Lose(p)
  BY <1>6, ServeIs
<1>7. CASE \E p \in Caller : Return(p)
  BY <1>7, ReturnIs
<1>8. CASE UNCHANGED vars
  <2>1. UNCHANGED <<log, orphans, cmd, attempt, call, stage, index>>
    BY <1>8 DEF vars, callVars, serverVars
  <2>2. \A p \in Caller : answered'[p] = answered[p]
    BY <2>1, AnsweredIs, NextAnsweredIs
  <2>. QED  BY <2>1, <2>2, Unseen
<1>. QED  BY <1>1, <1>2, <1>3, <1>4, <1>5, <1>6, <1>7, <1>8 DEF Next

\* The empty log is the empty ledger.
LEMMA InitImplements == Init => Promise!RaftInit
<1> SUFFICES ASSUME Init PROVE Promise!RaftInit
  OBVIOUS
<1> USE DEF Init
<1>1. ledger = [o \in Order |-> None]
  BY DEF ledger
<1>2. answered = [p \in Caller |-> "none"]
  BY DEF answered
<1>3. open = {}
  BY DEF open
<1>. QED  BY <1>1, <1>2, <1>3 DEF Promise!RaftInit, open

\* The cluster keeps the promise on which the order executor rests: the first
\* command committed for an order wins, one caller at most is told "applied",
\* and the FSM of the leader answers what the log had decided.
THEOREM PromiseIsKept == Spec => ImplementsPromise
BY InitImplements, StepImplements, ClusterInvariance, PTL
DEF Spec, ImplementsPromise, Promise!RaftSpec
=============================================================================
