# Fault-tolerant trading pipeline: TLA+ models, checks and proofs

TLA+ modules for the Go services in `src/`, model-checked with TLC and
proved with TLAPS. `PROJECT.json` maps every definition to the lines it
stands for, and lists the runs, the mutants each property is tested with, the
hazards of the code and the theorems.

## 1. The system

A tick becomes an order command, the command is decided once by a Raft cluster,
and the executor that had it decided writes one order event, which is published
to Kafka.

    market-ingestor -> market.ticks -> stream-processor -> orders.commands
      -> order-executor --Apply/Read--> raft-node x 3
             | insert                    (log, FSM, snapshots)
             v
         SQLite outbox -> publisher -> orders.events -> verifier

| Component | State | Operations | Interacts through |
|---|---|---|---|
| Kafka consumer (`internal/msg/consumer.go`) | semaphore, fetch position, committed offset, one goroutine per record | poll, dispatch or skip, handle with 3 tries, commit | Kafka; a callback per record |
| Order executor (`cmd/order-executor`) | where each handler stands | validate, Apply, Read, insert, return nil or an error | consumer, Raft client, SQLite |
| Raft client (`rpc/raftnode/client.go`) | `cc`, `svc`, `addr`, `currentIdx`, shared by all handlers without a lock | Apply with redial, hint and round robin; Read | gRPC |
| Raft service (`rpc/raftnode/server.go`, `internal/raft`) | role, log and snapshot on disk, map `processed` in memory | Apply, Read, Join; FSM Apply, Snapshot, Restore | gRPC; hashicorp/raft |
| Raft start-up (`cmd/raft-node`, `node.go`) | data directory, configuration | bootstrap, start, stop, AddVoter | operator's script |
| Outbox and publisher (`internal/idempotency`) | rows of `outbox_events`, the batch in hand | list unpublished, produce, mark | SQLite, Kafka |
| Store transaction (`store.go`) | `processed_commands`, `outbox_events` | ProcessOrderCommand | SQLite locks |
| Verifier (`cmd/verifier`) | an unlocked map of counts | count a record, judge | consumer |
| Stream processor (`cmd/stream-processor`) | where each handler stands | turn a tick into a command, produce it | consumer, Kafka |
| Market ingestor, demo producer (`cmd/market-ingestor`, `cmd/producer`) | a counter | produce a tick, produce orders | Kafka |
| Failure injection (`internal/chaos`) | setting, window, one generator with a seed | delay or drop a call, exit on leader | every call of the Raft service |
| Process of a node (`cmd/raft-node`, `internal/observability`) | the next step of main, the HTTP server, the health flags | start, stop on a signal or an error, answer `/healthz` | operators, health clients |
| Configuration, logging, schema | | | all |

### What is hard here

* The decision (Raft) and the event (SQLite) are two stores without a common
  transaction, and the offset in Kafka is a third. A fault between two of the
  writes has to be recognised from the answer of a later call.
* A call of the Raft service can fail with its outcome unknown: the entry may be
  committed later, by the old leader or by the next one.
* Handlers of one partition run concurrently, finish in any order, and each
  commits its own offset.
* All handlers share one Raft client and redial it without a lock.
* Leadership is tested twice before a command is proposed, and can be lost
  between any two of the three steps.
* Writes to Kafka are not idempotent and are followed by a commit elsewhere: ticks
  and commands are repeated, and must keep their identity.
* The publisher's updates meet open transactions on a database that answers "busy"
  at once, and a COMMIT that is answered so leaves its transaction behind.
* A node stops in steps while calls are asleep in injected delays.
* Replicas go through snapshots, restarts and installs while entries are applied.

### What makes the parts correct

* executor: an order has at most one event, that of the command that was
  decided; nothing undecided is committed to Kafka; a decided order is not left
  without its event; handlers end;
* Raft service: the first command for an order wins on every replica and only
  its caller is told "applied"; what a Read found stays found;
* client: connection, stub and address belong together between redials, as long as
  these do not overlap; Apply returns; the leader is found again;
* outbox: marked only after it was produced; every row is produced and marked, unless
  a transaction keeps the lock;
* consumer: a record below the committed offset was handled or met one of three
  known ends; no record is forgotten;
* stream processor: one command for each tick, however often the tick is written or
  handled; a tick is lost only as a record is;
* store: both tables or neither; the reply is what was written;
* failure injection: only where, and as long as, it is asked for;
* node process: it gets through its shutdown when told to, without a panic, and does not
  look healthy on its way out;
* verifier: its verdict is right, and where it is not the cause is known;
* membership: one cluster, and who was told that it joined stays a voter.

## 2. The modules

| Module | Models | Composed with |
|---|---|---|
| `Orders` | data of the pipeline, kinds of fault | extended by all that handle commands |
| `ProcessedOrders` | what the Raft service promises to its callers: abstract ledger, calls with attempts, orphaned entries | extended by `OrderExecutor`; implemented by `RaftCluster` |
| `OutboxPublisher` | outbox table, publisher loop, topic | extended by `OrderExecutor` and by `CommandStore` |
| `OrderExecutor` | the handler and its retries, on top of the two above | implements `OrderLedger` |
| `OrderLedger` | what the pipeline promises of an order | abstract |
| `RaftCluster` | server, node, FSM, snapshots, restarts over the library's committed log | implements `ProcessedOrders` |
| `RaftClient` | Client.Apply, one step per access of a shared field | |
| `Consumer` | Consumer.Run on one partition | extended by `Verifier` and `StreamProcessor` |
| `StreamProcessor` | market.ticks, its writers, the handler, orders.commands | implements `OrderFeed` |
| `OrderFeed` | what orders.commands promises to its readers | abstract |
| `Verifier` | the tool's handler, window and verdict | |
| `CommandStore` | ProcessOrderCommand under SQLite's locks, beside the publisher | |
| `Membership` | bootstrap, start, stop, join | |
| `NodeProcess` | main of raft-node, failure injection, health | |
| `<Module>Proofs` | theorems about `OrderExecutor`, `RaftCluster`, `StreamProcessor` (with `Consumer`), `CommandStore`, `Membership`, `NodeProcess`, `Verifier`, `RaftClient` | extends the module it is about |
| `MC*` | constants of small instances | |

How state and actions correspond to the code:

* `OrderExecutor`: `lost` is history: the orders whose event nobody will write any
  more. `pc[w]` is the statement a handler goroutine has reached, `rec`
  its record, `tries` the loop of `handleWithRetry`. `CallApply .. ApplyNew` are
  the branches after `raftClient.Apply`; `ReadFinds` and `ReadMisses` those after
  `Read`; `Insert` the `INSERT`; `CommitOffset` the commit of the consumer. A
  command may be delivered any number of times, which covers redelivery,
  rebalancing and a repeated produce upstream. `Crash` loses the handlers, the
  calls and the batch, and keeps the tables, the topic and the ledger.
* `ProcessedOrders`: `call[p]` is where one Client.Apply stands. `Lose` is a
  deadline, a dropped call, a dead node or "apply failed"; its command may become
  an orphan, which `CommitOrphan` commits at any later time. Read is served by one
  replica: it finds only what is decided and may miss anything.
* `RaftCluster`: `stage[p]` is where an attempt stands in Server.Apply: sent,
  checked (after the first IsLeader), proposed (to the leader), doomed (to a
  deposed one), committed (waiting for the FSM). `fsm`, `applied`, `snap` and
  `taking` are the map, its index, the snapshot on disk and the one being
  persisted. A crash keeps log and snapshot.
* `OutboxPublisher`: `batch` is what the loop still has to do, `sent` the event
  between ProduceJSON and MarkPublished; creation times are `at`, and rows of one
  millisecond come in any order.
* `Consumer`: `position` is the client's, `cursor..last` the batch being iterated,
  `job`/`tries`/`done` the goroutine in a slot. `handled`, `skipped`, `failed` and
  `cut` are history: how a record ended.
* `RaftClient`: `cc`, `svc`, `addr`, `currentIdx` are the fields; `pc` goes through
  lines 61 to 143 with one label for each access of a field. Connections have
  names, `open` and `to` say what became of them. `link` and `clash` are history: whether
  the last redials were made alone and succeeded (`"whole"`), ended in a dial that failed
  (`"closed"`) or overlapped (`"torn"`).
* `CommandStore`: `pc` names the statement of the transaction; the reserved lock
  is `writer`, a shared lock is held from the first SELECT on. The rows are those of
  `OutboxPublisher`; an update of the publisher (`MarkRow`) needs that no transaction
  is open, and fails otherwise. A COMMIT that meets readers (`CommitIsBusy`) returns an
  error, and the deferred Rollback (`store.go` 105) finds the transaction ended and sends
  nothing: it stays open, with its row and its lock, on the pooled connection. `left` is
  that row, `leftMarked` the marks the publisher makes inside that transaction when
  it is given the connection (`ListLeft`, `MarkLeft`). The pool closes a connection now and
  then, which rolls the transaction back (`Release`); a call that gets it fails at BEGIN.
* `StreamProcessor`: `event[o]` is the id of the tick at offset `o`, or says that the
  record is no tick. An id is named by the offset where it is first written, so that
  ids are fresh. `Produce` is the write of the broker, `Handled` and `HandlerFails`
  what the handler makes of the answer, which may be an error although the command
  was written.
* `NodeProcess`: `main` is the next statement of `main` from its select on, `http` and
  `ready` the parts of HealthChecker. `given` is the environment and the profile,
  `cfg` what `New` makes of them; `pc[c]` is where a call stands: at the tests of
  MaybeDelay, at its lock and draw, asleep, at the tests of MaybeDrop, at its lock and draw,
  or in the rest of its handler. The window may end between any two of these; `atEnd` is
  history, where each call stood when it did. A draw of the generator is a free choice.
* `Verifier`: `seen[s]` is the count a handler has read and not yet written back;
  `overwritten` is history, the orders of which a count was lost that way.
* `Membership`: `stored[n]` is the latest configuration in the data directory of n. Of the
  rest of its log only the length matters, compared with others: `ahead[n]` are the nodes
  whose log goes on after n's. A leader begins its term with an entry of its own, `Join`
  appends one with the new configuration, `Replicate` copies the leader's log.

Abstractions: payloads, prices and texts are left out; a record that fails to
parse or to validate is one outside `Valid`. Consensus itself is the library's:
the committed log never changes, an election needs a majority, a deposed leader
answers its waiters with an error. SQLite and Kafka are modelled by what the code
relies on. External definitions are marked so in `PROJECT.json`. A mutant of a
definition stands before it under the name `<definition>_<slip>`; no
specification uses it.

## 3. The runs

| Run | Bounds | Shows |
|---|---|---|
| `executor_faults` | 2 workers, 2 rival commands for one order and one that is rejected, 2 tries of 2 attempts, every fault, 1 crash | at most one event, the winner's; no undecided order is committed; every loss of an event has a cause, every other event gets to the topic; handlers end; `OrderLedger` is implemented; the inductive invariant `IInv` holds |
| `consumer_faults` | 2 slots, 3 records of which one may be a repetition or no tick, 2 tries, 1 restart or reassignment | every loss of a record or tick below the committed offset has a cause; every record ends; `OrderFeed` is implemented; the inductive invariant `StreamInv` holds |
| `raft_replicas` | 2 nodes, 1 caller of 2 attempts, 3 commands of which two different ones are about at a time (`TwoCommands`), 2 terms, 1 crash, 1 snapshot, log of 2 | replicas and snapshots match the log; found stays found; `ProcessedOrders` is implemented; the inductive invariant `ClusterInv` holds |
| `client_faults` | 3 addresses of which one may be malformed, 1 caller of 3 attempts, 2 elections, dead nodes and failing attempts | the connection is whole between redials, unless a dial failed; Apply returns; the leader is reached |
| `store_publisher` | 3 transactions, 3 commands that share orders and event ids, the publisher, every fault | tables agree, replies are true, checks are not stale; marked only when on the topic; every row is marked in the end unless a transaction left open keeps the lock |
| `node_process` | 2 calls at a time, 3 in all, 10 settings with 4 profiles, numbers 0, 40, 99 of the generator | injection is opt-in and aimed, and the end of its window reaches the calls in progress; proper ranges are safe; main gets through its shutdown and does not look healthy; the inductive invariant `NodeInv` holds |
| `verifier_counts` | 2 slots, 3 records of which two are of one order, 1 restart or reassignment | a wrong PASSED has one of two causes; FAILED is right while nothing moves |
| `membership_stops` | 4 nodes, 2 stops | one cluster, voters stay, the cluster forms; the inductive invariant `MembershipInv` holds |
| `executor_lost_answer` | as the first, only calls are lost | **violation** of `EventAccounted` |
| `consumer_skip` | 1 slot, 3 records, no fault | **violation** of `SkippedIsRetried` |
| `client_race` | 2 callers, 2 addresses, no fault | **violation** of `LeaderIsReached` |
| `node_shutdown` | the default settings, 1 call, no fault | **violation** of `StopsWithoutPanic` |

Why the bounds are enough for the question asked: two handlers are what a race
for one order needs and a third adds no new pair; two attempts are one lost and
one repeated; two tries make the outer loop repeat; in a batch of two (`store_publisher`) one row can fail beside the other; three records are one below, one at and one above any offset that is
committed out of order; two nodes are a deposed leader and its successor, and a
log of two entries holds a first command and one that comes after a snapshot;
three addresses make the round robin pass a wrong one; four voters are the
smallest configuration of which a majority survives a stop and does not know of
the last join. Two calls let the window end, or a
shutdown come, while one is asleep and the other at the lock, and a third comes after
them. The numbers of the generator stand
for one below every percentage, one between two of them and one above; the settings
include one that is off, one for another node, an empty range, and exit on leader.
`client_faults` has one handler, because `LeaderIsReached` fails with two (`client_race`);
what it shows of `ClientIsConnected` for one is proved for any number, and TLC has found no
violation of `ClientInv` with two handlers and two addresses either (7.9 million states, too
many for a listed run).
The theorems drop the bounds for everything but liveness.

Deadlock is checked wherever the program never stops. It is switched off in the
runs of `Consumer` and `StreamProcessor` (the bounded input is used up), `NodeProcess` (the
process has ended, or has served its calls), `RaftCluster` (the log is full,
the attempts are spent), `Verifier` (the tool exits) and `Membership` (nothing is
left to start or join, or too many have stopped).

### Fairness

* `OrderExecutor`: weak fairness of a handler, since every wait in it has a
  deadline (3 s for Apply, 5 s for Read) or is a local statement; weak fairness of
  the publisher, whose ticker runs beside the handlers; strong fairness of a
  produce and of a mark, since a broker or database that is asked again and again
  answers in the end (without it no retry loop achieves anything). No fairness of
  deliveries, faults, crashes or late commits.
* `CommandStore`: the same for the publisher; weak fairness of a transaction, whose
  statements return at once; strong fairness of an update that no transaction keeps
  out. The number of calls is bounded, so that in the end no call has a
  transaction open: with an unbounded stream of them an update could fail each time, and
  the row be published again at every tick. Nothing is assumed of the
  connection that a busy COMMIT leaves behind (`left`): the pool need not close it, nor give
  it to anyone. `RowIsMarkedUnlessLocked` names that case, and without its last disjunct it
  is violated.
* `Consumer`: weak fairness of the loop, of each handler and of each commit.
  Nothing is assumed about the success of a handler. `StreamProcessor` assumes the
  same; its produce has a deadline of 5 s. Nothing is assumed of ticks.
* `NodeProcess`: weak fairness of main and of each call: a call waits for a delay or a
  deadline. Nothing is assumed of operators, callers, and clients of the health
  service: one Watch that stays open keeps GracefulStop waiting for ever, which is the
  premise of `StopGetsThrough` and not an assumption of fairness.
* `RaftClient`: weak fairness of each caller and of a node hearing from the leader (it
  may forget an old leader first, and then gives no hint);
  strong fairness of an answer that reaches the client: a node that runs does not
  fail every attempt.
* `Membership`: processes are started, the library's steps happen, and the operator
  repeats the join of a node (strong fairness; the scripts do so by hand).
* `RaftCluster` and `Verifier` are checked for safety only.

## 4. What is proved

Every invariant and every action property that a run checks is stated by a theorem,
for all constants that satisfy the named assumptions: any numbers of nodes,
slots, workers, callers, records, orders and commands, of attempts,
crashes, stops and terms, any faults. So are the four refinements. An inductive
invariant stands in the component's own module, under its safety properties; the
theorems and their lemmas, one for each kind of step, stand in `<Module>Proofs`.

| Theorem | States | Beyond the assumptions of the module |
|---|---|---|
| `OrderExecutorProofs` | | |
| `Invariance`, `TypeCorrectness` | `[]IInv`, `[]TypeOK` | |
| `AtMostOneEvent`, `WinnersEvent`, `CommitsAfterDecision` | `[]OneEventPerOrder`, `[]EventOfWinner`, `[]CommitOnlyDecided` | |
| `OnlyTheseEventsAreLost` | `[]EventLossHasCause` | |
| `MarkedReachedTopic` | `[]MarkedIsOnTopic` | |
| `Refinement` | `ImplementsPromise` (`OrderLedger`) | |
| `RaftClusterProofs` | | |
| `ClusterInvariance` | `[]ClusterInv` | |
| `ReplicasMatchLog`, `SnapshotsMatchLog` | `[]ReplicaMatchesLog`, `[]SnapshotMatchesLog` | |
| `NoReplicaDisagrees` | any two replicas have the same record of an order | |
| `FoundOrdersStay` | `FoundStaysFound` | |
| `PromiseIsKept` | `ImplementsPromise` (`ProcessedOrders`) | |
| `StreamProcessorProofs` | | |
| `ConsumerInvariance` | `[]ConsumerInv` of `Consumer` alone | |
| `StreamInvariance` | `[]StreamInv` | |
| `CommitsAreHandled`, `LossesHaveCause`, `TickLossesHaveCause` | `[]CommitNamesHandled`, `[]LossHasCause`, `[]TickLossHasCause` | |
| `FeedRefinement` | `ImplementsFeed` (`OrderFeed`) | |
| `CommandStoreProofs` | | |
| `StoreInvariance` | `[]StoreInv` | |
| `TablesAlwaysAgree`, `RepliesAreTrue`, `ChecksAreNotStale`, `StoreMarksWhatIsOnTopic` | `[]TablesAgree`, `[]ReplyIsTrue`, `[]CheckIsNotStale`, `[]MarkedIsOnTopic` | |
| `OneRowPerOrder` | the outbox has one row for an order at most | |
| `MembershipProofs` | | one node bootstraps (`BootstrapAssumption`) |
| `MembershipInvariance` | `[]MembershipInv` | |
| `OnlyOneCluster`, `JoinedStaysVoter` | `[]OneCluster`, `[]JoinedIsVoter` | |
| `NodeProcessProofs` | | |
| `NodeInvariance` | `[]NodeInv` | |
| `OptInHolds`, `ProperRanges`, `StoppedNotHealthy`, `WindowReachesCalls` | `[]OptIn`, `[]ProperRangesAreSafe`, `[]StoppedIsNotHealthy`, `[]WindowEnds` | |
| `VerifierProofs` | | |
| `VerifierInvariance`, `FailedIsRight` | `[]VerifierInv`, `[]FailedHasDuplicate` | |
| `PassedIsRight` | `[]PassedHasCause` | |
| `RaftClientProofs` | | |
| `ClientInvariance` | `[]ClientInv` | |
| `ClientConnected` | `[]ClientIsConnected` | |

No theorem assumes a fault or a number of goroutines away. Where the code breaks what one would
like to claim (an event that gets lost, a wrong PASSED, a torn connection), the theorem
names every way it can come about, and says that there is no other.

Assumptions on constants are of three kinds: sorts (`None \notin Command`, a bound is a
number), finiteness where the code counts a majority, and two that say something of the
deployment: one node bootstraps, and an `orderOf` gives every record of orders.events
its order.

### The arguments

*Executor.* `OneEventPerOrder` is not inductive: nothing in the table forbids a
second row, only the answer "applied" does. Call a worker a *holder* if it has been
told "applied", or is about to insert. `IInv` adds: the command of a holder is the
one recorded and its order has no row yet (`HolderHasWon`); no two workers hold
one order (`HolderIsAlone`); a call is in progress exactly at Client.Apply and for
the worker's own record (`CallsBelong`); "duplicate" is said of decided orders only
(`DuplicateIsDecided`); rows differ in their event ids and the batch is made of
rows. Only `Commit` makes a holder, from an undecided order, for which there is
neither a row (`EventOfWinner`) nor a holder (`HolderHasWon`); a holder leaves by
inserting the row, or by losing its answer, and nobody becomes one for that order
again. Most steps decide nothing, write nothing and make no holder: lemma
`AgreementKept` takes them together. `EventLossHasCause` is an equation and needs nothing more
than `IInv`: the orders decided, without a row and without a holder, are those in `lost`. A step
leaves all four alone (`AccountKept`), or forgets holders, who enter `lost` with
their orders (`ForgetLoses`: a lost answer, a failed insert, a crash); `Commit` decides and makes a
holder, `Insert` turns a holder into a row, `LateCommit` decides for nobody.
`Refinement` maps the ledger to `decided`, the row of an
order to `emitted` and the topic to `published`; the CHOOSE in the mapping is unique by
`OneEventPerOrder`, and each step decides, emits, delivers or stutters.

*Raft service.* `Matches(f, i)` says that the map f holds, for each order, the first
entry for it among the first i. `ReplicaMatchesLog` speaks of the maps of running nodes; inductive is
`Matches` for all four kinds of copy at once (live, persisted, being persisted, of a node that is down), each
with its own index, and none beyond the log (`WithinLog`): a snapshot is persisted from the
copy, a node restored from the snapshot, and appending to the log changes no
shorter prefix. That an order with an entry has a first one (`FirstExists`) would be an
induction over the log; it is kept as an invariant instead: a new entry either repeats an
order or is itself the first. `PromiseIsKept` maps the log to the ledger by the first entry
of an order, and an attempt whose entry is committed to its answer *at that moment*,
before the FSM of the leader has applied it; that the FSM answers the same later is
`ReplicaMatchesLog` at the leader. An orphan for a decided order can change nothing and is
left out by the mapping; `AttemptsBelong` ties an attempt to its entry.

*Consumer and stream processor.* `LossHasCause` is not inductive: a commit moves the
offset to the record after any handler's. What is needed is that everything *before a
record in flight* is accounted for (`JobIsAccounted`), hence everything before the cursor when
it is dispatched, hence before the position when the batch was polled. A reassignment sets the
position to the committed offset and makes records in flight `cut`, so that all three are
restored from `LossHasCause` itself. `DoneIsHandled` gives `CommitNamesHandled`. In the stream
processor `HandledIsSent` adds the command of a handled tick; since a step only adds to the
topics (`TopicsGrow`), `TickLossHasCause` follows from it and `LossHasCause`, and in the refinement a
repeated tick or a redelivered command is a stutter.

*Store.* The lock of the writer is not enough: the check reads before it is taken. A commit
needs that no other transaction is past its first SELECT (`Alone`), so it
changes nothing another has seen, and `CheckIsNotStale` is inductive with `FoundIsSeen`. With it, an
insert is of an order that has no row, and `TablesAgree` follows, which then gives `ReplyIsTrue`.
The transaction that a busy COMMIT leaves open never gets into the tables. The publisher may read
and publish its row, and mark it inside it, but that goes with it; `topic` only grows
(`WrittenGrows`), so `MarkedIsOnTopic` is not touched.

*Membership.* For `OneCluster` it is enough that the node which bootstraps is the origin of every
configuration (`OneOrigin`). `JoinedIsVoter` looks at whoever may be *elected next*: a node n
is electable if a majority of the configuration it knows has no longer log than n. Any two
electable nodes have configurations that differ by one voter at most (`RivalsAreAdjacent`), so
their majorities meet; a Join begins only when what the leader has is on a majority,
which makes every electable node one with a longest log; and all longest logs are the same
(`LongestLogs`). See section 5 for what the attempt to prove this showed.

*Node process.* `WindowEnds` speaks of answers, but what the window's end catches are calls on their
way. `OldCalls` says where each may be, given where it was (`atEnd`): at a lock only if it stood
at that same lock, asleep only if it slept or was about to. In the same way `OptIn` rests on
`NoneInjected`, by which no call gets past the tests of a process that injects nothing, and on
`OpenCalls`. `ProperRangesAreSafe` is about `New`, which replaces both ends of the range by
those of the profile or none: the proof is for all numbers, those below zero included.

*Verifier.* With `restarts = 0` each record is handled once (`EachRecordOnce`), so that a count, and
what a handler has read of it, is at most the number of events consumed (`CountsAtMost`), however handlers
race: FAILED is never the race's fault. The other way round, the count of an order is at least the
number of its events consumed unless it is in `overwritten` (`CountsAtLeast`), whatever moves or
restarts. So PASSED with two events of an order means that it is `overwritten`, or that
one event was not consumed; `ConsumerInv` says what became of such a record (`Missed`).

*Client.* A caller between Dial and the last assignment installs its own connection
(`InstallsItsOwn`). Two callers in a redial at once are both in `clash`, and `link` is torn until a
redial is made with nobody else in one (`OverlapIsTorn`). A caller not in `clash` therefore is
alone: nobody else writes `cc`, `svc` and `addr` between its steps, or closes what it has
dialled (`AloneInstalls`), and they agree when it is done (`StaysConnected`).

### Only model-checked

Liveness, since fairness is out of the prover's reach: `HandlerEnds`, `DecidedIsPublished`,
`EveryRecordEnds`, `ApplyReturns`, `LeaderIsReached`, `RowIsMarkedUnlessLocked`, `StopGetsThrough`,
`EveryNodeJoins`. TLC checks `IInv`, `ClusterInv`, `StreamInv` (with `ConsumerInv` in it), `NodeInv`
and `MembershipInv` in the runs of section 3; it has found no violation of `StoreInv`, `VerifierInv`
and `ClientInv` on the same instances either, where adding the name to the cfg repeats that.
Nothing recursive is used: what
a replica must hold is stated by `Matches` as a property of the log, not computed by folding it.

## 5. What the checks found

1. **A decided order without an event** (`executor_lost_answer`). If the answer to a
   committed Apply is lost, the retry is told "duplicate" or the Read finds the
   order, the handler returns nil, and the event is never written
   (`cmd/order-executor/main.go` 196-202, 216-221, 227-234), against README 140 and 204
   and `store.go` 134. The same happens if the insert fails after the decision
   (line 259), and if the process stops between Apply and insert (322-325);
   `executor_lost_answer` with `{"sqlite"}` or `{"crash"}` for `Faults` shows it.
2. **A skipped record is not retried** (`consumer_skip`): `consumer.go` 137-144.
3. **Redials race** (`client_race`): `client.go` 63-82.
4. **An orderly stop of a node panics** (`node_shutdown`): `cmd/raft-node/main.go` 61 and 149
   both call `Node.Shutdown`, and `node.go` 186 closes the channel each time, against
   `docs/architecture.md` 24. Nothing is lost by it, since it is the last thing the process
   does, but its exit status is that of a crash.

While proving `JoinedIsVoter`, one thing about the model: with a leader that may add a voter as
soon as its *configuration* is on a majority, the invariant is not inductive, and from six
nodes on `JoinedIsVoter` is false, as TLC shows with six. hashicorp/raft is not like that: it adds a voter only after an
entry of the leader's own term is committed, which is what the entry appended in `Elect` and the
condition `Committed` stand for. Four nodes do not show the difference, and a complete run
with six is out of reach, so that for this property the theorem says more than the run.

Other disagreements met while modelling, without a run of their own:

* `client.go` 92-101 retries an unreachable address instead of the next one: if the
  node it is connected to stays dead, Apply never reaches the new leader, although
  README lists leader failover. `LeaderIsReached` therefore assumes that no node
  dies. With `<>[](leader \in alive)` in place of that assumption `client_faults`
  violates it: the first node is dead, another one leads, and every Apply ends
  with its attempts spent on the first.
* `client.go` 64-78 closes the old connection before it dials: after a malformed
  address the client keeps a closed one, until another redial succeeds. In `ClientIsConnected` this is
  `link = "closed"`; `LeaderIsReached` has the premise `malformed = {}`.
* `store.go` 183 and 105: a COMMIT answered "busy" leaves its transaction open, since the deferred
  Rollback finds it ended and sends nothing. The connection goes back to the pool with
  the lock. Until it is closed every write on another connection is busy, so that rows may stay
  unmarked and be published again for good; the publisher, if it gets that very connection, lists and
  publishes a row that was never committed. `RowIsMarkedUnlessLocked` without its
  last disjunct is violated.
* `publisher.go` 93 calls a republish idempotent, but `producer.go` 27 disables
  idempotent writes and the topic gets the event twice; README 197 expects no
  duplicate order events.
* `consumer.go` 132 commits out of order, so a restart may skip records still in
  their handlers (`cut` in `LossHasCause`), against README 206.
* The verifier increments a map from several goroutines (`main.go` 74): two handlers
  that meet lose a count, and PASSED may be wrong, against README 188. The other way is a record it never
  counts (skipped, in flight at the end, or taken by an earlier run). `PassedHasCause` says
  that there is no third. It counts records, so a redelivery
  makes it say FAILED without a duplicate event: `FailedHasDuplicate` leaves out
  runs after a reassignment or restart.
* `node.go` 97-101 expects another error text than the library's: a bootstrapping
  node that is started again on its data directory ends ("fatal" in `Membership`).
* `RAFT_JOIN_ADDR` is only logged (`cmd/raft-node/main.go` 70-78), README 104 calls it
  the node to join.
* `chaos.go`: with one seed the order of concurrent calls still decides which are
  dropped (README 172 says deterministic). No property is about the seed: in the
  model a draw is any number.
* A minimum delay without a maximum panics in Intn (line 86), which
  `ProperRangesAreSafe` excludes by its premise.
* `CHAOS_EXIT_ON_LEADER` works without `CHAOS_ENABLED` (`main.go` 64, `chaos.go` 134-136), although
  README 164 calls failure injection opt-in and 173 lists it there, and the comment of `main.go` 63
  says "if chaos enabled". `OptIn` states what the switch governs, and that a process ends by
  itself only if this variable is set.
* `cmd/raft-node/main.go` 149-159: between the shutdown of Raft and GracefulStop the node
  still takes calls, and until line 154 `/healthz` still says OK, which is why
  `StoppedIsNotHealthy` starts after it. GracefulStop has no deadline: one open Watch of
  the health service keeps the process, which `StopGetsThrough` has as its premise.
* `health.go` 45 and 61 write and read `httpServer` without a lock: a shutdown that comes
  early misses the server.
* `cmd/producer/main.go` 103-110 encodes an order twice, so that no handler can parse it:
  every order of the demonstration is given up (`main.go` 136 of the executor). The
  duplicates it picks depend on the iteration order of a map (67-72), although line 22
  calls the seed deterministic.
* `health.go` 75-90: `/healthz` reflects flags set at start; a consumer that has
  stopped is still reported ready, and one that was not running after a second is never
  asked again: SetKafkaReady is not called, so the service counts as one without Kafka.

## 6. Not modelled

The two stateless gRPC servers of executor and stream processor, the way the demo
producer picks its duplicates, the sequence of numbers that a chaos seed gives, readiness of Kafka in the health checker, configuration,
logging, protocol files, scripts and deployment; and of the messages the prices, sides
and quantities, by which nothing decides. Several
partitions: every partition has its own instance of `Consumer`, and handlers of
different partitions meet only in the executor, which assumes no order of delivery
at all. Time: deadlines are nondeterministic failures, backoffs are interleavings.
Raft's own protocol (terms, votes, log matching) is the library's.

## 7. Plan

Done: the executor with its outbox and the promise of the Raft service (first,
since the system exists for it), its proofs and refinement; the Raft cluster below it;
client, consumer, store, verifier, membership; the stream processor on the consumer
and what it promises to the executor; the publisher beside the store's transactions;
the process of a node with failure injection and health; then, for each of them, the
inductive invariant, a theorem for every invariant and action property, and the four
refinements; then the causes of every loss, wrong verdict and torn connection, in theorems
that assume no fault and no number of goroutines away.

Next, theorems:

1. The executor on the cluster: `OrderExecutor` with `ProcessedOrders` replaced by `RaftCluster`,
   from `PromiseIsKept`, so that `AtMostOneEvent` is stated of both together.
2. Delivery in the executor from `Consumer` instead of at any time: what `Consumer` hands out
   is a behaviour of `Deliver`.
3. `Consumer` with one slot: no loss but by giving up and restarts, which is what the skip of
   line 137 costs.

Next, models: `RaftCluster` with three nodes and Read as an action; Join of `Membership` beside
Apply.
