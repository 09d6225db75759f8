--------------------------- MODULE OrderExecutor ---------------------------
(***************************************************************************)
(* The order executor: handler goroutines that take order commands from    *)
(* Kafka, have them decided by the Raft service, and write the event of a  *)
(* new order to the outbox that the publisher drains.  The ledger and the  *)
(* outbox are two stores, and no transaction spans them.                   *)
(***************************************************************************)
EXTENDS ProcessedOrders, OutboxPublisher

CONSTANTS
    Valid,          \* the commands that pass the handler's checks
    MaxTries,       \* invocations of the handler for one record (maxRetries)
    MaxCrashes      \* bound: how often the process may die

ASSUME ValidAssumption == Valid \subseteq Command
ASSUME TriesAssumption == MaxTries \in Nat \ {0}
ASSUME CrashAssumption == MaxCrashes \in Nat

Worker == Caller

VARIABLES
    pc,         \* where the handler of a worker's record stands
    rec,        \* the record's command
    tries,      \* invocations of the handler that have failed
    crashes,    \* how often the process has died
    lost        \* a history variable, which no action reads: the orders that
                \* were decided and whose event nobody will write any more

workerVars == <<pc, rec, tries, crashes>>
vars == <<raftVars, outboxVars, workerVars, lost>>

PC == {"idle", "start", "apply", "read", "insert", "commit"}

TypeOK ==
    /\ RaftTypeOK
    /\ OutboxTypeOK
    /\ pc \in [Worker -> PC]
    /\ rec \in [Worker -> Command \union {None}]
    /\ tries \in [Worker -> 0..MaxTries - 1]
    /\ crashes \in 0..MaxCrashes

Init ==
    /\ RaftInit
    /\ OutboxInit
    /\ pc = [w \in Worker |-> "idle"]
    /\ rec = [w \in Worker |-> None]
    /\ tries = [w \in Worker |-> 0]
    /\ crashes = 0
    /\ lost = {}

-----------------------------------------------------------------------------
HasRow(o) == \E r \in outbox : r.order = o

\* The worker knows that its command decided the order, and has yet to write
\* the event: the Raft service said "applied" and nobody else was told so.
Holds(w) == pc[w] = "insert" \/ call[w] = "applied"

Held(o) == \E w \in Worker : Holds(w) /\ rec[w].order = o

\* The workers W will not write the events that they hold.
Forget(W) == lost' = lost \union {rec[w].order : w \in {v \in W : Holds(v)}}

Goto(w, s) == pc' = [pc EXCEPT ![w] = s]

\* The worker leaves its record and releases its slot.
Release(w) ==
    /\ Goto(w, "idle")
    /\ rec' = [rec EXCEPT ![w] = None]
    /\ tries' = [tries EXCEPT ![w] = 0]
    /\ UNCHANGED crashes

\* The handler returns nil: the record's offset will be committed.
ReturnNil(w) == Goto(w, "commit") /\ UNCHANGED <<rec, tries, crashes>>

\* Slip: one call of the handler too many.
ReturnError_OneMore(w) ==
    IF tries[w] < MaxTries
    THEN /\ Goto(w, "start")
         /\ tries' = [tries EXCEPT ![w] = @ + 1]
         /\ UNCHANGED <<rec, crashes>>
    ELSE Release(w)

\* Slip: the retries are not counted.
ReturnError_Uncounted(w) == Goto(w, "start") /\ UNCHANGED <<rec, tries, crashes>>

\* The handler returns an error: handleWithRetry calls it again from the
\* start, or gives the record up without committing its offset.
ReturnError(w) ==
    IF tries[w] + 1 < MaxTries
    THEN /\ Goto(w, "start")
         /\ tries' = [tries EXCEPT ![w] = @ + 1]
         /\ UNCHANGED <<rec, crashes>>
    ELSE Release(w)

-----------------------------------------------------------------------------
\* Kafka delivers a record, any one and any number of times: the producer is
\* not idempotent and uncommitted records are delivered again.
Deliver(w, c) ==
    /\ pc[w] = "idle"
    /\ Goto(w, "start")
    /\ rec' = [rec EXCEPT ![w] = c]
    /\ UNCHANGED <<tries, crashes, raftVars, outboxVars, lost>>

\* The record does not parse or its order is not acceptable.
Reject(w) ==
    /\ pc[w] = "start"
    /\ rec[w] \notin Valid
    /\ ReturnError(w)
    /\ UNCHANGED <<raftVars, outboxVars, lost>>

CallApply(w) ==
    /\ pc[w] = "start"
    /\ rec[w] \in Valid
    /\ Begin(w, rec[w])
    /\ Goto(w, "apply")
    /\ UNCHANGED <<rec, tries, crashes, outboxVars, lost>>

\* The attempts of Client.Apply and their answers.
ApplyStep(w) ==
    /\ pc[w] = "apply"
    /\ \/ (Commit(w) \/ Refuse(w) \/ Retry(w)) /\ UNCHANGED lost
       \/ Lose(w) /\ Forget({w})
    /\ UNCHANGED <<workerVars, outboxVars>>

\* Client.Apply has failed, or was never acknowledged as applied.
ApplyFailed(w) ==
    /\ pc[w] = "apply"
    /\ GaveUp(w)
    /\ Return(w)
    /\ Goto(w, "read")
    /\ UNCHANGED <<rec, tries, crashes, outboxVars, lost>>

\* Read finds the order: taken as done.
ReadFinds(w) ==
    /\ pc[w] = "read"
    /\ ReadFound(rec[w].order)
    /\ ReturnNil(w)
    /\ UNCHANGED <<raftVars, outboxVars, lost>>

\* Slip: the order is taken as done whatever Read says.
ReadMisses_Done(w) ==
    /\ pc[w] = "read"
    /\ ReturnNil(w)
    /\ UNCHANGED <<raftVars, outboxVars, lost>>

\* Read fails or misses the order.
ReadMisses(w) ==
    /\ pc[w] = "read"
    /\ ReturnError(w)
    /\ UNCHANGED <<raftVars, outboxVars, lost>>

\* Slip: the answer "duplicate" is not told from "applied".
ApplyDuplicate_Inserts(w) ==
    /\ pc[w] = "apply"
    /\ call[w] = "duplicate"
    /\ Return(w)
    /\ Goto(w, "insert")
    /\ UNCHANGED <<rec, tries, crashes, outboxVars, lost>>

ApplyDuplicate(w) ==
    /\ pc[w] = "apply"
    /\ call[w] = "duplicate"
    /\ Return(w)
    /\ ReturnNil(w)
    /\ UNCHANGED <<outboxVars, lost>>

\* Slip: the handler returns before the event is written.
ApplyNew_Returns(w) ==
    /\ pc[w] = "apply"
    /\ call[w] = "applied"
    /\ Return(w)
    /\ ReturnNil(w)
    /\ UNCHANGED <<outboxVars, lost>>

ApplyNew(w) ==
    /\ pc[w] = "apply"
    /\ call[w] = "applied"
    /\ Return(w)
    /\ Goto(w, "insert")
    /\ UNCHANGED <<rec, tries, crashes, outboxVars, lost>>

\* The event takes the command's event id behind a prefix.
Insert(w) ==
    /\ pc[w] = "insert"
    /\ InsertRow(rec[w].order, rec[w].event)
    /\ ReturnNil(w)
    /\ UNCHANGED <<raftVars, lost>>

\* The statement fails, or the event id is already in the table.
InsertFails(w) ==
    /\ pc[w] = "insert"
    /\ "sqlite" \in Faults \/ HasEvent(rec[w].event)
    /\ ReturnError(w)
    /\ Forget({w})
    /\ UNCHANGED <<raftVars, outboxVars>>

\* CommitRecords; that it fails is not looked at.
CommitOffset(w) ==
    /\ pc[w] = "commit"
    /\ Release(w)
    /\ UNCHANGED <<raftVars, outboxVars, lost>>

\* The process dies, or is shut down: main closes the clients and the store
\* and exits without waiting for the handlers.
Crash ==
    /\ "crash" \in Faults
    /\ crashes < MaxCrashes
    /\ crashes' = crashes + 1
    /\ pc' = [w \in Worker |-> "idle"]
    /\ rec' = [w \in Worker |-> None]
    /\ tries' = [w \in Worker |-> 0]
    /\ CallersCrash
    /\ PublisherCrash
    /\ Forget(Worker)

Publish == PublisherStep /\ UNCHANGED <<raftVars, workerVars, lost>>

\* An entry is committed whose caller has been told nothing, or has gone.
LateCommit ==
    /\ CommitOrphan
    /\ lost' = lost \union {o \in Order : ledger'[o] # ledger[o]}
    /\ UNCHANGED <<outboxVars, workerVars>>

HandlerStep(w) ==
    \/ Reject(w) \/ CallApply(w) \/ ApplyStep(w) \/ ApplyFailed(w)
    \/ ReadFinds(w) \/ ReadMisses(w) \/ ApplyDuplicate(w) \/ ApplyNew(w)
    \/ Insert(w) \/ InsertFails(w) \/ CommitOffset(w)

Next ==
    \/ \E w \in Worker, c \in Command : Deliver(w, c)
    \/ \E w \in Worker : HandlerStep(w)
    \/ LateCommit
    \/ Publish
    \/ Crash

\* Every wait of a handler has a deadline, so it is never stuck at a step; the
\* publisher's loop runs beside the handlers.
Fairness ==
    /\ \A w \in Worker : WF_vars(HandlerStep(w))
    /\ WF_vars(Publish)
    /\ \A e \in Event : SF_vars(ProduceEvent(e) /\ UNCHANGED <<raftVars, workerVars, lost>>)
    /\ SF_vars(Mark /\ UNCHANGED <<raftVars, workerVars, lost>>)

Spec == Init /\ [][Next]_vars /\ Fairness

-----------------------------------------------------------------------------
\* No two rows of the outbox are for the same order, however often the order's
\* commands are delivered, retried, committed late or cut off by a crash: the
\* outbox has no such constraint, only the answer "applied" guards the insert.
OneEventPerOrder == \A r, s \in outbox : r.order = s.order => r = s

\* The event that is written is the one of the command the cluster recorded,
\* although the order may have had competing commands.
EventOfWinner ==
    \A r \in outbox : Decided(r.order) /\ ledger[r.order].event = r.event

\* No offset is committed for an order that the cluster has not decided: not
\* after a refusal, a lost answer or a stale read.
CommitOnlyDecided == \A w \in Worker : pc[w] = "commit" => Decided(rec[w].order)

\* A decided order has its event in the outbox, or a live worker is about to
\* write it ("Order processed but no outbox event - should not happen").
EventAccounted == \A o \in Order : Decided(o) => HasRow(o) \/ Held(o)

\* The decided orders that have neither are exactly those of which the answer
\* "applied" or its receiver was lost, the insert failed, or the entry was
\* committed after its caller had left: the interleavings of handlers, retries,
\* reads and give-ups lose no other, and none of these ever gets its event, for
\* whoever handles the order again is told "duplicate" or finds it done.
EventLossHasCause ==
    lost = {o \in Order : Decided(o) /\ ~HasRow(o) /\ ~Held(o)}

\* The handler of a record always comes to an end: its retries are bounded at
\* both levels and no answer of the Raft service leaves it waiting.
HandlerEnds == \A w \in Worker : pc[w] # "idle" ~> pc[w] = "idle"

\* Every decided order has its event on the topic in the end, or is one of those:
\* handlers, inserts, produces and updates that fail, and a crash, only put it off.
DecidedIsPublished ==
    \A o \in Order :
        Decided(o) ~> o \in lost \/ \E r \in outbox : r.order = o /\ topic[r.event] > 0

-----------------------------------------------------------------------------
\* The inductive invariant from which the safety properties follow.

\* A call is in progress exactly while its worker is at Client.Apply.
CallsBelong ==
    \A w \in Worker :
        /\ pc[w] # "idle" => rec[w] \in Command
        /\ pc[w] = "apply" <=> call[w] # "none"
        /\ pc[w] = "apply" => cmd[w] = rec[w]

\* A holder's command is the one recorded, and its event is not written yet.
HolderHasWon ==
    \A w \in Worker : Holds(w) =>
        ledger[rec[w].order] = rec[w] /\ ~HasRow(rec[w].order)

\* Nobody else holds the same order.
HolderIsAlone ==
    \A v, w \in Worker :
        Holds(v) /\ Holds(w) /\ rec[v].order = rec[w].order => v = w

DuplicateIsDecided ==
    \A w \in Worker : call[w] = "duplicate" => Decided(rec[w].order)

RowHasOwnEvent == \A r, s \in outbox : r.event = s.event => r = s

BatchIsFromOutbox == batch \subseteq outbox /\ sent \in Events(batch) \union {None}

IInv ==
    /\ TypeOK
    /\ CallsBelong
    /\ HolderHasWon
    /\ HolderIsAlone
    /\ DuplicateIsDecided
    /\ CommitOnlyDecided
    /\ OneEventPerOrder
    /\ EventOfWinner
    /\ RowHasOwnEvent
    /\ BatchIsFromOutbox

-----------------------------------------------------------------------------
\* How the executor's state is read as the promise's.
emittedOf(o) ==
    IF HasRow(o) THEN (CHOOSE r \in outbox : r.order = o).event ELSE None

publishedOf(o) == IF HasRow(o) THEN topic[emittedOf(o)] ELSE 0

Promise == INSTANCE OrderLedger WITH
    decided <- ledger,
    emitted <- [o \in Order |-> emittedOf(o)],
    published <- [o \in Order |-> publishedOf(o)]

\* The executor implements the promise: one decision, at most one event and
\* that of the deciding command, published only after it was emitted.
ImplementsPromise == Promise!Spec
=============================================================================
