---------------------------- MODULE CommandStore ----------------------------
(***************************************************************************)
(* The idempotency store with the publisher on the same database:          *)
(* Store.ProcessOrderCommand decides an order and writes its event in one  *)
(* SQLite transaction, which the publisher's queries and updates meet.     *)
(* The executor has since moved the decision to Raft and writes the outbox *)
(* by itself.                                                              *)
(*                                                                         *)
(* SQLite with its defaults: a transaction takes the read lock with its    *)
(* first query, the write lock with its first insert, and needs to be the  *)
(* only reader to commit.  A lock that is not free fails the statement at  *)
(* once.  The deferred Rollback then ends the transaction, unless it was   *)
(* the COMMIT that found the database busy: SQLite keeps that transaction, *)
(* database/sql takes it for done and sends no ROLLBACK, and it stays open *)
(* on its connection, which goes back to the pool with its locks.          *)
(***************************************************************************)
EXTENDS OutboxPublisher

CONSTANTS
    Caller,     \* goroutines that call ProcessOrderCommand
    MaxCalls    \* bound: calls of ProcessOrderCommand

ASSUME CallsAssumption == MaxCalls \in Nat

VARIABLES
    processed,  \* the table processed_commands: the command of an order
    calls,      \* calls that have begun
    cmd,        \* the command a caller is handling
    pc,         \* where its transaction stands
    reply,      \* what the last call returned, for the command in cmd
    writer,     \* the transaction that holds the write lock
    left,       \* the outbox row of a transaction left open in the pool, or None
    leftMarked  \* event ids that updates have marked within that transaction

leftVars   == <<left, leftMarked>>
callerVars == <<processed, calls, cmd, pc, reply, writer, leftVars>>
vars       == <<outboxVars, callerVars>>

Reply == {"none", "new", "duplicate", "duplicate without event", "error"}

TypeOK ==
    /\ OutboxTypeOK
    /\ calls \in 0..MaxCalls
    /\ processed \in [Order -> Command \union {None}]
    /\ cmd \in [Caller -> Command \union {None}]
    /\ pc \in [Caller -> {"idle", "check", "duplicate", "insert", "event", "commit"}]
    /\ reply \in [Caller -> Reply]
    /\ writer \in Caller \union {None}
    /\ left \in Row \union {None}
    /\ leftMarked \subseteq Event

Init ==
    /\ OutboxInit
    /\ processed = [o \in Order |-> None]
    /\ calls = 0
    /\ cmd = [p \in Caller |-> None]
    /\ pc = [p \in Caller |-> "idle"]
    /\ reply = [p \in Caller |-> "none"]
    /\ writer = None
    /\ left = None
    /\ leftMarked = {}

-----------------------------------------------------------------------------
Seen(o)   == processed[o] # None
HasRow(o) == \E r \in outbox : r.order = o

Reads(p)   == pc[p] \in {"duplicate", "insert", "event", "commit"}
Goto(p, s) == pc' = [pc EXCEPT ![p] = s]

\* The connection of a transaction that is open with row r and marks E goes back
\* to the pool, which closes it if enough others are idle: that is a rollback.
Release(r, E) ==
    /\ left' \in {r, None}
    /\ leftMarked' = IF left' = None THEN {} ELSE E

\* The call returns, and its transaction holds the write lock no more.
Return(p, r) ==
    /\ Goto(p, "idle")
    /\ reply' = [reply EXCEPT ![p] = r]
    /\ writer' = IF writer = p THEN None ELSE writer
    /\ UNCHANGED <<calls, cmd>>

Begin(p, c) ==
    /\ pc[p] = "idle" /\ calls < MaxCalls
    /\ calls' = calls + 1
    /\ Goto(p, "check")
    /\ cmd' = [cmd EXCEPT ![p] = c]
    /\ reply' = [reply EXCEPT ![p] = "none"]
    /\ UNCHANGED <<outboxVars, processed, writer, leftVars>>

\* BEGIN on the connection that has a transaction open is an error.
BeginFails(p, c) ==
    /\ pc[p] = "idle" /\ calls < MaxCalls
    /\ left # None
    /\ calls' = calls + 1
    /\ cmd' = [cmd EXCEPT ![p] = c]
    /\ reply' = [reply EXCEPT ![p] = "error"]
    /\ Release(left, leftMarked)
    /\ UNCHANGED <<outboxVars, processed, pc, writer>>

\* Is the order known?
Check(p) ==
    /\ pc[p] = "check"
    /\ left = None
    /\ Goto(p, IF Seen(cmd[p].order) THEN "duplicate" ELSE "insert")
    /\ UNCHANGED <<outboxVars, processed, calls, cmd, reply, writer, leftVars>>

Duplicate(p) ==
    /\ pc[p] = "duplicate"
    /\ Return(p, IF HasRow(cmd[p].order) THEN "duplicate" ELSE "duplicate without event")
    /\ UNCHANGED <<outboxVars, processed, leftVars>>

\* A query for the event that fails is taken for one that finds nothing.
EventNotRead(p) ==
    /\ "sqlite" \in Faults
    /\ pc[p] = "duplicate"
    /\ Return(p, "duplicate without event")
    /\ UNCHANGED <<outboxVars, processed, leftVars>>

\* Slip: the two inserts are not in one transaction.
InsertCommand_Commits(p) ==
    /\ pc[p] = "insert"
    /\ writer = None /\ left = None
    /\ writer' = p
    /\ processed' = [processed EXCEPT ![cmd[p].order] = cmd[p]]
    /\ Goto(p, "event")
    /\ UNCHANGED <<outboxVars, calls, cmd, reply, leftVars>>

\* The insert into processed_commands takes the write lock.
InsertCommand(p) ==
    /\ pc[p] = "insert"
    /\ writer = None /\ left = None
    /\ writer' = p
    /\ Goto(p, "event")
    /\ UNCHANGED <<outboxVars, processed, calls, cmd, reply, leftVars>>

\* The insert into outbox_events, whose event ids are unique.
InsertEvent(p) ==
    /\ pc[p] = "event"
    /\ ~HasEvent(cmd[p].event)
    /\ Goto(p, "commit")
    /\ UNCHANGED <<outboxVars, processed, calls, cmd, reply, writer, leftVars>>

\* Slip: readers do not hold up the commit.
Alone_Always(p) == p \in Caller

\* No other transaction has read and is still open.
Alone(p) == \A q \in Caller \ {p} : ~Reads(q)

Commit(p) ==
    /\ pc[p] = "commit"
    /\ Alone(p)
    /\ processed' = [processed EXCEPT ![cmd[p].order] = cmd[p]]
    /\ InsertRow(cmd[p].order, cmd[p].event)
    /\ Return(p, "new")
    /\ UNCHANGED leftVars

\* The publisher queries or updates just now.
PublisherIsAt == batch = {} \/ sent # None

\* The statement finds the database busy, or the event id taken.
Busy(p) ==
    \/ pc[p] = "check" /\ left # None
    \/ pc[p] = "insert" /\ (writer # None \/ left # None \/ PublisherIsAt)
    \/ pc[p] = "event" /\ HasEvent(cmd[p].event)

\* Slip: the error of the commit is not looked at.
Fails_Unchecked(p) ==
    /\ pc[p] \notin {"idle", "duplicate"}
    /\ Busy(p) \/ "sqlite" \in Faults
    /\ Return(p, IF pc[p] = "commit" THEN "new" ELSE "error")
    /\ UNCHANGED <<outboxVars, processed, leftVars>>

\* An error of a statement, or of a COMMIT that is not just busy: the
\* transaction is rolled back, and nothing is written.
Fails(p) ==
    /\ pc[p] \notin {"idle", "duplicate"}
    /\ Busy(p) \/ "sqlite" \in Faults
    /\ Return(p, "error")
    /\ UNCHANGED <<outboxVars, processed, leftVars>>

\* A COMMIT that finds readers is refused, and its transaction stays open.
CommitIsBusy(p) ==
    /\ pc[p] = "commit"
    /\ ~Alone(p) \/ PublisherIsAt
    /\ Return(p, "error")
    /\ \E t \in Millis :
          Release([order |-> cmd[p].order, event |-> cmd[p].event, at |-> t], {})
    /\ UNCHANGED <<outboxVars, processed>>

\* The publisher's update of a row needs the database for itself ...
MarkRow ==
    /\ Mark
    /\ writer = None /\ left = None /\ \A p \in Caller : ~Reads(p)
    /\ UNCHANGED callerVars

\* ... and fails while a transaction is open, or for another reason.
MarkRowFails ==
    /\ NextRow
    /\ "sqlite" \in Faults \/ left # None \/ \E p \in Caller : Reads(p)
    /\ UNCHANGED <<marked, callerVars>>

\* On the connection that was left with a transaction the publisher lists what
\* that transaction has written, and its update becomes part of it.  On any
\* other the query, too, is busy.
ListLeft ==
    /\ left # None
    /\ List({r \in outbox \union {left} : r.event \notin marked \union leftMarked})
    /\ Release(left, leftMarked)
    /\ UNCHANGED <<processed, calls, cmd, pc, reply, writer>>

MarkLeft ==
    /\ left # None
    /\ NextRow
    /\ Release(left, leftMarked \union {sent})
    /\ UNCHANGED <<marked, processed, calls, cmd, pc, reply, writer>>

Publish ==
    \/ MarkRow
    \/ MarkRowFails
    \/ ListLeft
    \/ MarkLeft
    \/ ListBatch /\ left = None /\ UNCHANGED callerVars
    \/ (\E r \in batch : Produce(r) \/ ProduceFails(r)) /\ UNCHANGED callerVars

\* The process dies; an open transaction is rolled back when it starts again.
Crash ==
    /\ "crash" \in Faults
    /\ PublisherCrash
    /\ cmd' = [p \in Caller |-> None]
    /\ pc' = [p \in Caller |-> "idle"]
    /\ reply' = [p \in Caller |-> "none"]
    /\ writer' = None
    /\ left' = None
    /\ leftMarked' = {}
    /\ UNCHANGED <<processed, calls>>

Step(p) ==
    \/ Check(p) \/ Duplicate(p) \/ EventNotRead(p) \/ InsertCommand(p)
    \/ InsertEvent(p) \/ Commit(p) \/ Fails(p) \/ CommitIsBusy(p)

Next ==
    \/ \E p \in Caller, c \in Command : Begin(p, c) \/ BeginFails(p, c)
    \/ \E p \in Caller : Step(p)
    \/ Publish
    \/ Crash

\* The ticker ticks and callers run.  A produce, or an update that is not kept
\* out by a transaction, succeeds in the end if it is made again and again.
Fairness ==
    /\ WF_vars(Publish)
    /\ \A p \in Caller : WF_vars(Step(p))
    /\ \A e \in Event : SF_vars(ProduceEvent(e) /\ UNCHANGED callerVars)
    /\ SF_vars(MarkRow)

Spec == Init /\ [][Next]_vars /\ Fairness

-----------------------------------------------------------------------------
\* The two tables agree after every crash, conflict and failed statement: an
\* order is processed exactly if it has an event, that of its command, and only
\* one.  ("Order processed but no outbox event - should not happen".)
TablesAgree ==
    /\ \A o \in Order :
           Seen(o) => \E r \in outbox : r.order = o /\ r.event = processed[o].event
    /\ \A r \in outbox : Seen(r.order) /\ processed[r.order].event = r.event

\* What a caller was told stays true while others write and fail: "new" to the
\* one whose command was recorded, "duplicate" for an order that was recorded,
\* with its event even where the caller was told that none was found.
ReplyIsTrue ==
    \A p \in Caller :
        /\ reply[p] = "new" => processed[cmd[p].order] = cmd[p]
        /\ reply[p] \in {"duplicate", "duplicate without event"} =>
               Seen(cmd[p].order) /\ HasRow(cmd[p].order)

\* What a transaction has found out still holds when it uses it: an order that
\* it saw as new is new until it commits.
CheckIsNotStale ==
    \A p \in Caller :
        pc[p] \in {"insert", "event", "commit"} => ~Seen(cmd[p].order)

\* No row stays unmarked for good, although produces and updates fail and meet
\* open transactions, unless a transaction that a busy COMMIT has left behind
\* comes back again and again or is never closed: then no update succeeds.
RowIsMarkedUnlessLocked ==
    \A e \in Event : []<>(HasEvent(e) => e \in marked \/ left # None)

-----------------------------------------------------------------------------
\* A caller that is at work, or has been told of an order, has a command.
CallerHasCommand ==
    \A p \in Caller : pc[p] # "idle" \/ reply[p] \notin {"none", "error"} => cmd[p] \in Command

\* A transaction that found the order does not lose it.
FoundIsSeen == \A p \in Caller : pc[p] = "duplicate" => Seen(cmd[p].order)

\* An event id stands in one row.
RowHasOwnEvent == \A r, s \in outbox : r.event = s.event => r = s

\* What is about to be marked is on the topic.
SentIsOnTopic == sent # None => topic[sent] > 0

\* The inductive invariant of the store.
StoreInv ==
    /\ TypeOK
    /\ CallerHasCommand
    /\ FoundIsSeen
    /\ CheckIsNotStale
    /\ TablesAgree
    /\ RowHasOwnEvent
    /\ ReplyIsTrue
    /\ SentIsOnTopic
    /\ MarkedIsOnTopic
=============================================================================
