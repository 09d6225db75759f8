-------------------------- MODULE OutboxPublisher --------------------------
(***************************************************************************)
(* The outbox table of the executor's SQLite database, the publisher loop  *)
(* that moves its rows to the topic orders.events, and that topic.  Each   *)
(* call of the store and of the producer is one step, so that rows arrive, *)
(* calls fail and the process dies between listing, producing and marking. *)
(***************************************************************************)
EXTENDS Orders, Naturals, FiniteSets

CONSTANTS
    Millis,         \* readings of the wall clock
    BatchSize       \* rows listed by one tick

ASSUME ClockAssumption == Millis \subseteq Nat /\ Millis # {}
ASSUME BatchAssumption == BatchSize \in Nat \ {0}

VARIABLES
    outbox,     \* the rows of outbox_events
    marked,     \* event ids whose published_unix_millis is set
    batch,      \* rows of the current batch that are still to be handled
    sent,       \* the event that is produced and about to be marked
    topic       \* copies of each event on the topic: 0, 1, or 2 for more

outboxVars == <<outbox, marked, batch, sent, topic>>

Row == [order : Order, event : Event, at : Millis]

OutboxTypeOK ==
    /\ outbox \subseteq Row
    /\ marked \subseteq Event
    /\ batch \subseteq Row
    /\ sent \in Event \union {None}
    /\ topic \in [Event -> 0..2]

OutboxInit ==
    /\ outbox = {}
    /\ marked = {}
    /\ batch = {}
    /\ sent = None
    /\ topic = [e \in Event |-> 0]

-----------------------------------------------------------------------------
Events(R) == {r.event : r \in R}

Unpublished == {r \in outbox : r.event \notin marked}

\* event_id is UNIQUE.
HasEvent(e) == e \in Events(outbox)

InsertRow(o, e) ==
    /\ ~HasEvent(e)
    /\ \E t \in Millis : outbox' = outbox \union {[order |-> o, event |-> e, at |-> t]}
    /\ UNCHANGED <<marked, batch, sent, topic>>

\* Rows B that a query ordered by creation time may return first of all of R.
Oldest(B, R) == \A r \in B, s \in R \ B : r.at <= s.at

Smaller(m, n) == IF m < n THEN m ELSE n

\* A batch of the rows R.  The ticker does not overlap batches.
List(R) ==
    /\ batch = {}
    /\ \E B \in SUBSET R :
          /\ B # {}
          /\ Cardinality(B) = Smaller(BatchSize, Cardinality(R))
          /\ Oldest(B, R)
          /\ batch' = B
    /\ UNCHANGED <<outbox, marked, sent, topic>>

\* A tick of the publisher: ListUnpublished.  A query that fails is the same as
\* no tick.
ListBatch == List(Unpublished)

Saturate(n) == Smaller(n, 2)

Written(e, n) == topic' = [topic EXCEPT ![e] = Saturate(@ + n)]

\* The next row of the batch, in the order of the query.
NextInBatch(r) == r \in batch /\ Oldest({r}, batch)

\* ProduceJSON succeeds; the client's own retries are not idempotent.
Produce(r) ==
    /\ sent = None
    /\ NextInBatch(r)
    /\ \E n \in IF "kafka" \in Faults THEN {1, 2} ELSE {1} : Written(r.event, n)
    /\ sent' = r.event
    /\ UNCHANGED <<outbox, marked, batch>>

ProduceEvent(e) == \E r \in batch : r.event = e /\ Produce(r)

\* Slip: the row is marked although the produce failed.
ProduceFails_Marks(r) ==
    /\ "kafka" \in Faults
    /\ sent = None
    /\ NextInBatch(r)
    /\ marked' = marked \union {r.event}
    /\ batch' = batch \ {r}
    /\ UNCHANGED <<outbox, sent, topic>>

\* ProduceJSON fails, the record written or not, and the row is passed over.
ProduceFails(r) ==
    /\ "kafka" \in Faults
    /\ sent = None
    /\ NextInBatch(r)
    /\ \E n \in 0..2 : Written(r.event, n)
    /\ batch' = batch \ {r}
    /\ UNCHANGED <<outbox, marked, sent>>

\* What follows the attempt to mark the event that was produced.
NextRow ==
    /\ sent # None
    /\ sent' = None
    /\ batch' = {r \in batch : r.event # sent}
    /\ UNCHANGED <<outbox, topic>>

\* Slip: the update matches no row.
Mark_NoRow == NextRow /\ UNCHANGED marked

Mark ==
    /\ NextRow
    /\ marked' = marked \union ({sent} \intersect Events(outbox))

MarkFails ==
    /\ "sqlite" \in Faults
    /\ NextRow
    /\ UNCHANGED marked

\* The process dies: its tables and the topic stay, its batch is gone.
PublisherCrash ==
    /\ batch' = {}
    /\ sent' = None
    /\ UNCHANGED <<outbox, marked, topic>>

PublisherStep ==
    \/ ListBatch
    \/ \E r \in batch : Produce(r) \/ ProduceFails(r)
    \/ Mark
    \/ MarkFails

-----------------------------------------------------------------------------
\* An event is marked as published only when a copy of it is on the topic,
\* whatever fails or crashes between ProduceJSON and MarkPublished.
MarkedIsOnTopic == \A e \in marked : topic[e] > 0

\* Nothing is on the topic that was not first committed to the outbox.
TopicComesFromOutbox == \A e \in Event : topic[e] > 0 => HasEvent(e)
=============================================================================
