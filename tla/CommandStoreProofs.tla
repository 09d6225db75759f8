------------------------- MODULE CommandStoreProofs -------------------------
(***************************************************************************)
(* Proofs about the idempotency store and its publisher, for every number  *)
(* of transactions, orders and events and every choice of faults.          *)
(***************************************************************************)
EXTENDS CommandStore, TLAPS

\* What the invariant says of one caller.
CallerOK(p) ==
    /\ pc[p] # "idle" \/ reply[p] \notin {"none", "error"} => cmd[p] \in Command
    /\ pc[p] = "duplicate" => Seen(cmd[p].order)
    /\ pc[p] \in {"insert", "event", "commit"} => ~Seen(cmd[p].order)
    /\ reply[p] = "new" => processed[cmd[p].order] = cmd[p]
    /\ reply[p] \in {"duplicate", "duplicate without event"} =>
           Seen(cmd[p].order) /\ HasRow(cmd[p].order)

\* What it says of the tables, and of the publisher.
TablesOK    == TablesAgree /\ RowHasOwnEvent
PublisherOK == SentIsOnTopic /\ MarkedIsOnTopic

LEMMA InvParts ==
  StoreInv <=> TypeOK /\ TablesOK /\ PublisherOK /\ \A p \in Caller : CallerOK(p)
BY DEF StoreInv, TablesOK, PublisherOK, CallerOK, CallerHasCommand, FoundIsSeen,
       CheckIsNotStale, ReplyIsTrue

LEMMA NextInvParts ==
  StoreInv' <=> TypeOK' /\ TablesOK' /\ PublisherOK' /\ \A p \in Caller : CallerOK(p)'
BY DEF StoreInv, TablesOK, PublisherOK, CallerOK, CallerHasCommand, FoundIsSeen,
       CheckIsNotStale, ReplyIsTrue

\* A caller whose own state and whose tables stay as they are.
LEMMA CallerKept ==
  ASSUME NEW p \in Caller, CallerOK(p), UNCHANGED <<processed, outbox>>,
         pc'[p] = pc[p], cmd'[p] = cmd[p], reply'[p] = reply[p]
  PROVE  CallerOK(p)'
BY DEF CallerOK, Seen, HasRow

\* The tables stay as they are.
LEMMA TablesKept ==
  ASSUME TablesOK, UNCHANGED <<processed, outbox>>
  PROVE  TablesOK'
BY DEF TablesOK, TablesAgree, RowHasOwnEvent, Seen

LEMMA PublisherKept ==
  ASSUME PublisherOK, UNCHANGED <<marked, sent, topic>>
  PROVE  PublisherOK'
BY DEF PublisherOK, SentIsOnTopic, MarkedIsOnTopic

\* The tables are empty and nobody has been told anything.
LEMMA InitStore == Init => StoreInv
<1> SUFFICES ASSUME Init PROVE StoreInv
  OBVIOUS
<1> USE DEF Init, OutboxInit
<1>1. TypeOK
  BY CallsAssumption DEF TypeOK, OutboxTypeOK, Reply
<1>2. TablesOK /\ PublisherOK
  BY DEF TablesOK, TablesAgree, RowHasOwnEvent, Seen, PublisherOK, SentIsOnTopic, MarkedIsOnTopic
<1>3. \A p \in Caller : CallerOK(p)
  BY DEF CallerOK
<1>. QED  BY <1>1, <1>2, <1>3, InvParts

-----------------------------------------------------------------------------
\* A statement of a transaction that neither commits nor returns, and the
\* beginning of one.
LEMMA StatementInv ==
  ASSUME StoreInv, NEW p \in Caller,
         \/ \E c \in Command : Begin(p, c)
         \/ Check(p) \/ InsertCommand(p) \/ InsertEvent(p)
  PROVE  StoreInv'
<1>0. UNCHANGED <<outboxVars, processed, leftVars>>
  BY DEF Begin, Check, InsertCommand, InsertEvent
<1>1. TypeOK'
  <2>1. TypeOK
    BY DEF StoreInv
  <2>2. ASSUME NEW c \in Command, Begin(p, c) PROVE TypeOK'
    <3>1. calls' \in 0..MaxCalls
      BY <2>1, <2>2, CallsAssumption DEF Begin, TypeOK
    <3>. QED  BY <2>1, <2>2, <3>1 DEF Begin, Goto, TypeOK, OutboxTypeOK, outboxVars, Reply, leftVars
  <2>3. CASE Check(p) \/ InsertCommand(p) \/ InsertEvent(p)
    BY <2>1, <2>3
    DEF Check, InsertCommand, InsertEvent, Goto, TypeOK, OutboxTypeOK, outboxVars, leftVars
  <2>. QED  BY <2>2, <2>3
<1>2. ASSUME NEW q \in Caller, q # p
      PROVE  pc'[q] = pc[q] /\ cmd'[q] = cmd[q] /\ reply'[q] = reply[q]
  BY <1>2 DEF Begin, Check, InsertCommand, InsertEvent, Goto, StoreInv, TypeOK
<1>3. CallerOK(p)'
  <2>1. CallerOK(p)
    BY InvParts
  <2>2. ASSUME NEW c \in Command, Begin(p, c) PROVE CallerOK(p)'
    BY <2>2 DEF CallerOK, Begin, Goto, StoreInv, TypeOK
  <2>3. CASE Check(p)
    BY <2>1, <2>3 DEF CallerOK, Check, Goto, Seen, HasRow, outboxVars, StoreInv, TypeOK
  <2>4. CASE InsertCommand(p) \/ InsertEvent(p)
    BY <2>1, <2>4
    DEF CallerOK, InsertCommand, InsertEvent, Goto, Seen, HasRow, outboxVars, StoreInv, TypeOK
  <2>. QED  BY <2>2, <2>3, <2>4
<1>4. \A q \in Caller : CallerOK(q)'
  BY <1>0, <1>2, <1>3, CallerKept, InvParts DEF outboxVars
<1>5. TablesOK' /\ PublisherOK'
  BY <1>0, InvParts, TablesKept, PublisherKept DEF outboxVars
<1>. QED  BY <1>1, <1>4, <1>5, NextInvParts

\* What the pool is left with is the row of a command, or nothing.
LEMMA ReleaseType ==
  ASSUME NEW r \in Row \union {None}, NEW E \in SUBSET Event, Release(r, E)
  PROVE  left' \in Row \union {None} /\ leftMarked' \subseteq Event
BY DEF Release

\* A transaction that returns without a commit, or with one that is refused.
LEMMA ReturnInv ==
  ASSUME StoreInv, NEW p \in Caller,
         Duplicate(p) \/ EventNotRead(p) \/ Fails(p) \/ CommitIsBusy(p)
  PROVE  StoreInv'
<1>0. /\ UNCHANGED <<outboxVars, processed, calls, cmd>>
      /\ \E r \in Reply : Return(p, r) /\ r # "new" /\
           (r \in {"duplicate", "duplicate without event"} => pc[p] = "duplicate")
  BY DEF Duplicate, EventNotRead, Fails, CommitIsBusy, Return, Reply
<1>1. PICK r \in Reply :
        /\ Return(p, r) /\ r # "new"
        /\ r \in {"duplicate", "duplicate without event"} => pc[p] = "duplicate"
  BY <1>0
<1>2. TypeOK'
  <2>1. left' \in Row \union {None} /\ leftMarked' \subseteq Event
    <3>1. CASE CommitIsBusy(p)
      <4>1. cmd[p].order \in Order /\ cmd[p].event \in Event
        BY <3>1, CommandAssumption DEF CommitIsBusy, StoreInv, CallerHasCommand
      <4>. QED  BY <3>1, <4>1, ReleaseType DEF CommitIsBusy, Row
    <3>2. CASE UNCHANGED leftVars
      BY <3>2 DEF leftVars, StoreInv, TypeOK
    <3>. QED  BY <3>1, <3>2 DEF Duplicate, EventNotRead, Fails
  <2>. QED  BY <1>0, <1>1, <2>1 DEF StoreInv, TypeOK, OutboxTypeOK, outboxVars, Return, Goto
<1>3. ASSUME NEW q \in Caller, q # p
      PROVE  pc'[q] = pc[q] /\ cmd'[q] = cmd[q] /\ reply'[q] = reply[q]
  BY <1>0, <1>1, <1>3 DEF Return, Goto, StoreInv, TypeOK
<1>4. CallerOK(p)'
  <2>1. CallerOK(p) /\ pc'[p] = "idle" /\ reply'[p] = r /\ cmd'[p] = cmd[p]
    BY <1>0, <1>1, InvParts DEF Return, Goto, StoreInv, TypeOK
  <2>2. CASE r \in {"duplicate", "duplicate without event"}
    <3>1. cmd[p] \in Command /\ Seen(cmd[p].order)
      BY <1>1, <2>1, <2>2 DEF CallerOK
    <3>2. HasRow(cmd[p].order)
      BY <3>1, CommandAssumption DEF StoreInv, TablesAgree, HasRow
    <3>. QED  BY <1>0, <2>1, <2>2, <3>1, <3>2 DEF CallerOK, Seen, HasRow, outboxVars
  <2>3. CASE r \in {"none", "error"}
    BY <2>1, <2>3 DEF CallerOK
  <2>. QED  BY <1>1, <2>2, <2>3 DEF Reply
<1>5. \A q \in Caller : CallerOK(q)'
  BY <1>0, <1>3, <1>4, CallerKept, InvParts DEF outboxVars
<1>6. TablesOK' /\ PublisherOK'
  BY <1>0, InvParts, TablesKept, PublisherKept DEF outboxVars
<1>. QED  BY <1>2, <1>5, <1>6, NextInvParts

\* The commit: both tables get their row at once, and no other transaction has
\* seen the order as new.
LEMMA CommitInv ==
  ASSUME StoreInv, NEW p \in Caller, Commit(p)
  PROVE  StoreInv'
<1> DEFINE c == cmd[p]
<1>0. /\ c \in Command /\ c.order \in Order /\ c.event \in Event /\ c # None
      /\ ~Seen(c.order) /\ ~HasEvent(c.event)
      /\ processed' = [processed EXCEPT ![c.order] = c]
      /\ UNCHANGED <<marked, batch, sent, topic, calls, cmd>>
  BY CommandAssumption, NoneAssumption
  DEF StoreInv, CallerHasCommand, CheckIsNotStale, Commit, Return, InsertRow
<1>1. PICK t \in Millis :
        outbox' = outbox \union {[order |-> c.order, event |-> c.event, at |-> t]}
  BY DEF Commit, InsertRow
<1> DEFINE n == [order |-> c.order, event |-> c.event, at |-> t]
<1>2. /\ n \in Row /\ n.order = c.order /\ n.event = c.event /\ outbox' = outbox \union {n}
  BY <1>0, <1>1 DEF Row
<1> HIDE DEF n
<1>3. TypeOK'
  <2>1. OutboxTypeOK'
    BY <1>0, <1>2 DEF StoreInv, TypeOK, OutboxTypeOK
  <2>2. processed' \in [Order -> Command \union {None}]
    BY <1>0 DEF StoreInv, TypeOK
  <2>. QED  BY <1>0, <2>1, <2>2 DEF Commit, Return, Goto, StoreInv, TypeOK, Reply, leftVars
<1>4. /\ processed'[c.order] = c
      /\ \A o \in Order : o # c.order => processed'[o] = processed[o]
  BY <1>0 DEF StoreInv, TypeOK
<1>5. \A r \in outbox : r.order \in Order /\ r.order # c.order /\ r.event # c.event
  BY <1>0 DEF StoreInv, TypeOK, OutboxTypeOK, Row, TablesAgree, HasEvent, Events
<1>6. TablesOK'
  <2>1. ASSUME NEW o \in Order, Seen(o)'
        PROVE  \E r \in outbox' : r.order = o /\ r.event = processed'[o].event
    <3>1. CASE o = c.order
      BY <1>2, <1>4, <3>1
    <3>2. CASE o # c.order
      BY <1>2, <1>4, <2>1, <3>2 DEF StoreInv, TablesAgree, Seen
    <3>. QED  BY <3>1, <3>2
  <2>2. ASSUME NEW r \in outbox'
        PROVE  Seen(r.order)' /\ processed'[r.order].event = r.event
    <3>1. CASE r = n
      BY <1>0, <1>2, <1>4, <3>1 DEF Seen
    <3>2. CASE r \in outbox
      BY <1>4, <1>5, <3>2 DEF StoreInv, TablesAgree, Seen
    <3>. QED  BY <1>2, <3>1, <3>2
  <2>3. RowHasOwnEvent'
    BY <1>2, <1>5 DEF StoreInv, RowHasOwnEvent
  <2>. QED  BY <2>1, <2>2, <2>3 DEF TablesOK, TablesAgree
<1>7. ASSUME NEW q \in Caller PROVE CallerOK(q)'
  <2>1. CASE q = p
    BY <1>0, <1>4, <2>1 DEF CallerOK, Commit, Return, Goto, StoreInv, TypeOK
  <2>2. CASE q # p
    <3>1. pc'[q] = pc[q] /\ cmd'[q] = cmd[q] /\ reply'[q] = reply[q]
      BY <2>2 DEF Commit, Return, Goto, StoreInv, TypeOK
    <3>2. pc[q] \notin {"duplicate", "insert", "event", "commit"}
      BY <2>2 DEF Commit, Alone, Reads
    <3>3. CallerOK(q)
      BY InvParts
    <3>4. reply[q] \notin {"none", "error"} =>
            cmd[q] \in Command /\ cmd[q].order \in Order
      BY <3>3, CommandAssumption DEF CallerOK
    <3>5. reply[q] \in {"new", "duplicate", "duplicate without event"} =>
            /\ Seen(cmd[q].order) /\ cmd[q].order # c.order /\ cmd[q].order \in Order
      BY <1>0, <3>3, <3>4, NoneAssumption DEF CallerOK, Seen
    <3>6. HasRow(cmd[q].order) => HasRow(cmd[q].order)'
      BY <1>0, <1>2 DEF HasRow
    <3>. QED  BY <1>4, <3>1, <3>2, <3>3, <3>5, <3>6 DEF CallerOK, Seen
  <2>. QED  BY <2>1, <2>2
<1>8. PublisherOK'
  BY <1>0, InvParts, PublisherKept
<1>. QED  BY <1>3, <1>6, <1>7, <1>8, NextInvParts

\* A transaction that cannot begin.
LEMMA BeginFailsInv ==
  ASSUME StoreInv, NEW p \in Caller, NEW c \in Command, BeginFails(p, c)
  PROVE  StoreInv'
<1> USE DEF BeginFails
<1>1. TypeOK'
  <2>1. left' \in Row \union {None} /\ leftMarked' \subseteq Event
    BY ReleaseType DEF StoreInv, TypeOK
  <2>2. calls' \in 0..MaxCalls
    BY CallsAssumption DEF StoreInv, TypeOK
  <2>. QED  BY <2>1, <2>2 DEF StoreInv, TypeOK, OutboxTypeOK, outboxVars, Reply
<1>2. ASSUME NEW q \in Caller, q # p
      PROVE  pc'[q] = pc[q] /\ cmd'[q] = cmd[q] /\ reply'[q] = reply[q]
  BY <1>2 DEF StoreInv, TypeOK
<1>3. CallerOK(p)'
  BY DEF CallerOK, StoreInv, TypeOK
<1>4. \A q \in Caller : CallerOK(q)'
  BY <1>2, <1>3, CallerKept, InvParts DEF outboxVars
<1>5. TablesOK' /\ PublisherOK'
  BY InvParts, TablesKept, PublisherKept DEF outboxVars
<1>. QED  BY <1>1, <1>4, <1>5, NextInvParts

-----------------------------------------------------------------------------
\* Copies are only ever added to the topic.
LEMMA WrittenGrows ==
  ASSUME OutboxTypeOK, NEW e \in Event, NEW n \in 0..2, Written(e, n)
  PROVE  /\ topic' \in [Event -> 0..2]
         /\ \A f \in Event : topic[f] > 0 => topic'[f] > 0
         /\ n > 0 => topic'[e] > 0
BY DEF OutboxTypeOK, Written, Saturate, Smaller

\* The publisher's steps: what it marks it has written before.
LEMMA PublishInv ==
  ASSUME StoreInv, Publish
  PROVE  StoreInv'
<1>0. /\ UNCHANGED <<processed, calls, cmd, pc, reply, writer, outbox>>
      /\ left' \in Row \union {None} /\ leftMarked' \subseteq Event
  <2>1. CASE ListLeft
    BY <2>1, ReleaseType DEF ListLeft, List, StoreInv, TypeOK
  <2>2. CASE MarkLeft
    <3>1. leftMarked \union {sent} \subseteq Event
      BY <2>2 DEF MarkLeft, NextRow, StoreInv, TypeOK, OutboxTypeOK
    <3>. QED  BY <2>2, <3>1, ReleaseType DEF MarkLeft, NextRow, StoreInv, TypeOK
  <2>3. CASE UNCHANGED callerVars
    BY <2>3 DEF callerVars, leftVars, Publish, MarkRow, MarkRowFails, Mark, NextRow, ListBatch,
                List, Produce, ProduceFails, ListLeft, MarkLeft, StoreInv, TypeOK
  <2>. QED  BY <2>1, <2>2, <2>3 DEF Publish, MarkRow, MarkRowFails
<1>1. OutboxTypeOK' /\ PublisherOK'
  <2>0. OutboxTypeOK /\ PublisherOK
    BY InvParts DEF TypeOK
  <2>1. CASE ListBatch \/ ListLeft
    <3>1. PICK R \in SUBSET Row : List(R)
      <4>1. CASE ListBatch
        BY <2>0, <4>1 DEF ListBatch, Unpublished, OutboxTypeOK
      <4>2. CASE ListLeft
        <5>1. {r \in outbox \union {left} : r.event \notin marked \union leftMarked} \subseteq Row
          BY <2>0, <4>2 DEF ListLeft, OutboxTypeOK, StoreInv, TypeOK
        <5>. QED  BY <4>2, <5>1 DEF ListLeft
      <4>. QED  BY <2>1, <4>1, <4>2
    <3>2. batch' \subseteq Row /\ UNCHANGED <<outbox, marked, sent, topic>>
      BY <3>1 DEF List
    <3>. QED  BY <2>0, <3>2, PublisherKept DEF OutboxTypeOK
  <2>2. ASSUME NEW r \in batch, Produce(r) PROVE OutboxTypeOK' /\ PublisherOK'
    <3>1. r.event \in Event /\ sent' = r.event /\ UNCHANGED <<outbox, marked, batch>>
      BY <2>0, <2>2 DEF Produce, OutboxTypeOK, Row
    <3>2. PICK n \in 1..2 : Written(r.event, n)
      BY <2>2 DEF Produce
    <3>3. /\ topic' \in [Event -> 0..2] /\ topic'[r.event] > 0
          /\ \A f \in Event : topic[f] > 0 => topic'[f] > 0
      BY <2>0, <3>1, <3>2, WrittenGrows
    <3>4. OutboxTypeOK'
      BY <2>0, <3>1, <3>3 DEF OutboxTypeOK
    <3>5. PublisherOK'
      BY <2>0, <3>1, <3>3 DEF PublisherOK, SentIsOnTopic, MarkedIsOnTopic, OutboxTypeOK
    <3>. QED  BY <3>4, <3>5
  <2>3. ASSUME NEW r \in batch, ProduceFails(r) PROVE OutboxTypeOK' /\ PublisherOK'
    <3>1. r.event \in Event /\ UNCHANGED <<outbox, marked, sent>> /\ batch' = batch \ {r}
      BY <2>0, <2>3 DEF ProduceFails, OutboxTypeOK, Row
    <3>2. PICK n \in 0..2 : Written(r.event, n)
      BY <2>3 DEF ProduceFails
    <3>3. /\ topic' \in [Event -> 0..2]
          /\ \A f \in Event : topic[f] > 0 => topic'[f] > 0
      BY <2>0, <3>1, <3>2, WrittenGrows
    <3>4. OutboxTypeOK'
      BY <2>0, <3>1, <3>3 DEF OutboxTypeOK
    <3>5. PublisherOK'
      BY <2>0, <3>1, <3>3 DEF PublisherOK, SentIsOnTopic, MarkedIsOnTopic, OutboxTypeOK
    <3>. QED  BY <3>4, <3>5
  <2>4. CASE MarkRow \/ MarkRowFails \/ MarkLeft
    <3>1. /\ sent \in Event /\ sent' = None /\ batch' \subseteq batch
          /\ UNCHANGED <<outbox, topic>> /\ marked' \in {marked, marked \union {sent}}
      BY <2>0, <2>4 DEF MarkRow, MarkRowFails, MarkLeft, Mark, NextRow, OutboxTypeOK
    <3>2. OutboxTypeOK'
      BY <2>0, <3>1 DEF OutboxTypeOK
    <3>3. PublisherOK'
      BY <2>0, <3>1, NoneAssumption DEF PublisherOK, SentIsOnTopic, MarkedIsOnTopic
    <3>. QED  BY <3>2, <3>3
  <2>. QED  BY <2>1, <2>2, <2>3, <2>4 DEF Publish
<1>2. TypeOK'
  BY <1>0, <1>1 DEF StoreInv, TypeOK
<1>3. TablesOK' /\ \A p \in Caller : CallerOK(p)'
  BY <1>0, InvParts, TablesKept, CallerKept
<1>. QED  BY <1>1, <1>2, <1>3, NextInvParts

\* A crash leaves the tables and the topic, and nobody in a transaction.
LEMMA CrashInv ==
  ASSUME StoreInv, Crash
  PROVE  StoreInv'
<1> USE DEF Crash, PublisherCrash
<1>1. TypeOK'
  BY DEF StoreInv, TypeOK, OutboxTypeOK, Reply
<1>2. TablesOK'
  BY InvParts, TablesKept
<1>3. PublisherOK'
  BY InvParts DEF PublisherOK, SentIsOnTopic, MarkedIsOnTopic
<1>4. \A p \in Caller : CallerOK(p)'
  BY DEF CallerOK
<1>. QED  BY <1>1, <1>2, <1>3, <1>4, NextInvParts

-----------------------------------------------------------------------------
\* Every step of the store keeps its invariant.
LEMMA NextStore ==
  ASSUME StoreInv, [Next]_vars
  PROVE  StoreInv'
<1>1. ASSUME NEW p \in Caller,
             (\E c \in Command : Begin(p, c) \/ BeginFails(p, c)) \/ Step(p)
      PROVE  StoreInv'
  BY <1>1, StatementInv, BeginFailsInv, ReturnInv, CommitInv DEF Step
<1>2. CASE Publish
  BY <1>2, PublishInv
<1>3. CASE Crash
  BY <1>3, CrashInv
<1>4. CASE UNCHANGED vars
  <2> USE <1>4 DEF vars, outboxVars, callerVars, leftVars
  <2>1. TypeOK'
    BY DEF StoreInv, TypeOK, OutboxTypeOK
  <2>2. TablesOK' /\ PublisherOK' /\ \A p \in Caller : CallerOK(p)'
    BY InvParts, TablesKept, PublisherKept, CallerKept
  <2>. QED  BY <2>1, <2>2, NextInvParts
<1>. QED  BY <1>1, <1>2, <1>3, <1>4 DEF Next

\* The store's invariant holds in every state of every behaviour.
THEOREM StoreInvariance == Spec => []StoreInv
BY InitStore, NextStore, PTL DEF Spec

\* An order is in processed_commands exactly if its event is in the outbox,
\* after every conflict, failed statement and crash (store.go commits both
\* inserts at once).
THEOREM TablesAlwaysAgree == Spec => []TablesAgree
<1>1. StoreInv => TablesAgree
  BY DEF StoreInv
<1>. QED  BY <1>1, StoreInvariance, PTL

\* What ProcessOrderCommand has told a caller is so, and stays so.
THEOREM RepliesAreTrue == Spec => []ReplyIsTrue
<1>1. StoreInv => ReplyIsTrue
  BY DEF StoreInv
<1>. QED  BY <1>1, StoreInvariance, PTL

\* The order that a transaction found to be new is new when it commits: a
\* commit waits for every other reader.
THEOREM ChecksAreNotStale == Spec => []CheckIsNotStale
<1>1. StoreInv => CheckIsNotStale
  BY DEF StoreInv
<1>. QED  BY <1>1, StoreInvariance, PTL

\* Beside the transactions, too, the publisher marks only what is on the topic.
THEOREM StoreMarksWhatIsOnTopic == Spec => []MarkedIsOnTopic
<1>1. StoreInv => MarkedIsOnTopic
  BY DEF StoreInv
<1>. QED  BY <1>1, StoreInvariance, PTL

\* An order never gets two rows in the outbox of the store.
THEOREM OneRowPerOrder ==
  Spec => [](\A r, s \in outbox : r.order = s.order => r = s)
<1>1. StoreInv => \A r, s \in outbox : r.order = s.order => r = s
  BY DEF StoreInv, TablesAgree, RowHasOwnEvent
<1>. QED  BY <1>1, StoreInvariance, PTL
=============================================================================
