------------------------ MODULE OrderExecutorProofs ------------------------
(***************************************************************************)
(* Proofs about the order executor, for every set of orders, commands and  *)
(* workers, every choice of faults and every bound: its invariant, then    *)
(* exactly which orders lose their event, and that it implements the       *)
(* promise of OrderLedger.                                                 *)
(***************************************************************************)
EXTENDS OrderExecutor, TLAPS

\* What every step does to the ledger: a decision is never revised.
LedgerGrows == \A o \in Order : Decided(o) => ledger'[o] = ledger[o]

\* The steps that make no worker a new holder.
NoNewHolder ==
    \A v \in Worker : Holds(v)' => Holds(v) /\ rec'[v] = rec[v]

\* The conjuncts of the invariant that relate the workers to the stores.
Agreement ==
    /\ HolderHasWon
    /\ HolderIsAlone
    /\ OneEventPerOrder
    /\ EventOfWinner
    /\ RowHasOwnEvent

Progress == DuplicateIsDecided /\ CommitOnlyDecided

\* A holder has a command.
LEMMA HolderHasCommand ==
  ASSUME CallsBelong, NEW w \in Worker, Holds(w)
  PROVE  rec[w] \in Command /\ rec[w].order \in Order /\ rec[w] # None
BY CommandAssumption, NoneAssumption DEF CallsBelong, Holds

\* A decided order has a recorded command, and stays decided.
LEMMA DecidedStays ==
  ASSUME LedgerGrows, NEW o \in Order, Decided(o)
  PROVE  Decided(o)'
BY DEF LedgerGrows, Decided

\* Steps that write no row and make no holder leave the agreement intact.
LEMMA AgreementKept ==
  ASSUME IInv, LedgerGrows, outbox' = outbox, NoNewHolder
  PROVE  Agreement'
<1>1. OneEventPerOrder' /\ RowHasOwnEvent'
  BY DEF IInv, OneEventPerOrder, RowHasOwnEvent
<1>2. EventOfWinner'
  BY DEF IInv, TypeOK, OutboxTypeOK, Row, EventOfWinner, LedgerGrows, Decided
<1>3. HolderIsAlone'
  BY DEF IInv, HolderIsAlone, NoNewHolder
<1>4. HolderHasWon'
  <2> SUFFICES ASSUME NEW w \in Worker, Holds(w)'
               PROVE  /\ ledger'[rec'[w].order] = rec'[w]
                      /\ ~\E r \in outbox' : r.order = rec'[w].order
    BY DEF HolderHasWon, HasRow
  <2>1. Holds(w) /\ rec'[w] = rec[w]
    BY DEF NoNewHolder
  <2>2. ledger[rec[w].order] = rec[w] /\ ~HasRow(rec[w].order)
    BY <2>1 DEF IInv, HolderHasWon
  <2>3. rec[w].order \in Order /\ rec[w] # None
    BY <2>1, HolderHasCommand DEF IInv
  <2>4. ledger'[rec[w].order] = ledger[rec[w].order]
    BY <2>2, <2>3 DEF LedgerGrows, Decided
  <2>. QED  BY <2>1, <2>2, <2>4 DEF HasRow
<1>. QED  BY <1>1, <1>2, <1>3, <1>4 DEF Agreement

\* What is left to show of such a step.
LEMMA KeptInv ==
  ASSUME IInv, TypeOK', CallsBelong', Progress', BatchIsFromOutbox',
         LedgerGrows, outbox' = outbox, NoNewHolder
  PROVE  IInv'
BY AgreementKept DEF IInv, Agreement, Progress

\* The initial state satisfies the inductive invariant.
LEMMA InitInv == Init => IInv
<1> SUFFICES ASSUME Init PROVE IInv
  OBVIOUS
<1> USE DEF Init, RaftInit, OutboxInit, Worker
<1>1. TypeOK
  BY NoneAssumption, AttemptAssumption, TriesAssumption, CrashAssumption
  DEF TypeOK, RaftTypeOK, OutboxTypeOK, CallState, PC
<1>2. CallsBelong
  BY DEF CallsBelong
<1>3. HolderHasWon /\ HolderIsAlone
  BY DEF HolderHasWon, HolderIsAlone, Holds
<1>4. DuplicateIsDecided /\ CommitOnlyDecided
  BY DEF DuplicateIsDecided, CommitOnlyDecided
<1>5. OneEventPerOrder /\ EventOfWinner /\ RowHasOwnEvent
  BY DEF OneEventPerOrder, EventOfWinner, RowHasOwnEvent
<1>6. BatchIsFromOutbox
  BY DEF BatchIsFromOutbox, Events
<1>. QED  BY <1>1, <1>2, <1>3, <1>4, <1>5, <1>6 DEF IInv

-----------------------------------------------------------------------------
\* Committing a command: the one step that makes a holder.
LEMMA CommitInv ==
  ASSUME IInv, NEW w \in Worker, pc[w] = "apply", Commit(w),
         UNCHANGED <<workerVars, outboxVars>>
  PROVE  IInv'
<1> DEFINE c == cmd[w]
<1>1. /\ c = rec[w] /\ c \in Command /\ c.order \in Order /\ c # None
      /\ call[w] = "pending"
  BY CommandAssumption, NoneAssumption DEF IInv, CallsBelong, Commit
<1>2. TypeOK'
  BY <1>1 DEF IInv, TypeOK, RaftTypeOK, OutboxTypeOK, CallState, Commit, Upsert,
              Outcome, Decided, workerVars, outboxVars, Worker
<1>3. CallsBelong'
  BY <1>1 DEF IInv, TypeOK, RaftTypeOK, CallsBelong, Commit, Outcome, workerVars, Worker
<1>4. LedgerGrows
  BY <1>1 DEF IInv, TypeOK, RaftTypeOK, LedgerGrows, Commit, Upsert, Decided
<1>5. Progress'
  BY <1>1, <1>4, CommandAssumption
  DEF IInv, TypeOK, RaftTypeOK, Progress, DuplicateIsDecided, CommitOnlyDecided,
      CallsBelong, Commit, Upsert, Outcome, LedgerGrows, Decided, workerVars, Worker
<1>6. BatchIsFromOutbox'
  BY DEF IInv, BatchIsFromOutbox, Events, outboxVars
<1>7. Agreement'
  <2>1. CASE Decided(c.order)
    <3>1. NoNewHolder
      BY <1>1, <2>1 DEF IInv, TypeOK, RaftTypeOK, NoNewHolder, Holds, Commit, Outcome, workerVars
    <3>. QED  BY <1>4, <3>1, AgreementKept DEF outboxVars
  <2>2. CASE ~Decided(c.order)
    <3>1. ledger'[c.order] = c
      BY <1>1, <2>2 DEF IInv, TypeOK, RaftTypeOK, Commit, Upsert
    <3>2. \A v \in Worker : v # w => (Holds(v)' <=> Holds(v))
      BY DEF IInv, TypeOK, RaftTypeOK, Holds, Commit, workerVars
    <3>3. \A v \in Worker : Holds(v) => rec[v].order # c.order /\ rec[v].order \in Order
      BY <1>1, <2>2, HolderHasCommand DEF IInv, HolderHasWon, Decided
    <3>4. \A r \in outbox : r.order # c.order /\ r.order \in Order
      BY <2>2 DEF IInv, TypeOK, OutboxTypeOK, Row, EventOfWinner
    <3>5. HolderHasWon'
      <4> SUFFICES ASSUME NEW v \in Worker, Holds(v)'
                   PROVE  ledger'[rec[v].order] = rec[v] /\ ~HasRow(rec[v].order)
        BY DEF HolderHasWon, HasRow, workerVars, outboxVars
      <4>1. CASE v = w
        BY <1>1, <3>1, <3>4, <4>1 DEF HasRow
      <4>2. CASE v # w
        <5>1. Holds(v) /\ rec[v] # None
          BY <3>2, <4>2, HolderHasCommand DEF IInv
        <5>2. ledger[rec[v].order] = rec[v] /\ ~HasRow(rec[v].order)
          BY <5>1 DEF IInv, HolderHasWon
        <5>. QED  BY <1>4, <3>3, <5>1, <5>2 DEF LedgerGrows, Decided
      <4>. QED  BY <4>1, <4>2
    <3>6. HolderIsAlone'
      BY <1>1, <3>2, <3>3 DEF IInv, HolderIsAlone, workerVars
    <3>7. OneEventPerOrder' /\ RowHasOwnEvent'
      BY DEF IInv, OneEventPerOrder, RowHasOwnEvent, outboxVars
    <3>8. EventOfWinner'
      BY <1>4, <3>4 DEF IInv, EventOfWinner, LedgerGrows, Decided, outboxVars
    <3>. QED  BY <3>5, <3>6, <3>7, <3>8 DEF Agreement
  <2>. QED  BY <2>1, <2>2
<1>. QED  BY <1>2, <1>3, <1>5, <1>6, <1>7 DEF IInv, Agreement, Progress

\* The other outcomes of an attempt, and a further attempt.
LEMMA AttemptInv ==
  ASSUME IInv, NEW w \in Worker, pc[w] = "apply",
         Refuse(w) \/ Lose(w) \/ Retry(w),
         UNCHANGED <<workerVars, outboxVars>>
  PROVE  IInv'
<1>1. ledger' = ledger /\ cmd' = cmd
  BY DEF Refuse, Lose, Retry
<1>2. cmd[w] \in Command
  BY DEF IInv, CallsBelong
<1>3. orphans' \subseteq orphans \union {cmd[w]}
  BY DEF Refuse, Lose, Retry, Abandon
<1>4. call' \in [Worker -> CallState] /\ attempt' \in [Worker -> 0..MaxAttempts]
  BY AttemptAssumption
  DEF IInv, TypeOK, RaftTypeOK, CallState, Refuse, Lose, Retry, Worker
<1>5. TypeOK'
  BY <1>1, <1>2, <1>3, <1>4
  DEF IInv, TypeOK, RaftTypeOK, OutboxTypeOK, workerVars, outboxVars, Worker
<1>6. /\ \A v \in Worker : v # w => call'[v] = call[v]
      /\ call'[w] \in {"pending", "retry", "error"} /\ call[w] # "none"
  BY DEF IInv, TypeOK, RaftTypeOK, Refuse, Lose, Retry, Worker
<1>7. CallsBelong'
  BY <1>1, <1>6 DEF IInv, CallsBelong, workerVars
<1>8. Progress'
  BY <1>1, <1>6
  DEF IInv, Progress, DuplicateIsDecided, CommitOnlyDecided, Decided, workerVars
<1>9. NoNewHolder
  BY <1>6 DEF NoNewHolder, Holds, workerVars
<1>. QED
  BY <1>1, <1>5, <1>7, <1>8, <1>9, KeptInv DEF LedgerGrows, outboxVars, IInv, BatchIsFromOutbox, Events

\* An orphan is committed: it may decide an order, and makes no holder.
LEMMA LateCommitInv ==
  ASSUME IInv, LateCommit
  PROVE  IInv'
<1> PICK c \in orphans : Upsert(c)
  BY DEF LateCommit, CommitOrphan
<1>1. c \in Command /\ c.order \in Order /\ c # None
  BY CommandAssumption, NoneAssumption DEF IInv, TypeOK, RaftTypeOK
<1>2. UNCHANGED <<cmd, call, attempt, outboxVars, workerVars>>
  BY DEF LateCommit, CommitOrphan
<1>3. TypeOK'
  BY <1>1, <1>2 DEF IInv, TypeOK, RaftTypeOK, OutboxTypeOK, Upsert, outboxVars, workerVars
<1>4. CallsBelong'
  BY <1>2 DEF IInv, CallsBelong, workerVars
<1>5. LedgerGrows
  BY <1>1 DEF IInv, TypeOK, RaftTypeOK, LedgerGrows, Upsert, Decided
<1>6. \A v \in Worker : pc[v] # "idle" => rec[v].order \in Order
  BY CommandAssumption DEF IInv, CallsBelong
<1>7. Progress'
  BY <1>2, <1>5, <1>6
  DEF IInv, CallsBelong, Progress, DuplicateIsDecided, CommitOnlyDecided,
      LedgerGrows, Decided, workerVars
<1>8. NoNewHolder
  BY <1>2 DEF NoNewHolder, Holds, workerVars
<1>. QED
  BY <1>2, <1>3, <1>4, <1>5, <1>7, <1>8, KeptInv DEF outboxVars, IInv, BatchIsFromOutbox, Events

-----------------------------------------------------------------------------
\* What a move of a worker within its handler leaves alone.
OnlyMoves(w) ==
    /\ UNCHANGED <<raftVars, outboxVars, crashes>>
    /\ \A v \in Worker : v # w => pc'[v] = pc[v] /\ rec'[v] = rec[v]
    /\ pc'[w] \in {"idle", "start", "commit"}
    /\ pc'[w] # "idle" => rec'[w] \in Command
    /\ pc'[w] = "commit" => Decided(rec'[w].order)

\* Such a move, of a worker that is not in a call, keeps the invariant.
LEMMA MoveInv ==
  ASSUME IInv, NEW w \in Worker, pc[w] # "apply", OnlyMoves(w),
         pc' \in [Worker -> PC], rec' \in [Worker -> Command \union {None}],
         tries' \in [Worker -> 0..MaxTries - 1]
  PROVE  IInv'
<1> USE DEF OnlyMoves, raftVars, outboxVars
<1>1. TypeOK'
  BY DEF IInv, TypeOK, RaftTypeOK, OutboxTypeOK
<1>2. call[w] = "none"
  BY DEF IInv, CallsBelong, TypeOK, RaftTypeOK, CallState
<1>3. CallsBelong'
  BY <1>2 DEF IInv, CallsBelong
<1>4. Progress'
  BY <1>2 DEF IInv, Progress, DuplicateIsDecided, CommitOnlyDecided, Decided
<1>5. BatchIsFromOutbox'
  BY DEF IInv, BatchIsFromOutbox, Events
<1>6. LedgerGrows
  BY DEF LedgerGrows
<1>7. NoNewHolder
  BY <1>2 DEF NoNewHolder, Holds
<1>. QED  BY <1>1, <1>3, <1>4, <1>5, <1>6, <1>7, KeptInv

\* An error of the handler is such a move.
LEMMA ErrorInv ==
  ASSUME IInv, NEW w \in Worker, pc[w] \notin {"idle", "apply"}, ReturnError(w),
         UNCHANGED <<raftVars, outboxVars>>
  PROVE  IInv'
<1>1. rec[w] \in Command
  BY DEF IInv, CallsBelong
<1>2. /\ pc \in [Worker -> PC] /\ rec \in [Worker -> Command \union {None}]
      /\ tries \in [Worker -> 0..MaxTries - 1]
  BY DEF IInv, TypeOK
<1>3. OnlyMoves(w)
  BY <1>1, <1>2 DEF OnlyMoves, ReturnError, Release, Goto
<1>4. /\ pc' \in [Worker -> PC] /\ rec' \in [Worker -> Command \union {None}]
      /\ tries' \in [Worker -> 0..MaxTries - 1]
  BY <1>2, TriesAssumption DEF ReturnError, Release, Goto, PC
<1>. QED  BY <1>3, <1>4, MoveInv

\* The steps of a handler outside a call, the insert apart.
LEMMA HandlerMoveInv ==
  ASSUME IInv, NEW w \in Worker,
         \/ \E c \in Command : Deliver(w, c)
         \/ Reject(w) \/ ReadFinds(w) \/ ReadMisses(w)
         \/ InsertFails(w) \/ CommitOffset(w)
  PROVE  IInv'
<1>1. /\ pc \in [Worker -> PC] /\ rec \in [Worker -> Command \union {None}]
      /\ tries \in [Worker -> 0..MaxTries - 1]
  BY DEF IInv, TypeOK
<1>2. CASE \E c \in Command : Deliver(w, c)
  <2>1. OnlyMoves(w) /\ pc[w] # "apply"
    BY <1>1, <1>2 DEF OnlyMoves, Deliver, Goto
  <2>2. pc' \in [Worker -> PC] /\ rec' \in [Worker -> Command \union {None}] /\ tries' = tries
    BY <1>1, <1>2 DEF Deliver, Goto, PC
  <2>. QED  BY <1>1, <2>1, <2>2, MoveInv
<1>3. CASE ReadFinds(w)
  <2>1. rec[w] \in Command
    BY <1>3 DEF IInv, CallsBelong, ReadFinds
  <2>2. OnlyMoves(w) /\ pc[w] # "apply"
    BY <1>1, <1>3, <2>1 DEF OnlyMoves, ReadFinds, ReadFound, ReturnNil, Goto
  <2>3. pc' \in [Worker -> PC] /\ rec' = rec /\ tries' = tries
    BY <1>1, <1>3 DEF ReadFinds, ReturnNil, Goto, PC
  <2>. QED  BY <1>1, <2>2, <2>3, MoveInv
<1>4. CASE CommitOffset(w)
  <2>1. OnlyMoves(w) /\ pc[w] # "apply"
    BY <1>1, <1>4 DEF OnlyMoves, CommitOffset, Release, Goto
  <2>2. /\ pc' \in [Worker -> PC] /\ rec' \in [Worker -> Command \union {None}]
        /\ tries' \in [Worker -> 0..MaxTries - 1]
    BY <1>1, <1>4, TriesAssumption DEF CommitOffset, Release, Goto, PC
  <2>. QED  BY <2>1, <2>2, MoveInv
<1>5. CASE Reject(w)
  BY <1>5, ErrorInv DEF Reject
<1>6. CASE ReadMisses(w)
  BY <1>6, ErrorInv DEF ReadMisses
<1>7. CASE InsertFails(w)
  BY <1>7, ErrorInv DEF InsertFails
<1>. QED  BY <1>2, <1>3, <1>4, <1>5, <1>6, <1>7

\* The handler enters Client.Apply.
LEMMA CallApplyInv ==
  ASSUME IInv, NEW w \in Worker, CallApply(w)
  PROVE  IInv'
<1> USE DEF CallApply, Begin, Goto
<1>1. rec[w] \in Command
  BY ValidAssumption
<1>2. UNCHANGED <<ledger, orphans, outboxVars, rec, tries, crashes>>
  OBVIOUS
<1>3. TypeOK'
  BY <1>1, <1>2, AttemptAssumption
  DEF IInv, TypeOK, RaftTypeOK, OutboxTypeOK, CallState, PC, Worker, outboxVars
<1>4. CallsBelong'
  BY <1>1, <1>2 DEF IInv, TypeOK, RaftTypeOK, CallsBelong, Worker
<1>5. Progress'
  BY <1>2 DEF IInv, TypeOK, RaftTypeOK, Progress, DuplicateIsDecided,
              CommitOnlyDecided, Decided, Worker
<1>6. NoNewHolder
  BY <1>2 DEF IInv, TypeOK, RaftTypeOK, NoNewHolder, Holds, Worker
<1>. QED
  BY <1>2, <1>3, <1>4, <1>5, <1>6, KeptInv
  DEF LedgerGrows, outboxVars, IInv, BatchIsFromOutbox, Events

\* The handler takes the result of Client.Apply.
LEMMA ResultInv ==
  ASSUME IInv, NEW w \in Worker,
         ApplyFailed(w) \/ ApplyDuplicate(w) \/ ApplyNew(w)
  PROVE  IInv'
<1> USE DEF ApplyFailed, ApplyDuplicate, ApplyNew, Return, ReturnNil, Goto
<1>1. UNCHANGED <<ledger, orphans, outboxVars, rec, tries, crashes>>
  OBVIOUS
<1>2. rec[w] \in Command /\ pc[w] = "apply"
  BY DEF IInv, CallsBelong
<1>3. TypeOK'
  BY <1>1, AttemptAssumption
  DEF IInv, TypeOK, RaftTypeOK, OutboxTypeOK, CallState, PC, Worker, outboxVars
<1>4. CallsBelong'
  BY <1>1, <1>2 DEF IInv, TypeOK, RaftTypeOK, CallsBelong, Worker
<1>5. Progress'
  BY <1>1 DEF IInv, TypeOK, RaftTypeOK, Progress, DuplicateIsDecided,
              CommitOnlyDecided, Decided, Worker
<1>6. NoNewHolder
  BY <1>1 DEF IInv, TypeOK, RaftTypeOK, NoNewHolder, Holds, Worker
<1>. QED
  BY <1>1, <1>3, <1>4, <1>5, <1>6, KeptInv
  DEF LedgerGrows, outboxVars, IInv, BatchIsFromOutbox, Events

-----------------------------------------------------------------------------
\* The holder writes its event: the row is the order's only one, and nobody
\* holds the order any more.
LEMMA InsertInv ==
  ASSUME IInv, NEW w \in Worker, Insert(w)
  PROVE  IInv'
<1> DEFINE c == rec[w]
<1> USE DEF Insert, ReturnNil, Goto
<1>1. PICK t \in Millis :
         outbox' = outbox \union {[order |-> c.order, event |-> c.event, at |-> t]}
  BY DEF InsertRow
<1> DEFINE n == [order |-> c.order, event |-> c.event, at |-> t]
<1>2. UNCHANGED <<raftVars, marked, batch, sent, topic, rec, tries, crashes>>
  BY DEF InsertRow
<1>3. /\ Holds(w) /\ c \in Command /\ c.order \in Order /\ c.event \in Event
      /\ c # None /\ call[w] = "none"
  BY CommandAssumption, NoneAssumption
  DEF Holds, IInv, CallsBelong, TypeOK, RaftTypeOK, CallState
<1>4. /\ \A r \in outbox : r.order # c.order /\ r.event # c.event
      /\ ledger[c.order] = c
  BY <1>3 DEF IInv, HolderHasWon, HasRow, InsertRow, HasEvent, Events
<1>5. n \in Row /\ n.order = c.order /\ n.event = c.event
  BY <1>3 DEF Row
<1>6. \A v \in Worker : Holds(v)' <=> v # w /\ Holds(v)
  BY <1>2, <1>3 DEF IInv, TypeOK, Holds, raftVars
<1>7. TypeOK'
  BY <1>1, <1>2, <1>5 DEF IInv, TypeOK, RaftTypeOK, OutboxTypeOK, PC, raftVars
<1>8. CallsBelong'
  BY <1>2 DEF IInv, TypeOK, CallsBelong, raftVars
<1>9. Progress'
  BY <1>2, <1>3, <1>4
  DEF IInv, TypeOK, Progress, DuplicateIsDecided, CommitOnlyDecided, Decided, raftVars
<1>10. OneEventPerOrder' /\ RowHasOwnEvent'
  BY <1>1, <1>4, <1>5 DEF IInv, OneEventPerOrder, RowHasOwnEvent
<1>11. EventOfWinner'
  BY <1>1, <1>2, <1>3, <1>4, <1>5 DEF IInv, EventOfWinner, Decided, raftVars
<1>12. HolderIsAlone'
  BY <1>2, <1>6 DEF IInv, HolderIsAlone
<1>13. \A v \in Worker : v # w /\ Holds(v) => rec[v].order # c.order
  BY <1>3 DEF IInv, HolderIsAlone
<1>14. HolderHasWon'
  <2> SUFFICES ASSUME NEW v \in Worker, Holds(v)'
               PROVE  /\ ledger'[rec'[v].order] = rec'[v]
                      /\ ~\E r \in outbox' : r.order = rec'[v].order
    BY DEF HolderHasWon, HasRow
  <2>1. v # w /\ Holds(v)
    BY <1>6
  <2>2. ledger[rec[v].order] = rec[v] /\ ~\E r \in outbox : r.order = rec[v].order
    BY <2>1 DEF IInv, HolderHasWon, HasRow
  <2>. QED  BY <1>1, <1>2, <1>5, <1>13, <2>1, <2>2 DEF raftVars
<1>15. BatchIsFromOutbox'
  BY <1>1, <1>2 DEF IInv, BatchIsFromOutbox, Events
<1>. QED
  BY <1>7, <1>8, <1>9, <1>10, <1>11, <1>12, <1>14, <1>15 DEF IInv, Progress

\* The publisher reads the rows and writes only its own state.
LEMMA PublishInv ==
  ASSUME IInv, Publish
  PROVE  IInv'
<1>1. UNCHANGED <<outbox, raftVars, workerVars>>
  BY DEF Publish, PublisherStep, ListBatch, List, Produce, ProduceFails, Mark,
         MarkFails, NextRow
<1>2. OutboxTypeOK' /\ BatchIsFromOutbox'
  <2> USE DEF IInv, TypeOK, OutboxTypeOK, BatchIsFromOutbox, Events
  <2>1. CASE ListBatch
    <3>1. batch' \subseteq outbox /\ UNCHANGED <<outbox, marked, sent, topic>>
      BY <2>1 DEF ListBatch, List, Unpublished
    <3>. QED  BY <2>1, <3>1 DEF ListBatch, List
  <2>2. ASSUME NEW r \in batch, Produce(r) PROVE OutboxTypeOK' /\ BatchIsFromOutbox'
    <3>1. r.event \in Event
      BY DEF Row
    <3>2. PICK n \in {1, 2} : Written(r.event, n)
      BY <2>2 DEF Produce
    <3>3. topic' \in [Event -> 0..2]
      BY <3>1, <3>2 DEF Written, Saturate, Smaller
    <3>. QED  BY <2>2, <3>1, <3>3 DEF Produce
  <2>3. ASSUME NEW r \in batch, ProduceFails(r) PROVE OutboxTypeOK' /\ BatchIsFromOutbox'
    <3>1. r.event \in Event
      BY DEF Row
    <3>2. PICK n \in 0..2 : Written(r.event, n)
      BY <2>3 DEF ProduceFails
    <3>3. topic' \in [Event -> 0..2]
      BY <3>1, <3>2 DEF Written, Saturate, Smaller
    <3>. QED  BY <2>3, <3>3 DEF ProduceFails
  <2>4. CASE Mark
    BY <2>4 DEF Mark, NextRow, Row
  <2>5. CASE MarkFails
    BY <2>5 DEF MarkFails, NextRow
  <2>. QED  BY <2>1, <2>2, <2>3, <2>4, <2>5 DEF Publish, PublisherStep
<1>3. TypeOK'
  BY <1>1, <1>2 DEF IInv, TypeOK, RaftTypeOK, raftVars, workerVars
<1>4. CallsBelong' /\ Progress'
  BY <1>1 DEF IInv, CallsBelong, Progress, DuplicateIsDecided, CommitOnlyDecided,
              Decided, raftVars, workerVars
<1>5. LedgerGrows /\ NoNewHolder
  BY <1>1 DEF LedgerGrows, NoNewHolder, Holds, raftVars, workerVars
<1>. QED  BY <1>1, <1>2, <1>3, <1>4, <1>5, KeptInv

\* A crash leaves no holder.
LEMMA CrashInv ==
  ASSUME IInv, Crash
  PROVE  IInv'
<1> USE DEF Crash, CallersCrash, PublisherCrash
<1>1. orphans' \subseteq Command
  BY DEF Abandon, IInv, TypeOK, RaftTypeOK, CallsBelong, CallState, Worker
<1>2. TypeOK'
  <2>1. RaftTypeOK'
    BY <1>1, AttemptAssumption DEF IInv, TypeOK, RaftTypeOK, CallState
  <2>2. OutboxTypeOK'
    BY DEF IInv, TypeOK, OutboxTypeOK
  <2>. QED  BY <2>1, <2>2, TriesAssumption, CrashAssumption DEF IInv, TypeOK, PC
<1>3. CallsBelong' /\ Progress' /\ NoNewHolder
  BY DEF CallsBelong, Progress, DuplicateIsDecided, CommitOnlyDecided,
         NoNewHolder, Holds, Worker
<1>4. BatchIsFromOutbox' /\ LedgerGrows
  BY DEF BatchIsFromOutbox, LedgerGrows
<1>. QED  BY <1>2, <1>3, <1>4, KeptInv

\* Every step keeps the invariant.
LEMMA NextInv == IInv /\ [Next]_vars => IInv'
<1> SUFFICES ASSUME IInv, [Next]_vars PROVE IInv'
  OBVIOUS
<1>1. ASSUME NEW w \in Worker, NEW c \in Command, Deliver(w, c) PROVE IInv'
  BY <1>1, HandlerMoveInv
<1>2. ASSUME NEW w \in Worker, HandlerStep(w) PROVE IInv'
  <2>1. CASE ApplyStep(w)
    BY <2>1, CommitInv, AttemptInv DEF ApplyStep
  <2>2. CASE CallApply(w)
    BY <2>2, CallApplyInv
  <2>3. CASE ApplyFailed(w) \/ ApplyDuplicate(w) \/ ApplyNew(w)
    BY <2>3, ResultInv
  <2>4. CASE Reject(w) \/ ReadFinds(w) \/ ReadMisses(w) \/ InsertFails(w) \/ CommitOffset(w)
    BY <2>4, HandlerMoveInv
  <2>5. CASE Insert(w)
    BY <2>5, InsertInv
  <2>. QED  BY <1>2, <2>1, <2>2, <2>3, <2>4, <2>5 DEF HandlerStep
<1>3. CASE LateCommit
  BY <1>3, LateCommitInv
<1>4. CASE Publish
  BY <1>4, PublishInv
<1>5. CASE Crash
  BY <1>5, CrashInv
<1>6. CASE UNCHANGED vars
  <2> USE <1>6 DEF vars, raftVars, outboxVars, workerVars
  <2>1. TypeOK'
    <3>1. RaftTypeOK' /\ OutboxTypeOK'
      BY DEF IInv, TypeOK, RaftTypeOK, OutboxTypeOK
    <3>. QED  BY <3>1 DEF IInv, TypeOK
  <2>2. CallsBelong' /\ Progress' /\ BatchIsFromOutbox'
    BY DEF IInv, CallsBelong, Progress, DuplicateIsDecided, CommitOnlyDecided,
           Decided, BatchIsFromOutbox, Events
  <2>3. LedgerGrows /\ NoNewHolder
    BY DEF LedgerGrows, NoNewHolder, Holds
  <2>. QED  BY <2>1, <2>2, <2>3, KeptInv
<1>. QED  BY <1>1, <1>2, <1>3, <1>4, <1>5, <1>6 DEF Next

-----------------------------------------------------------------------------
\* The invariant holds in every state of every behaviour.
THEOREM Invariance == Spec => []IInv
BY InitInv, NextInv, PTL DEF Spec

\* Every variable keeps its type: the retries stay within their bounds and a
\* call only ever stands in one of its states.
THEOREM TypeCorrectness == Spec => []TypeOK
<1>1. IInv => TypeOK
  BY DEF IInv
<1>. QED  BY <1>1, Invariance, PTL

\* No order ever has two rows in the outbox (main.go inserts without looking,
\* trusting the answer "applied"), whatever is lost, late, repeated or crashes.
THEOREM AtMostOneEvent == Spec => []OneEventPerOrder
<1>1. IInv => OneEventPerOrder
  BY DEF IInv
<1>. QED  BY <1>1, Invariance, PTL

\* The event written for an order is that of the command the FSM recorded.
THEOREM WinnersEvent == Spec => []EventOfWinner
<1>1. IInv => EventOfWinner
  BY DEF IInv
<1>. QED  BY <1>1, Invariance, PTL

\* An offset is committed only for an order that the cluster has decided.
THEOREM CommitsAfterDecision == Spec => []CommitOnlyDecided
<1>1. IInv => CommitOnlyDecided
  BY DEF IInv
<1>. QED  BY <1>1, Invariance, PTL

-----------------------------------------------------------------------------
\* Orders are decided, written and held as before.
SameAccount ==
    \A o \in Order :
        /\ Decided(o)' <=> Decided(o)
        /\ (HasRow(o) \/ Held(o))' <=> HasRow(o) \/ Held(o)

\* Then the account is the same, too.
LEMMA AccountKept ==
  ASSUME EventLossHasCause, lost' = lost, SameAccount
  PROVE  EventLossHasCause'
BY DEF EventLossHasCause, SameAccount

\* The same holders hold the same records.
SameHolders == \A v \in Worker : (Holds(v)' <=> Holds(v)) /\ (Holds(v) => rec'[v] = rec[v])

LEMMA HoldersKept ==
  ASSUME SameHolders, ledger' = ledger, outbox' = outbox
  PROVE  SameAccount
BY DEF SameHolders, SameAccount, Held, HasRow, Decided

\* Workers W forget what they hold: their orders have no row, and nobody else
\* who holds them.
LEMMA ForgetLoses ==
  ASSUME IInv, EventLossHasCause, NEW W \in SUBSET Worker, Forget(W),
         UNCHANGED <<ledger, outbox>>,
         \A v \in W : ~Holds(v)',
         \A v \in Worker \ W : (Holds(v)' <=> Holds(v)) /\ rec'[v] = rec[v]
  PROVE  EventLossHasCause'
<1> SUFFICES ASSUME NEW o
             PROVE  o \in lost' <=> o \in Order /\ Decided(o)' /\ ~HasRow(o)' /\ ~Held(o)'
  BY DEF EventLossHasCause, Forget
<1>1. (Decided(o)' <=> Decided(o)) /\ (HasRow(o)' <=> HasRow(o))
  BY DEF Decided, HasRow
<1>2. CASE \E w \in W : Holds(w) /\ rec[w].order = o
  <2>1. PICK w \in W : Holds(w) /\ rec[w].order = o
    BY <1>2
  <2>2. o \in Order /\ Decided(o) /\ ~HasRow(o)
    BY <2>1, HolderHasCommand DEF IInv, HolderHasWon, Decided
  <2>3. \A v \in Worker : Holds(v)' => v # w /\ Holds(v) /\ rec'[v] = rec[v]
    <3> SUFFICES ASSUME NEW v \in Worker, Holds(v)'
                 PROVE  v # w /\ Holds(v) /\ rec'[v] = rec[v]
      OBVIOUS
    <3>1. v \in Worker \ W
      OBVIOUS
    <3>. QED  BY <2>1, <3>1
  <2>4. ~Held(o)'
    BY <2>1, <2>3 DEF Held, IInv, HolderIsAlone
  <2>. QED  BY <1>1, <2>1, <2>2, <2>4 DEF Forget
<1>3. CASE ~\E w \in W : Holds(w) /\ rec[w].order = o
  <2>1. o \in lost' <=> o \in lost
    BY <1>3 DEF Forget
  <2>2. Held(o)' <=> Held(o)
    <3>1. ASSUME NEW v \in Worker, Holds(v), rec[v].order = o
          PROVE  Holds(v)' /\ rec'[v].order = o
      <4>1. v \in Worker \ W
        BY <1>3, <3>1
      <4>. QED  BY <3>1, <4>1
    <3>2. ASSUME NEW v \in Worker, Holds(v)', rec'[v].order = o
          PROVE  Holds(v) /\ rec[v].order = o
      <4>1. v \in Worker \ W
        BY <3>2
      <4>. QED  BY <3>2, <4>1
    <3>. QED  BY <3>1, <3>2 DEF Held
  <2>. QED  BY <1>1, <2>1, <2>2 DEF EventLossHasCause
<1>. QED  BY <1>2, <1>3

\* A command is committed, and its caller is told.
LEMMA CommitAccount ==
  ASSUME IInv, EventLossHasCause, NEW w \in Worker, pc[w] = "apply", Commit(w),
         UNCHANGED <<workerVars, outboxVars, lost>>
  PROVE  EventLossHasCause'
<1>0. PICK c \in Command : c = cmd[w]
  BY DEF IInv, CallsBelong
<1>1. c = rec[w] /\ c.order \in Order /\ c # None /\ call[w] = "pending"
  BY <1>0, CommandAssumption, NoneAssumption DEF IInv, CallsBelong, Commit
<1>2. /\ \A v \in Worker : v # w => (Holds(v)' <=> Holds(v))
      /\ rec' = rec /\ outbox' = outbox /\ ~Holds(w)
  BY <1>1 DEF Holds, Commit, workerVars, outboxVars, IInv, TypeOK, RaftTypeOK
<1>3. CASE Decided(c.order)
  <2>1. ledger' = ledger /\ ~Holds(w)'
    BY <1>0, <1>1, <1>3 DEF Holds, Commit, Upsert, Outcome, workerVars, IInv, TypeOK, RaftTypeOK, Worker
  <2>2. SameHolders
    BY <1>2, <2>1 DEF SameHolders
  <2>. QED  BY <1>2, <2>1, <2>2, HoldersKept, AccountKept
<1>4. CASE ~Decided(c.order)
  <2>1. Holds(w)' /\ ledger' = [ledger EXCEPT ![c.order] = c]
    BY <1>0, <1>1, <1>4
    DEF Holds, Commit, Upsert, Outcome, workerVars, IInv, TypeOK, RaftTypeOK, Worker
  <2>2. /\ Decided(c.order)' /\ Held(c.order)' /\ c.order \notin lost
    <3>1. ledger'[c.order] = c
      BY <1>1, <2>1 DEF IInv, TypeOK, RaftTypeOK
    <3>2. Decided(c.order)'
      BY <1>1, <3>1 DEF Decided
    <3>3. rec'[w].order = c.order
      BY <1>1, <1>2
    <3>4. Held(c.order)'
      BY <2>1, <3>3 DEF Held
    <3>. QED  BY <1>4, <3>2, <3>4 DEF EventLossHasCause
  <2>3. ASSUME NEW o \in Order, o # c.order
        PROVE  /\ Decided(o)' <=> Decided(o)
               /\ (HasRow(o) \/ Held(o))' <=> HasRow(o) \/ Held(o)
    BY <1>1, <1>2, <2>1, <2>3 DEF Decided, Held, HasRow, IInv, TypeOK, RaftTypeOK
  <2>4. lost' = lost
    OBVIOUS
  <2>. QED  BY <2>2, <2>3, <2>4 DEF EventLossHasCause
<1>. QED  BY <1>3, <1>4

\* An entry is committed that nobody waits for.
LEMMA LateCommitAccount ==
  ASSUME IInv, EventLossHasCause, LateCommit
  PROVE  EventLossHasCause'
<1> PICK c \in orphans : Upsert(c)
  BY DEF LateCommit, CommitOrphan
<1>1. c \in Command /\ c.order \in Order /\ c # None
  BY CommandAssumption, NoneAssumption DEF IInv, TypeOK, RaftTypeOK
<1>2. \A o : (Held(o)' <=> Held(o)) /\ (HasRow(o)' <=> HasRow(o))
  BY DEF LateCommit, CommitOrphan, Held, Holds, HasRow, workerVars, outboxVars
<1>3. CASE Decided(c.order)
  <2>1. ledger' = ledger
    BY <1>3 DEF Upsert
  <2>2. lost' = lost
    BY <2>1 DEF LateCommit
  <2>. QED  BY <1>2, <2>1, <2>2 DEF EventLossHasCause, Decided
<1>4. CASE ~Decided(c.order)
  <2>1. ledger' = [ledger EXCEPT ![c.order] = c] /\ ledger[c.order] = None
    BY <1>4 DEF Upsert, Decided
  <2>2. lost' = lost \union {c.order}
    BY <1>1, <2>1 DEF LateCommit, IInv, TypeOK, RaftTypeOK
  <2>3. ~HasRow(c.order) /\ ~Held(c.order)
    <3>1. ~HasRow(c.order)
      BY <1>4 DEF HasRow, IInv, EventOfWinner
    <3>2. ~Held(c.order)
      BY <1>4, HolderHasCommand DEF Held, IInv, HolderHasWon, Decided
    <3>. QED  BY <3>1, <3>2
  <2>4. \A o \in Order : Decided(o)' <=> o = c.order \/ Decided(o)
    BY <1>1, <2>1 DEF Decided, IInv, TypeOK, RaftTypeOK
  <2>. QED  BY <1>1, <1>2, <2>2, <2>3, <2>4 DEF EventLossHasCause
<1>. QED  BY <1>3, <1>4

\* The holder writes its event: what was held has a row.
LEMMA InsertAccount ==
  ASSUME IInv, EventLossHasCause, NEW w \in Worker, Insert(w)
  PROVE  EventLossHasCause'
<1> DEFINE o1 == rec[w].order
<1>1. PICK t \in Millis :
         outbox' = outbox \union {[order |-> o1, event |-> rec[w].event, at |-> t]}
  BY DEF Insert, InsertRow
<1> DEFINE n == [order |-> o1, event |-> rec[w].event, at |-> t]
<1>2. n.order = o1 /\ outbox' = outbox \union {n} /\ rec' = rec /\ Held(o1)
  BY <1>1 DEF Insert, ReturnNil, Held, Holds
<1>3. \A v \in Worker : v # w => (Holds(v)' <=> Holds(v))
  BY DEF Insert, ReturnNil, Goto, Holds, raftVars, IInv, TypeOK
<1> HIDE DEF n
<1>4. /\ HasRow(o1)'
      /\ \A o : o # o1 => (HasRow(o)' <=> HasRow(o)) /\ (Held(o)' <=> Held(o))
  BY <1>2, <1>3 DEF HasRow, Held
<1>5. \A o : Decided(o)' <=> Decided(o)
  BY DEF Insert, Decided, raftVars
<1>6. SameAccount
  BY <1>2, <1>4, <1>5 DEF SameAccount
<1>. QED  BY <1>6, AccountKept DEF Insert

\* Every step keeps the account.
LEMMA AccountStep ==
  ASSUME IInv, EventLossHasCause, [Next]_vars
  PROVE  EventLossHasCause'
<1>1. ASSUME NEW w \in Worker, ApplyStep(w) PROVE EventLossHasCause'
  <2>1. CASE Commit(w) /\ UNCHANGED lost
    BY <1>1, <2>1, CommitAccount DEF ApplyStep
  <2>2. CASE (Refuse(w) \/ Retry(w)) /\ UNCHANGED lost
    <3>1. SameHolders
      BY <1>1, <2>2
      DEF SameHolders, Holds, ApplyStep, Refuse, Retry, workerVars, IInv, TypeOK, RaftTypeOK, Worker
    <3>. QED
      BY <1>1, <2>2, <3>1, HoldersKept, AccountKept DEF ApplyStep, Refuse, Retry, outboxVars
  <2>3. CASE Lose(w) /\ Forget({w})
    <3>1. ~Holds(w)' /\ \A v \in Worker \ {w} : (Holds(v)' <=> Holds(v)) /\ rec'[v] = rec[v]
      BY <1>1, <2>3 DEF ApplyStep, Lose, Holds, workerVars, IInv, TypeOK, RaftTypeOK, Worker
    <3>. QED  BY <1>1, <2>3, <3>1, ForgetLoses DEF ApplyStep, Lose, outboxVars
  <2>. QED  BY <1>1, <2>1, <2>2, <2>3 DEF ApplyStep
<1>2. ASSUME NEW w \in Worker, Insert(w) PROVE EventLossHasCause'
  BY <1>2, InsertAccount
<1>3. ASSUME NEW w \in Worker, InsertFails(w) PROVE EventLossHasCause'
  <2>1. call[w] = "none" /\ call' = call /\ rec[w] \in Command
    BY <1>3 DEF InsertFails, raftVars, IInv, CallsBelong, TypeOK, RaftTypeOK, CallState
  <2>2. ~Holds(w)' /\ \A v \in Worker \ {w} : (Holds(v)' <=> Holds(v)) /\ rec'[v] = rec[v]
    BY <1>3, <2>1 DEF InsertFails, ReturnError, Release, Goto, Holds, IInv, TypeOK
  <2>. QED  BY <1>3, <2>2, ForgetLoses DEF InsertFails, raftVars, outboxVars
<1>4. ASSUME NEW w \in Worker,
             \/ \E c \in Command : Deliver(w, c)
             \/ Reject(w) \/ ReadFinds(w) \/ ReadMisses(w) \/ CommitOffset(w)
      PROVE  EventLossHasCause'
  <2>1. UNCHANGED <<ledger, call, outbox>> /\ (lost' = lost \/ \E c \in Command : Deliver(w, c))
    BY <1>4 DEF Deliver, Reject, ReadFinds, ReadMisses, CommitOffset, raftVars, outboxVars
  <2>2. /\ ~Holds(w) /\ ~Holds(w)'
        /\ \A v \in Worker \ {w} : pc'[v] = pc[v] /\ rec'[v] = rec[v]
    BY <1>4
    DEF Deliver, Reject, ReadFinds, ReadMisses, CommitOffset, ReturnNil, ReturnError, Release,
        Goto, Holds, raftVars, IInv, CallsBelong, TypeOK
  <2>3. SameHolders
    BY <2>1, <2>2 DEF SameHolders, Holds
  <2>4. lost' = lost
    BY <1>4 DEF Deliver, Reject, ReadFinds, ReadMisses, CommitOffset
  <2>. QED  BY <2>1, <2>3, <2>4, HoldersKept, AccountKept
<1>5. ASSUME NEW w \in Worker,
             CallApply(w) \/ ApplyFailed(w) \/ ApplyDuplicate(w) \/ ApplyNew(w)
      PROVE  EventLossHasCause'
  <2>1. UNCHANGED <<ledger, outbox, lost, rec>>
    BY <1>5
    DEF CallApply, Begin, ApplyFailed, ApplyDuplicate, ApplyNew, Return, ReturnNil, outboxVars
  <2>2. SameHolders
    BY <1>5
    DEF SameHolders, Holds, CallApply, Begin, ApplyFailed, GaveUp, ApplyDuplicate, ApplyNew,
        Return, ReturnNil, Goto, IInv, TypeOK, RaftTypeOK, Worker
  <2>. QED  BY <2>1, <2>2, HoldersKept, AccountKept
<1>6. CASE Crash
  <2>1. \A v \in Worker : ~Holds(v)'
    BY <1>6 DEF Crash, CallersCrash, Holds, Worker
  <2>. QED  BY <1>6, <2>1, ForgetLoses DEF Crash, CallersCrash, PublisherCrash
<1>7. CASE LateCommit
  BY <1>7, LateCommitAccount
<1>8. CASE Publish \/ UNCHANGED vars
  <2>1. UNCHANGED <<outbox, raftVars, workerVars, lost>>
    BY <1>8 DEF Publish, PublisherStep, ListBatch, List, Produce, ProduceFails, Mark,
                MarkFails, NextRow, vars, outboxVars
  <2>2. SameHolders
    BY <2>1 DEF SameHolders, Holds, raftVars, workerVars
  <2>. QED  BY <2>1, <2>2, HoldersKept, AccountKept DEF raftVars
<1>. QED
  BY <1>1, <1>2, <1>3, <1>4, <1>5, <1>6, <1>7, <1>8 DEF Next, HandlerStep

\* A decided order is without its event, and without a worker that holds it, just
\* if the answer or its receiver was lost, the insert failed, or the entry was
\* committed late: whatever fails, nothing else in main.go loses an event, and
\* nothing in it makes up for one that is lost.
THEOREM OnlyTheseEventsAreLost == Spec => []EventLossHasCause
<1>1. Init => EventLossHasCause
  BY DEF Init, RaftInit, EventLossHasCause, Decided
<1>2. IInv /\ EventLossHasCause /\ [Next]_vars => EventLossHasCause'
  BY AccountStep
<1>. QED  BY <1>1, <1>2, Invariance, PTL DEF Spec

-----------------------------------------------------------------------------
\* What the publisher may rely on: whatever is marked, or about to be, is on
\* the topic, and whatever is there has a row.
TopicIsSound ==
    /\ MarkedIsOnTopic
    /\ TopicComesFromOutbox
    /\ sent # None => topic[sent] > 0

\* Every step keeps it.
LEMMA TopicStep ==
  ASSUME IInv, TopicIsSound, [Next]_vars
  PROVE  TopicIsSound'
<1> USE DEF TopicIsSound
<1>1. /\ topic \in [Event -> 0..2] /\ outbox \subseteq Row /\ batch \subseteq outbox
      /\ marked \subseteq Event /\ sent \in Event \union {None}
  BY DEF IInv, TypeOK, OutboxTypeOK, BatchIsFromOutbox
<1>2. ASSUME UNCHANGED <<outbox, marked, topic>>, sent' \in {sent, None}
      PROVE  TopicIsSound'
  BY <1>2 DEF MarkedIsOnTopic, TopicComesFromOutbox, HasEvent, Events
<1>3. ASSUME NEW w \in Worker, Insert(w) PROVE TopicIsSound'
  BY <1>3 DEF Insert, InsertRow, MarkedIsOnTopic, TopicComesFromOutbox, HasEvent, Events
<1>4. ASSUME NEW r \in batch, Produce(r) \/ ProduceFails(r) PROVE TopicIsSound'
  <2>1. r \in outbox /\ r.event \in Event
    BY <1>1 DEF Row
  <2>2. PICK n \in 0..2 : Written(r.event, n) /\ (Produce(r) => n > 0)
    BY <1>4 DEF Produce, ProduceFails
  <2>3. /\ \A e \in Event : e # r.event => topic'[e] = topic[e]
        /\ topic[r.event] \in 0..2 /\ topic'[r.event] \in topic[r.event]..2
        /\ Produce(r) => topic'[r.event] > 0
    BY <1>1, <2>1, <2>2 DEF Written, Saturate, Smaller
  <2>4. UNCHANGED <<outbox, marked>>
    BY <1>4 DEF Produce, ProduceFails
  <2>5. MarkedIsOnTopic'
    BY <1>1, <2>1, <2>3, <2>4 DEF MarkedIsOnTopic
  <2>6. TopicComesFromOutbox'
    BY <1>1, <2>1, <2>3, <2>4 DEF TopicComesFromOutbox, HasEvent, Events
  <2>7. sent' # None => topic'[sent'] > 0
    BY <1>4, <2>3 DEF Produce, ProduceFails
  <2>. QED  BY <2>5, <2>6, <2>7
<1>5. ASSUME Mark PROVE TopicIsSound'
  BY <1>5 DEF Mark, NextRow, MarkedIsOnTopic, TopicComesFromOutbox, HasEvent, Events
<1>6. CASE Publish
  BY <1>2, <1>4, <1>5, <1>6 DEF Publish, PublisherStep, ListBatch, List, MarkFails, NextRow
<1>7. CASE Crash
  BY <1>2, <1>7 DEF Crash, PublisherCrash
<1>8. CASE \E w \in Worker : HandlerStep(w)
  BY <1>2, <1>3, <1>8
  DEF HandlerStep, Reject, CallApply, ApplyStep, ApplyFailed, ReadFinds, ReadMisses,
      ApplyDuplicate, ApplyNew, InsertFails, CommitOffset, outboxVars
<1>9. CASE LateCommit \/ UNCHANGED vars \/ \E w \in Worker, c \in Command : Deliver(w, c)
  BY <1>2, <1>9 DEF LateCommit, Deliver, vars, outboxVars
<1>. QED  BY <1>6, <1>7, <1>8, <1>9 DEF Next

\* It holds in every state.
LEMMA TopicInvariance == Spec => []TopicIsSound
<1>1. Init => TopicIsSound
  BY DEF Init, OutboxInit, TopicIsSound, MarkedIsOnTopic, TopicComesFromOutbox
<1>2. IInv /\ TopicIsSound /\ [Next]_vars => TopicIsSound'
  BY TopicStep
<1>. QED  BY <1>1, <1>2, Invariance, PTL DEF Spec

\* No event is marked as published that never reached the topic, wherever the
\* publisher fails or dies between ProduceJSON and MarkPublished.
THEOREM MarkedReachedTopic == Spec => []MarkedIsOnTopic
<1>1. TopicIsSound => MarkedIsOnTopic
  BY DEF TopicIsSound
<1>. QED  BY <1>1, TopicInvariance, PTL

-----------------------------------------------------------------------------
\* The refinement mapping, as functions.
emittedBar == [o \in Order |-> emittedOf(o)]
publishedBar == [o \in Order |-> publishedOf(o)]

\* An order's only row gives the event it is mapped to.
LEMMA EmittedIsRowsEvent ==
  ASSUME OneEventPerOrder, NEW r \in outbox
  PROVE  HasRow(r.order) /\ emittedOf(r.order) = r.event
<1>1. HasRow(r.order)
  BY DEF HasRow
<1>2. (CHOOSE s \in outbox : s.order = r.order) = r
  BY DEF OneEventPerOrder
<1>. QED  BY <1>1, <1>2 DEF emittedOf

\* Steps that leave the table alone leave the events alone.
LEMMA EmittedKept ==
  ASSUME outbox' = outbox
  PROVE  emittedBar' = emittedBar /\ \A o \in Order : HasRow(o)' = HasRow(o)
BY DEF emittedBar, emittedOf, HasRow

\* ... and if the topic too is left alone, what is published.
LEMMA PublishedKept ==
  ASSUME outbox' = outbox, topic' = topic
  PROVE  publishedBar' = publishedBar
BY DEF publishedBar, publishedOf, emittedOf, HasRow

\* A command that the cluster commits decides its order, or changes nothing.
LEMMA UpsertDecides ==
  ASSUME IInv, NEW c \in Command, Upsert(c), outbox' = outbox, topic' = topic
  PROVE  [Promise!Next]_(Promise!ledgerVars)
<1>1. emittedBar' = emittedBar /\ publishedBar' = publishedBar
  BY EmittedKept, PublishedKept
<1>2. CASE Decided(c.order)
  BY <1>1, <1>2 DEF Upsert, Promise!ledgerVars, emittedBar, publishedBar
<1>3. CASE ~Decided(c.order)
  <2>1. ledger[c.order] = None /\ ledger' = [ledger EXCEPT ![c.order] = c]
    BY <1>3 DEF Upsert, Decided
  <2>2. Promise!Decide(c)
    BY <1>1, <2>1 DEF Promise!Decide, emittedBar, publishedBar
  <2>. QED  BY <2>2 DEF Promise!Next
<1>. QED  BY <1>2, <1>3

\* Copies of an event on the topic are copies published for its order.
LEMMA WrittenDelivers ==
  ASSUME IInv, NEW r \in batch, NEW n \in 0..2, Written(r.event, n),
         outbox' = outbox, ledger' = ledger
  PROVE  Promise!Deliver(r.order)
<1> DEFINE o == r.order
           m == topic'[r.event]
<1>1. r \in outbox /\ r \in Row /\ o \in Order /\ r.event \in Event
  BY DEF IInv, TypeOK, OutboxTypeOK, BatchIsFromOutbox, Row
<1>2. HasRow(o) /\ emittedOf(o) = r.event
  BY <1>1, EmittedIsRowsEvent DEF IInv
<1>3. topic \in [Event -> 0..2] /\ m \in topic[r.event]..2
  BY <1>1 DEF IInv, TypeOK, OutboxTypeOK, Written, Saturate, Smaller
<1>4. emittedBar' = emittedBar /\ \A p \in Order : HasRow(p)' = HasRow(p)
  BY EmittedKept
<1>5. \A p \in Order : p # o /\ HasRow(p) => emittedOf(p) # r.event
  <2> SUFFICES ASSUME NEW p \in Order, HasRow(p), emittedOf(p) = r.event PROVE p = o
    OBVIOUS
  <2>1. PICK s \in outbox : s.order = p
    BY DEF HasRow
  <2>2. s.event = r.event
    BY <2>1, EmittedIsRowsEvent DEF IInv
  <2>. QED  BY <1>1, <2>1, <2>2 DEF IInv, RowHasOwnEvent
<1>6. publishedBar' = [publishedBar EXCEPT ![o] = m]
  <2>1. \A p \in Order : emittedOf(p)' = emittedOf(p)
    BY DEF emittedOf, HasRow
  <2>2. publishedOf(o)' = m
    BY <1>1, <1>2, <1>4, <2>1 DEF publishedOf
  <2>3. \A p \in Order : p # o => publishedOf(p)' = publishedOf(p)
    <3> SUFFICES ASSUME NEW p \in Order, p # o PROVE publishedOf(p)' = publishedOf(p)
      OBVIOUS
    <3>1. CASE HasRow(p)
      <4>1. PICK s \in outbox : s.order = p
        BY <3>1 DEF HasRow
      <4>2. emittedOf(p) = s.event /\ s.event \in Event /\ s.event # r.event
        BY <1>5, <3>1, <4>1, EmittedIsRowsEvent DEF IInv, TypeOK, OutboxTypeOK, Row
      <4>3. topic'[s.event] = topic[s.event]
        BY <1>3, <4>2 DEF Written
      <4>. QED  BY <1>4, <2>1, <3>1, <4>2, <4>3 DEF publishedOf
    <3>2. CASE ~HasRow(p)
      BY <1>4, <3>2 DEF publishedOf
    <3>. QED  BY <3>1, <3>2
  <2>. QED  BY <1>1, <2>2, <2>3 DEF publishedBar
<1>7. publishedBar[o] = topic[r.event] /\ emittedBar[o] = r.event
  BY <1>1, <1>2 DEF publishedBar, publishedOf, emittedBar
<1>8. emittedBar[o] # None
  BY <1>1, <1>7, NoneAssumption
<1>. QED
  BY <1>3, <1>4, <1>6, <1>7, <1>8
  DEF Promise!Deliver, emittedBar, publishedBar

\* Writing the row emits the order's event.
LEMMA InsertEmits ==
  ASSUME IInv, TopicIsSound, NEW w \in Worker, Insert(w)
  PROVE  Promise!Emit(rec[w].order)
<1> DEFINE c == rec[w]
           o == c.order
<1>1. PICK t \in Millis :
         outbox' = outbox \union {[order |-> o, event |-> c.event, at |-> t]}
  BY DEF Insert, InsertRow
<1> DEFINE n == [order |-> o, event |-> c.event, at |-> t]
<1>2. topic' = topic /\ ledger' = ledger /\ rec' = rec
  BY DEF Insert, InsertRow, ReturnNil, raftVars
<1>3. /\ Holds(w) /\ c \in Command /\ o \in Order /\ c.event \in Event /\ c # None
      /\ n.order = o /\ n.event = c.event
  BY CommandAssumption, NoneAssumption DEF Insert, Holds, IInv, CallsBelong
<1>4. ledger[o] = c /\ ~HasRow(o)
  BY <1>3 DEF IInv, HolderHasWon
<1>5. topic[c.event] = 0
  <2>1. ~HasEvent(c.event) /\ topic[c.event] \in 0..2
    BY <1>3 DEF Insert, InsertRow, IInv, TypeOK, OutboxTypeOK
  <2>. QED  BY <1>3, <2>1 DEF TopicIsSound, TopicComesFromOutbox
<1>6. HasRow(o)' /\ emittedOf(o)' = c.event
  <2>1. \A r \in outbox' : r.order = o <=> r = n
    BY <1>1, <1>3, <1>4 DEF HasRow
  <2>2. n \in outbox'
    BY <1>1
  <2>3. (CHOOSE r \in outbox' : r.order = o) = n
    BY <2>1, <2>2
  <2>. QED  BY <1>2, <1>3, <2>1, <2>2, <2>3 DEF HasRow, emittedOf
<1>7. \A p \in Order : p # o => HasRow(p)' = HasRow(p) /\ emittedOf(p)' = emittedOf(p)
  <2> SUFFICES ASSUME NEW p \in Order, p # o
               PROVE  HasRow(p)' = HasRow(p) /\ emittedOf(p)' = emittedOf(p)
    OBVIOUS
  <2>1. \A r : r \in outbox' /\ r.order = p <=> r \in outbox /\ r.order = p
    BY <1>1, <1>3
  <2>2. (CHOOSE r \in outbox' : r.order = p) = (CHOOSE r \in outbox : r.order = p)
    BY <2>1
  <2>. QED  BY <2>1, <2>2 DEF HasRow, emittedOf
<1>8. emittedBar' = [emittedBar EXCEPT ![o] = c.event] /\ emittedBar[o] = None
  BY <1>2, <1>3, <1>4, <1>6, <1>7 DEF emittedBar, emittedOf
<1>9. publishedBar' = publishedBar
  BY <1>2, <1>3, <1>4, <1>5, <1>6, <1>7 DEF publishedBar, publishedOf
<1>. QED
  BY <1>2, <1>3, <1>4, <1>8, <1>9 DEF Promise!Emit, emittedBar, publishedBar

\* Every step of the executor is a step of the promise, or changes nothing of it.
LEMMA PromiseStep ==
  ASSUME IInv, TopicIsSound, [Next]_vars
  PROVE  [Promise!Next]_(Promise!ledgerVars)
<1>1. ASSUME UNCHANGED <<ledger, outbox, topic>>
      PROVE  UNCHANGED Promise!ledgerVars
  BY <1>1, EmittedKept, PublishedKept DEF Promise!ledgerVars, emittedBar, publishedBar
<1>2. ASSUME NEW w \in Worker, ApplyStep(w)
      PROVE  [Promise!Next]_(Promise!ledgerVars)
  <2>1. CASE Commit(w)
    <3>1. cmd[w] \in Command /\ Upsert(cmd[w])
      BY <1>2, <2>1 DEF ApplyStep, Commit, IInv, CallsBelong
    <3>. QED  BY <1>2, <3>1, UpsertDecides DEF ApplyStep, outboxVars
  <2>2. CASE Refuse(w) \/ Lose(w) \/ Retry(w)
    BY <1>1, <1>2, <2>2 DEF ApplyStep, Refuse, Lose, Retry, outboxVars
  <2>. QED  BY <1>2, <2>1, <2>2 DEF ApplyStep
<1>3. ASSUME NEW w \in Worker, Insert(w)
      PROVE  [Promise!Next]_(Promise!ledgerVars)
  <2>1. rec[w].order \in Order
    BY <1>3, CommandAssumption DEF Insert, IInv, CallsBelong
  <2>. QED  BY <1>3, <2>1, InsertEmits DEF Promise!Next
<1>4. CASE \E w \in Worker : HandlerStep(w) /\ ~ApplyStep(w) /\ ~Insert(w)
  BY <1>1, <1>4
  DEF HandlerStep, Reject, CallApply, Begin, ApplyFailed, ReadFinds, ReadMisses,
      ApplyDuplicate, ApplyNew, Return, InsertFails, CommitOffset, raftVars, outboxVars
<1>5. CASE LateCommit
  <2>1. PICK c \in orphans : Upsert(c)
    BY <1>5 DEF LateCommit, CommitOrphan
  <2>2. c \in Command
    BY DEF IInv, TypeOK, RaftTypeOK
  <2>. QED  BY <1>5, <2>1, <2>2, UpsertDecides DEF LateCommit, outboxVars
<1>6. CASE Publish
  <2>1. ASSUME NEW r \in batch, Produce(r) \/ ProduceFails(r)
        PROVE  [Promise!Next]_(Promise!ledgerVars)
    <3>1. PICK n \in 0..2 : Written(r.event, n)
      BY <2>1 DEF Produce, ProduceFails
    <3>2. outbox' = outbox /\ ledger' = ledger
      BY <1>6, <2>1 DEF Produce, ProduceFails, Publish, raftVars
    <3>3. r.order \in Order
      BY DEF IInv, TypeOK, OutboxTypeOK, Row
    <3>. QED  BY <3>1, <3>2, <3>3, WrittenDelivers DEF Promise!Next
  <2>2. CASE ListBatch \/ Mark \/ MarkFails
    BY <1>1, <1>6, <2>2 DEF Publish, ListBatch, List, Mark, MarkFails, NextRow, raftVars
  <2>. QED  BY <1>6, <2>1, <2>2 DEF Publish, PublisherStep
<1>7. CASE Crash \/ UNCHANGED vars \/ \E w \in Worker, c \in Command : Deliver(w, c)
  BY <1>1, <1>7
  DEF Crash, CallersCrash, PublisherCrash, Deliver, vars, raftVars, outboxVars
<1>. QED  BY <1>2, <1>3, <1>4, <1>5, <1>6, <1>7 DEF Next, HandlerStep

\* The executor, its publisher and the ledger together implement the promise:
\* each order decided once, at most one event for it and that of the deciding
\* command, published only after it is in the outbox.
THEOREM Refinement == Spec => ImplementsPromise
<1>1. Init => Promise!Init
  BY DEF Init, RaftInit, OutboxInit, Promise!Init, emittedOf, publishedOf, HasRow
<1>2. IInv /\ TopicIsSound /\ [Next]_vars => [Promise!Next]_(Promise!ledgerVars)
  BY PromiseStep
<1>. QED
  BY <1>1, <1>2, Invariance, TopicInvariance, PTL
  DEF Spec, ImplementsPromise, Promise!Spec
=============================================================================
