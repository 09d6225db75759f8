--------------------------- MODULE VerifierProofs ---------------------------
(***************************************************************************)
(* Proofs about the verdicts of the verification tool, for every number of *)
(* orders, records, racing handlers and runs.  What they need to know of   *)
(* the consumer is proved with the stream processor, which shares it.      *)
(***************************************************************************)
EXTENDS Verifier, StreamProcessorProofs, FiniteSetTheorems

\* The offsets of the records on the topic.
LEMMA RecordsAreOffsets ==
  ASSUME ConsumerInv
  PROVE  /\ end \in Nat /\ 0..end - 1 \subseteq Offset /\ Offset \subseteq Nat
         /\ IsFiniteSet(0..end - 1)
         /\ handled \subseteq 0..end - 1
<1>1. end \in Nat /\ 0..end - 1 \subseteq Offset /\ Offset \subseteq Nat
  BY BoundAssumption DEF ConsumerInv, TypeOK, Offset
<1>2. 0 \in Int /\ end - 1 \in Int
  BY <1>1
<1>3. handled \subseteq 0..end - 1
  BY <1>1 DEF ConsumerInv, TypeOK, WithinLog
<1>. QED  BY <1>1, <1>2, <1>3, FS_Interval

\* What counting one record more does to the number of events of an order.
LEMMA OneEventMore ==
  ASSUME ConsumerInv, VerifyTypeOK, NEW i \in 0..end - 1, NEW o \in Order
  PROVE  /\ Cardinality(EventsOf(o, consumed)) \in Nat
         /\ Cardinality(EventsOf(o, consumed \union {i})) \in Nat
         /\ Cardinality(EventsOf(o, consumed)) <= Cardinality(EventsOf(o, consumed \union {i}))
         /\ Cardinality(EventsOf(o, consumed \union {i})) <= Cardinality(EventsOf(o, consumed)) + 1
         /\ orderOf[i] # o =>
               Cardinality(EventsOf(o, consumed \union {i})) = Cardinality(EventsOf(o, consumed))
         /\ orderOf[i] = o /\ i \notin consumed =>
               Cardinality(EventsOf(o, consumed \union {i})) = Cardinality(EventsOf(o, consumed)) + 1
<1> DEFINE E == EventsOf(o, consumed)
           F == EventsOf(o, consumed \union {i})
<1>1. IsFiniteSet(E)
  <2>1. IsFiniteSet(0..end - 1) /\ E \subseteq 0..end - 1
    BY RecordsAreOffsets DEF VerifyTypeOK, EventsOf
  <2>. QED  BY <2>1, FS_Subset
<1>2. Cardinality(E) \in Nat
  BY <1>1, FS_CardinalityType
<1>3. CASE orderOf[i] = o
  <2>1. F = E \union {i} /\ (i \in E <=> i \in consumed)
    BY <1>3 DEF EventsOf
  <2>2. Cardinality(E \union {i}) = IF i \in E THEN Cardinality(E) ELSE Cardinality(E) + 1
    BY <1>1, FS_AddElement
  <2>3. Cardinality(F) = IF i \in consumed THEN Cardinality(E) ELSE Cardinality(E) + 1
    BY <2>1, <2>2
  <2> HIDE DEF E, F
  <2>4. /\ Cardinality(F) \in Nat /\ Cardinality(E) <= Cardinality(F)
        /\ Cardinality(F) <= Cardinality(E) + 1
    BY <1>2, <2>3
  <2>. QED  BY <1>2, <1>3, <2>3, <2>4 DEF E, F
<1>4. CASE orderOf[i] # o
  <2>1. F = E
    BY <1>4 DEF EventsOf
  <2>. QED  BY <1>2, <1>4, <2>1
<1>. QED  BY <1>3, <1>4

\* The number of events of an order that have been consumed.
LEMMA EventsAreCounted ==
  ASSUME ConsumerInv, VerifyTypeOK, NEW o \in Order
  PROVE  /\ IsFiniteSet(EventsOf(o, consumed))
         /\ Cardinality(EventsOf(o, consumed)) \in Nat
         /\ Cardinality(EventsOf(o, consumed)) <= Cardinality(EventsOf(o, 0..end - 1))
         /\ Cardinality(EventsOf(o, 0..end - 1)) \in Nat
<1>1. /\ IsFiniteSet(0..end - 1) /\ EventsOf(o, 0..end - 1) \subseteq 0..end - 1
      /\ EventsOf(o, consumed) \subseteq EventsOf(o, 0..end - 1)
  BY RecordsAreOffsets DEF VerifyTypeOK, EventsOf
<1>2. IsFiniteSet(EventsOf(o, 0..end - 1))
  BY <1>1, FS_Subset
<1>. QED  BY <1>1, <1>2, FS_Subset, FS_CardinalityType

LEMMA RecordHasOrder ==
  ASSUME ConsumerInv, NEW s \in Slot, Handling(s)
  PROVE  job[s] \in 0..end - 1 /\ job[s] \in Nat /\ orderOf[job[s]] \in Order
<1>1. job[s] \in 0..end - 1 /\ job[s] \in Offset /\ job[s] \in Nat
  BY RecordsAreOffsets DEF ConsumerInv, TypeOK, WithinLog, Handling
<1>. QED  BY <1>1, OrderAssumption

\* The tool begins to count.
Fresh ==
    /\ ConsumerInv /\ failed = {}
    /\ orderCounts = [o \in Order |-> 0] /\ consumed = {} /\ overwritten = {}
    /\ verdict = "running"
    /\ seen = [s \in Slot |-> Free] /\ job = [s \in Slot |-> Free]
    /\ restarts = 0 => position = last /\ handled = {} /\ cut = {}

LEMMA FreshCounts == Fresh => VerifierInv
<1> SUFFICES ASSUME Fresh PROVE VerifierInv
  OBVIOUS
<1> USE DEF Fresh
<1>1. \A o \in Order : Cardinality(EventsOf(o, consumed)) = 0
  <2>1. \A o \in Order : EventsOf(o, consumed) = {}
    BY DEF EventsOf
  <2>. QED  BY <2>1, FS_EmptySet
<1>2. VerifyTypeOK
  BY DEF VerifyTypeOK, Verdict
<1>3. SeenInHandler /\ HandledIsConsumed /\ EachRecordOnce /\ VerdictIsOfCounts
  BY DEF SeenInHandler, HandledIsConsumed, EachRecordOnce, VerdictIsOfCounts
<1>4. CountsAtMost /\ CountsAtLeast
  BY <1>1 DEF CountsAtMost, CountsAtLeast
<1>. QED  BY <1>2, <1>3, <1>4 DEF VerifierInv

LEMMA InitVerifier == VerifyInit => VerifierInv
<1> SUFFICES ASSUME VerifyInit PROVE VerifierInv
  OBVIOUS
<1>1. ConsumerInv
  BY InitConsumer DEF VerifyInit
<1>. QED  BY <1>1, FreshCounts DEF VerifyInit, Init, Fresh

-----------------------------------------------------------------------------
\* The consumer's steps.  No count changes, and no handler that has read one
\* loses its record.
LEMMA ClientStepInv ==
  ASSUME VerifierInv, ClientStep
  PROVE  VerifierInv'
<1> USE DEF toolVars, clientVars, slotVars, historyVars
<1>0. UNCHANGED <<orderCounts, seen, consumed, verdict, overwritten>> /\ verdict = "running"
  BY DEF ClientStep, Running
<1>1. ConsumerInv'
  BY NextConsumer DEF VerifierInv, ClientStep, Next
<1>2. ASSUME EachRecordOnce', UNCHANGED <<handled, failed, cut>>,
             restarts' = 0 => restarts = 0,
             \A s \in Slot : Handling(s) => Handling(s)' /\ job'[s] = job[s]
      PROVE  VerifierInv'
  <2>1. \A s \in Slot : seen[s] # Free => Handling(s)' /\ job'[s] = job[s]
    BY <1>2 DEF VerifierInv, SeenInHandler
  <2>2. /\ VerifyTypeOK' /\ SeenInHandler' /\ HandledIsConsumed' /\ VerdictIsOfCounts'
    BY <1>0, <1>2, <2>1
    DEF VerifierInv, VerifyTypeOK, SeenInHandler, HandledIsConsumed, VerdictIsOfCounts
  <2>3. CountsAtMost' /\ CountsAtLeast'
    BY <1>0, <1>2, <2>1 DEF VerifierInv, CountsAtMost, CountsAtLeast, EventsOf
  <2>. QED  BY <1>1, <1>2, <2>2, <2>3 DEF VerifierInv
<1>3. CASE Append
  <2>1. EachRecordOnce'
    BY <1>0, <1>3 DEF Append, VerifierInv, EachRecordOnce
  <2>. QED  BY <1>2, <1>3, <2>1 DEF Append, Handling
<1>4. CASE Poll
  <2>1. EachRecordOnce'
    BY <1>0, <1>4, BoundAssumption DEF Poll, VerifierInv, ConsumerInv, TypeOK, EachRecordOnce
  <2>. QED  BY <1>2, <1>4, <2>1 DEF Poll, Handling
<1>5. CASE Skip
  <2>1. cursor \in Nat /\ \A s \in Slot : job[s] # Free => job[s] \in Nat
    BY BoundAssumption DEF VerifierInv, ConsumerInv, TypeOK, Offset
  <2>2. consumed \subseteq Nat
    BY RecordsAreOffsets DEF VerifierInv, VerifyTypeOK
  <2>3. EachRecordOnce'
    BY <1>0, <1>5, <2>1, <2>2 DEF Skip, VerifierInv, EachRecordOnce
  <2>. QED  BY <1>2, <1>5, <2>3 DEF Skip, Handling
<1>6. ASSUME NEW s \in Slot, Dispatch(s)
      PROVE  VerifierInv'
  <2>1. /\ job[s] = Free /\ cursor < last /\ cursor' = cursor + 1 /\ cursor \in Nat
        /\ job'[s] = cursor /\ \A t \in Slot \ {s} : job'[t] = job[t]
        /\ UNCHANGED <<end, position, last, done, committed, restarts, historyVars>>
    BY <1>6, BoundAssumption DEF Dispatch, VerifierInv, ConsumerInv, TypeOK
  <2>2. EachRecordOnce'
    <3> SUFFICES ASSUME restarts = 0
                 PROVE  /\ position' = last'
                        /\ \A i \in consumed' : i < cursor'
                        /\ \A t \in Slot : job'[t] # Free =>
                              /\ job'[t] < cursor'
                              /\ ~done'[t] => job'[t] \notin consumed'
                              /\ \A u \in Slot : job'[u] = job'[t] => u = t
      BY <2>1 DEF EachRecordOnce
    <3>0. consumed \subseteq Nat /\ \A t \in Slot : job[t] # Free => job[t] \in Nat
      BY RecordsAreOffsets, BoundAssumption DEF VerifierInv, VerifyTypeOK, ConsumerInv, TypeOK
    <3>1. /\ position = last /\ \A i \in consumed : i < cursor /\ i \in Nat
          /\ \A t \in Slot : job[t] # Free =>
                /\ job[t] < cursor /\ job[t] \in Nat
                /\ ~done[t] => job[t] \notin consumed
                /\ \A u \in Slot : job[u] = job[t] => u = t
      BY <3>0 DEF VerifierInv, EachRecordOnce
    <3>2. cursor \notin consumed /\ \A t \in Slot : job[t] # cursor
      BY <2>1, <3>1, FreeAssumption
    <3>. QED  BY <1>0, <2>1, <3>1, <3>2
  <2>. QED  BY <1>2, <2>1, <2>2, FreeAssumption DEF Handling
<1>7. CASE Reassign
  <2>1. restarts' # 0
    BY <1>7, BoundAssumption DEF Reassign, VerifierInv, ConsumerInv, TypeOK
  <2>. QED  BY <1>2, <1>7, <2>1 DEF Reassign, Handling, EachRecordOnce
<1>8. ASSUME NEW s \in Slot, Commit(s)
      PROVE  VerifierInv'
  <2>1. /\ done[s] /\ job'[s] = Free
        /\ \A t \in Slot \ {s} : job'[t] = job[t] /\ done'[t] = done[t]
        /\ UNCHANGED <<end, clientVars, restarts, historyVars>>
    BY <1>8 DEF Commit, Release, VerifierInv, ConsumerInv, TypeOK
  <2>2. EachRecordOnce'
    BY <1>0, <2>1 DEF VerifierInv, EachRecordOnce
  <2>. QED  BY <1>2, <2>1, <2>2 DEF Handling
<1>. QED  BY <1>3, <1>4, <1>5, <1>6, <1>7, <1>8 DEF ClientStep, Iterate

\* A handler reads the count of its record's order.
LEMMA ReadInv ==
  ASSUME VerifierInv, NEW s \in Slot, ReadCount(s)
  PROVE  VerifierInv'
<1>1. /\ Handling(s) /\ seen' = [seen EXCEPT ![s] = orderCounts[orderOf[job[s]]]]
      /\ UNCHANGED <<vars, orderCounts, consumed, verdict, overwritten>>
  BY DEF ReadCount
<1>0. ConsumerInv'
  BY <1>1, NextConsumer DEF VerifierInv
<1> USE DEF vars, clientVars, slotVars, historyVars
<1>2. orderOf[job[s]] \in Order /\ orderCounts[orderOf[job[s]]] \in Nat
  BY <1>1, RecordHasOrder DEF VerifierInv, VerifyTypeOK
<1>3. seen'[s] = orderCounts[orderOf[job[s]]] /\ \A t \in Slot \ {s} : seen'[t] = seen[t]
  BY <1>1 DEF VerifierInv, VerifyTypeOK
<1>4. VerifyTypeOK' /\ EachRecordOnce' /\ VerdictIsOfCounts' /\ HandledIsConsumed'
  BY <1>1, <1>2
  DEF VerifierInv, VerifyTypeOK, EachRecordOnce, VerdictIsOfCounts, HandledIsConsumed
<1>5. SeenInHandler'
  BY <1>1, <1>3 DEF VerifierInv, SeenInHandler, Handling
<1>6. CountsAtMost' /\ CountsAtLeast'
  BY <1>1, <1>2, <1>3 DEF VerifierInv, CountsAtMost, CountsAtLeast, EventsOf
<1>. QED  BY <1>0, <1>4, <1>5, <1>6 DEF VerifierInv

\* It writes the count back, one up.
LEMMA WriteInv ==
  ASSUME VerifierInv, NEW s \in Slot, WriteCount(s)
  PROVE  VerifierInv'
<1> DEFINE i == job[s]
           order == orderOf[job[s]]
           Events(o) == Cardinality(EventsOf(o, consumed))
<1>1. /\ verdict = "running" /\ seen[s] # Free /\ Handling(s)
      /\ orderCounts' = [orderCounts EXCEPT ![order] = seen[s] + 1]
      /\ seen' = [seen EXCEPT ![s] = Free]
      /\ consumed' = consumed \union {i}
      /\ overwritten' =
            overwritten \union (IF seen[s] = orderCounts[order] THEN {} ELSE {order})
      /\ Succeed(s)
      /\ done' = [done EXCEPT ![s] = TRUE] /\ handled' = handled \union {i}
      /\ UNCHANGED <<end, clientVars, job, committed, restarts, failed, cut, verdict>>
  BY DEF WriteCount, Counted, Succeed, Running
<1>0. ConsumerInv'
  BY <1>1, NextConsumer DEF VerifierInv, Next, Handler
<1> USE DEF clientVars
<1>2. i \in 0..end - 1 /\ order \in Order /\ seen[s] \in Nat /\ ~done[s] /\ i # Free
  BY <1>1, RecordHasOrder DEF VerifierInv, VerifyTypeOK, Handling
<1>3. /\ orderCounts'[order] = seen[s] + 1
      /\ \A o \in Order \ {order} : orderCounts'[o] = orderCounts[o]
      /\ seen'[s] = Free /\ done'[s] = TRUE
      /\ \A t \in Slot \ {s} : seen'[t] = seen[t] /\ done'[t] = done[t]
  BY <1>1, <1>2 DEF VerifierInv, VerifyTypeOK, ConsumerInv, TypeOK
<1>4. \A o \in Order :
        /\ Events(o) \in Nat /\ Events(o)' \in Nat
        /\ Events(o) <= Events(o)' /\ Events(o)' <= Events(o) + 1
        /\ order # o => Events(o)' = Events(o)
        /\ order = o /\ i \notin consumed => Events(o)' = Events(o) + 1
  <2>1. \A o \in Order : Events(o)' = Cardinality(EventsOf(o, consumed \union {i}))
    BY <1>1 DEF EventsOf
  <2>. QED  BY <1>2, <2>1, OneEventMore DEF VerifierInv
<1>5. VerifyTypeOK'
  <2>1. orderCounts' \in [Order -> Nat] /\ seen' \in [Slot -> Nat \union {Free}]
    BY <1>1, <1>2 DEF VerifierInv, VerifyTypeOK
  <2>2. overwritten' \subseteq Order /\ consumed' \subseteq handled'
    BY <1>1, <1>2 DEF VerifierInv, VerifyTypeOK
  <2>. QED  BY <1>1, <2>1, <2>2 DEF VerifierInv, VerifyTypeOK
<1>6. SeenInHandler' /\ VerdictIsOfCounts' /\ HandledIsConsumed'
  BY <1>1, <1>2, <1>3
  DEF VerifierInv, SeenInHandler, Handling, VerdictIsOfCounts, HandledIsConsumed
<1>7. EachRecordOnce'
  BY <1>1, <1>2, <1>3 DEF VerifierInv, EachRecordOnce
<1> HIDE DEF Events
<1>8. CountsAtMost'
  <2> SUFFICES ASSUME restarts = 0
               PROVE  /\ \A o \in Order : orderCounts'[o] <= Events(o)'
                      /\ \A t \in Slot : seen'[t] # Free => seen'[t] <= Events(orderOf[job[t]])'
    BY <1>1 DEF CountsAtMost, Events
  <2>1. i \notin consumed
    BY <1>2 DEF VerifierInv, EachRecordOnce
  <2>2. /\ seen[s] <= Events(order)
        /\ \A o \in Order : orderCounts[o] <= Events(o) /\ orderCounts[o] \in Nat
    BY <1>1 DEF VerifierInv, VerifyTypeOK, CountsAtMost, Events
  <2>3. \A o \in Order : orderCounts'[o] <= Events(o)'
    BY <1>2, <1>3, <1>4, <2>1, <2>2
  <2>4. ASSUME NEW t \in Slot, seen'[t] # Free PROVE seen'[t] <= Events(orderOf[job[t]])'
    <3>1. t # s /\ seen'[t] = seen[t] /\ seen[t] \in Nat /\ Handling(t)
      BY <1>3, <2>4 DEF VerifierInv, VerifyTypeOK, SeenInHandler
    <3>2. orderOf[job[t]] \in Order /\ seen[t] <= Events(orderOf[job[t]])
      BY <3>1, <2>4, RecordHasOrder DEF VerifierInv, CountsAtMost, Events
    <3>3. Events(orderOf[job[t]]) <= Events(orderOf[job[t]])'
      BY <1>1, <1>4, <3>2 DEF Events
    <3>. QED  BY <1>1, <1>4, <3>1, <3>2, <3>3
  <2>. QED  BY <2>3, <2>4
<1>9. CountsAtLeast'
  <2> SUFFICES ASSUME NEW o \in Order \ overwritten' PROVE Events(o)' <= orderCounts'[o]
    BY DEF CountsAtLeast, Events
  <2>1. Events(o) <= orderCounts[o] /\ orderCounts[o] \in Nat
    BY <1>1 DEF VerifierInv, VerifyTypeOK, CountsAtLeast, Events
  <2>2. o = order => seen[s] = orderCounts[o]
    BY <1>1
  <2>. QED  BY <1>2, <1>3, <1>4, <2>1, <2>2
<1>. QED  BY <1>0, <1>5, <1>6, <1>7, <1>8, <1>9 DEF VerifierInv

LEMMA NextVerifier ==
  ASSUME VerifierInv, [VerifyNext]_verifyVars
  PROVE  VerifierInv'
<1>1. ASSUME UNCHANGED <<vars, orderCounts, seen, consumed, overwritten>>,
             \/ verdict' \in {verdict, "died"}
             \/ verdict' = IF \E o \in Order : orderCounts[o] > 1 THEN "FAILED" ELSE "PASSED"
      PROVE  VerifierInv'
  <2>0. ConsumerInv'
    BY <1>1, NextConsumer DEF VerifierInv
  <2> USE DEF vars, clientVars, slotVars, historyVars
  <2>1. VerifyTypeOK' /\ SeenInHandler' /\ EachRecordOnce' /\ HandledIsConsumed'
    BY <1>1
    DEF VerifierInv, VerifyTypeOK, Verdict, SeenInHandler, Handling, EachRecordOnce,
        HandledIsConsumed
  <2>2. CountsAtMost' /\ CountsAtLeast'
    BY <1>1 DEF VerifierInv, CountsAtMost, CountsAtLeast, EventsOf
  <2>3. VerdictIsOfCounts'
    BY <1>1 DEF VerifierInv, VerifyTypeOK, VerdictIsOfCounts
  <2>. QED  BY <2>0, <2>1, <2>2, <2>3 DEF VerifierInv
<1>2. CASE RunAgain
  <2>1. ConsumerInv'
    BY <1>2, NextConsumer DEF RunAgain, VerifierInv, Next
  <2>2. restarts' # 0 /\ failed' = {}
    BY <1>2, BoundAssumption
    DEF RunAgain, Restart, VerifierInv, ConsumerInv, TypeOK, HandledIsConsumed
  <2>3. Fresh'
    BY <1>2, <2>1, <2>2 DEF RunAgain, Restart, Fresh
  <2>. QED  BY <2>3, FreshCounts, PTL
<1>3. CASE Die \/ Judge \/ UNCHANGED verifyVars
  BY <1>1, <1>3 DEF Die, Judge, verifyVars, toolVars
<1>. QED  BY <1>2, <1>3, ClientStepInv, ReadInv, WriteInv DEF VerifyNext

-----------------------------------------------------------------------------
\* The invariant: what the counts say of the events consumed.
THEOREM VerifierInvariance == VerifySpec => []VerifierInv
BY InitVerifier, NextVerifier, PTL DEF VerifySpec

\* FAILED (exit code 1) means that the topic has two events of one order, for
\* any number of handlers that race for the counts, unless partitions have
\* moved or the tool has run before.
THEOREM FailedIsRight == VerifySpec => []FailedHasDuplicate
<1>1. ASSUME VerifierInv, verdict = "FAILED", ~(restarts > 0)
      PROVE  \E o \in Order : Cardinality(EventsOf(o, 0..end - 1)) > 1
  <2>1. PICK o \in Order : orderCounts[o] > 1
    BY <1>1 DEF VerifierInv, VerdictIsOfCounts
  <2>0. restarts = 0
    BY <1>1, BoundAssumption DEF VerifierInv, ConsumerInv, TypeOK
  <2>2. orderCounts[o] <= Cardinality(EventsOf(o, consumed)) /\ orderCounts[o] \in Nat
    BY <1>1, <2>0 DEF VerifierInv, VerifyTypeOK, CountsAtMost
  <2>. QED  BY <1>1, <2>1, <2>2, EventsAreCounted DEF VerifierInv
<1>2. VerifierInv => FailedHasDuplicate
  BY <1>1 DEF FailedHasDuplicate
<1>. QED  BY <1>2, VerifierInvariance, PTL

\* PASSED (exit code 0) although the topic holds two events of an order means that
\* the run has missed one of them, or that handlers that met in the map without a
\* lock have lost a count of that order: for any number of handlers and any order
\* in which they read, write and commit.
THEOREM PassedIsRight == VerifySpec => []PassedHasCause
<1>1. ASSUME VerifierInv, verdict = "PASSED", NEW o \in Order, o \notin overwritten,
             \A i \in EventsOf(o, 0..end - 1) : ~Missed(i)
      PROVE  Cardinality(EventsOf(o, 0..end - 1)) <= 1
  <2>1. \A i \in 0..end - 1 : i < cursor => i \in handled \union InFlight \union skipped \union cut
    BY <1>1, RecordsAreOffsets
    DEF VerifierInv, ConsumerInv, CursorIsAccounted, Accounted, HandledIsConsumed
  <2>2. cursor \in Nat /\ restarts \in Nat /\ 0..end - 1 \subseteq Nat
    BY <1>1, RecordsAreOffsets, BoundAssumption DEF VerifierInv, ConsumerInv, TypeOK
  <2>3. \A i \in EventsOf(o, 0..end - 1) : i \in consumed
    <3> SUFFICES ASSUME NEW i \in EventsOf(o, 0..end - 1), i \notin consumed PROVE FALSE
      OBVIOUS
    <3>1. i \in 0..end - 1 /\ ~(i >= cursor) /\ i \notin skipped /\ i \notin InFlight
          /\ ~(restarts > 0 /\ i \in handled \union cut)
      BY <1>1 DEF Missed, EventsOf
    <3>2. i \in handled \union cut
      BY <2>1, <2>2, <3>1
    <3>3. restarts = 0
      BY <2>2, <3>1, <3>2
    <3>. QED  BY <1>1, <3>2, <3>3 DEF VerifierInv, HandledIsConsumed
  <2>4. EventsOf(o, 0..end - 1) = EventsOf(o, consumed)
    BY <1>1, <2>3, RecordsAreOffsets DEF VerifierInv, VerifyTypeOK, EventsOf
  <2>5. /\ orderCounts[o] <= 1 /\ Cardinality(EventsOf(o, consumed)) <= orderCounts[o]
        /\ orderCounts[o] \in Nat
    BY <1>1 DEF VerifierInv, VerifyTypeOK, VerdictIsOfCounts, CountsAtLeast
  <2>. QED  BY <1>1, <2>4, <2>5, EventsAreCounted DEF VerifierInv
<1>2. VerifierInv => PassedHasCause
  BY <1>1 DEF PassedHasCause
<1>. QED  BY <1>2, VerifierInvariance, PTL
=============================================================================
