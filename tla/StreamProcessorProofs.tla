----------------------- MODULE StreamProcessorProofs -----------------------
(***************************************************************************)
(* Proofs about the Kafka consumer and the stream processor built on it,   *)
(* for every number of slots, records, tries, copies and restarts.         *)
(***************************************************************************)
EXTENDS StreamProcessor, TLAPS

\* The records accounted for remain so.
AccountsGrow == Accounted \subseteq Accounted'

USE DEF Offset

\* An offset is no mark for a free slot.
LEMMA OffsetIsNat == Offset \subseteq Nat /\ Free \notin Offset
BY BoundAssumption, FreeAssumption

\* The group starts with nothing polled and nothing committed.
LEMMA InitConsumer == Init => ConsumerInv
<1> SUFFICES ASSUME Init PROVE ConsumerInv
  OBVIOUS
<1> USE DEF Init
<1>1. TypeOK
  BY BoundAssumption, FreeAssumption DEF TypeOK
<1>2. WithinLog /\ DoneIsHandled /\ CommitNamesHandled
  BY DEF WithinLog, DoneIsHandled, CommitNamesHandled
<1>3. LossHasCause /\ CursorIsAccounted /\ JobIsAccounted /\ PositionIsAccounted
  BY OffsetIsNat DEF LossHasCause, CursorIsAccounted, JobIsAccounted, PositionIsAccounted
<1>. QED  BY <1>1, <1>2, <1>3 DEF ConsumerInv

-----------------------------------------------------------------------------
\* A step after which the client stands where it stood, no slot has a new
\* record and the group's offset is as before keeps what the accounts say.
LEMMA AccountsKept ==
  ASSUME ConsumerInv, AccountsGrow, UNCHANGED <<clientVars, committed>>,
         \A s \in Slot : job'[s] # Free => job'[s] = job[s]
  PROVE  LossHasCause' /\ CursorIsAccounted' /\ JobIsAccounted' /\ PositionIsAccounted'
<1> USE DEF AccountsGrow, clientVars
<1>1. LossHasCause' /\ CursorIsAccounted' /\ PositionIsAccounted'
  BY DEF ConsumerInv, LossHasCause, CursorIsAccounted, PositionIsAccounted
<1>2. JobIsAccounted'
  BY DEF ConsumerInv, JobIsAccounted
<1>. QED  BY <1>1, <1>2

\* Writing, and a handler's moves while it keeps its record.
LEMMA HandlerInv ==
  ASSUME ConsumerInv, Append \/ \E s \in Slot : Succeed(s) \/ TryAgain(s)
  PROVE  ConsumerInv'
<1> USE DEF clientVars, slotVars, historyVars
<1>1. /\ TypeOK'
      /\ WithinLog'
      /\ DoneIsHandled'
      /\ handled \subseteq handled'
  <2>1. CASE Append
    BY <2>1, BoundAssumption DEF ConsumerInv, Append, TypeOK, WithinLog, DoneIsHandled
  <2>2. ASSUME NEW s \in Slot, Succeed(s)
        PROVE  TypeOK' /\ WithinLog' /\ DoneIsHandled' /\ handled \subseteq handled'
    BY <2>2, OffsetIsNat DEF ConsumerInv, Succeed, Handling, TypeOK, WithinLog, DoneIsHandled
  <2>3. ASSUME NEW s \in Slot, TryAgain(s)
        PROVE  TypeOK' /\ WithinLog' /\ DoneIsHandled' /\ handled \subseteq handled'
    BY <2>3, BoundAssumption DEF ConsumerInv, TryAgain, TypeOK, WithinLog, DoneIsHandled
  <2>. QED  BY <2>1, <2>2, <2>3
<1>2. UNCHANGED <<clientVars, committed, job, skipped, failed, cut>>
  BY DEF Append, Succeed, TryAgain
<1>3. AccountsGrow
  BY <1>1, <1>2 DEF AccountsGrow, Accounted, InFlight
<1>4. CommitNamesHandled'
  BY <1>1, <1>2 DEF ConsumerInv, CommitNamesHandled
<1>. QED  BY <1>1, <1>2, <1>3, <1>4, AccountsKept DEF ConsumerInv

\* A record that leaves its slot is accounted for: it was handled, or it is
\* noted as given up.
LEMMA ReleaseGrows ==
  ASSUME ConsumerInv, NEW s \in Slot, Release(s), UNCHANGED <<handled, skipped, cut>>,
         \/ failed' = failed /\ done[s]
         \/ failed' = failed \union {job[s]}
  PROVE  /\ AccountsGrow
         /\ \A t \in Slot : job'[t] # Free => job'[t] = job[t]
<1>1. \A t \in Slot : job'[t] = IF t = s THEN Free ELSE job[t]
  BY DEF ConsumerInv, TypeOK, Release
<1>2. job[s] \in handled \/ job[s] \in failed'
  BY DEF ConsumerInv, DoneIsHandled
<1>3. ASSUME NEW o \in InFlight PROVE o \in Accounted'
  <2>1. PICK t \in Slot : o = job[t] /\ o # Free
    BY DEF InFlight
  <2>2. CASE t = s
    BY <1>2, <2>1, <2>2 DEF Accounted
  <2>3. CASE t # s
    BY <1>1, <2>1, <2>3 DEF Accounted, InFlight
  <2>. QED  BY <2>2, <2>3
<1>4. failed \subseteq failed'
  OBVIOUS
<1>. QED  BY <1>1, <1>3, <1>4 DEF AccountsGrow, Accounted

\* The end of a handler's work on its record.
LEMMA EndInv ==
  ASSUME ConsumerInv, NEW s \in Slot, GiveUp(s) \/ CommitFails(s) \/ Commit(s)
  PROVE  ConsumerInv'
<1> USE DEF clientVars, slotVars, historyVars
<1>0. /\ Release(s)
      /\ UNCHANGED <<end, clientVars, handled, skipped, cut, restarts>>
      /\ \/ failed' = failed /\ done[s]
         \/ failed' = failed \union {job[s]} /\ job[s] # Free
      /\ committed' = committed \/ (done[s] /\ committed' = job[s] + 1)
  BY DEF GiveUp, CommitFails, Commit, Handling
<1>1. job[s] \in Offset /\ (done[s] => job[s] \in handled /\ job[s] < end)
  BY <1>0, OffsetIsNat DEF ConsumerInv, DoneIsHandled, TypeOK, WithinLog
<1>2. AccountsGrow /\ \A t \in Slot : job'[t] # Free => job'[t] = job[t]
  BY <1>0, ReleaseGrows
<1>3. \A t \in Slot : /\ job'[t] = IF t = s THEN Free ELSE job[t]
                      /\ done'[t] = IF t = s THEN FALSE ELSE done[t]
  BY <1>0 DEF ConsumerInv, TypeOK, Release
<1>4. TypeOK'
  <2>1. job' \in [Slot -> Offset \union {Free}]
    BY <1>0 DEF ConsumerInv, TypeOK, Release
  <2>2. tries' \in [Slot -> 0..MaxTries - 1] /\ done' \in [Slot -> BOOLEAN]
    BY <1>0, BoundAssumption DEF ConsumerInv, TypeOK, Release
  <2>3. committed' \in 0..MaxRecords
    BY <1>0, <1>1, BoundAssumption DEF ConsumerInv, TypeOK
  <2>4. failed' \subseteq Offset
    BY <1>0, <1>1 DEF ConsumerInv, TypeOK
  <2>. QED  BY <1>0, <2>1, <2>2, <2>3, <2>4 DEF ConsumerInv, TypeOK
<1>5. WithinLog'
  <2>1. committed' <= end /\ \A t \in Slot : job'[t] # Free => job'[t] < end
    BY <1>0, <1>1, <1>2, OffsetIsNat DEF ConsumerInv, TypeOK, WithinLog
  <2>. QED  BY <1>0, <2>1 DEF ConsumerInv, WithinLog
<1>6. DoneIsHandled'
  BY <1>0, <1>3 DEF ConsumerInv, DoneIsHandled
<1>7. CommitNamesHandled'
  BY <1>0, <1>1, OffsetIsNat DEF ConsumerInv, CommitNamesHandled
<1>8. LossHasCause'
  <2>1. CASE committed' = committed
    BY <1>2, <2>1 DEF ConsumerInv, LossHasCause, AccountsGrow
  <2>2. CASE done[s] /\ committed' = job[s] + 1
    <3>1. \A o \in Offset : o <= job[s] => o \in Accounted
      BY <2>2 DEF ConsumerInv, DoneIsHandled, JobIsAccounted
    <3>. QED  BY <1>1, <1>2, <2>2, <3>1, OffsetIsNat DEF LossHasCause, AccountsGrow
  <2>. QED  BY <1>0, <2>1, <2>2
<1>9. CursorIsAccounted' /\ JobIsAccounted' /\ PositionIsAccounted'
  BY <1>0, <1>2 DEF ConsumerInv, CursorIsAccounted, JobIsAccounted, PositionIsAccounted, AccountsGrow
<1>. QED  BY <1>4, <1>5, <1>6, <1>7, <1>8, <1>9 DEF ConsumerInv

-----------------------------------------------------------------------------
\* Iterating the batch: the record at the cursor enters a slot or is noted as
\* passed over, so that the cursor leaves it accounted for.
LEMMA IterateInv ==
  ASSUME ConsumerInv, Iterate
  PROVE  ConsumerInv'
<1> USE DEF slotVars
<1>0. /\ cursor < last /\ cursor' = cursor + 1 /\ cursor \in Offset
      /\ UNCHANGED <<end, position, last, tries, done, committed, handled, failed, cut, restarts>>
  BY BoundAssumption DEF ConsumerInv, TypeOK, Iterate, Skip, Dispatch, historyVars
<1>1. \/ skipped' = skipped \union {cursor} /\ job' = job
      \/ /\ skipped' = skipped
         /\ \E s \in Slot : job[s] = Free /\ job' = [job EXCEPT ![s] = cursor]
  BY DEF Iterate, Skip, Dispatch, historyVars
<1>2. AccountsGrow /\ cursor \in Accounted'
  <2>1. CASE skipped' = skipped \union {cursor} /\ job' = job
    BY <1>0, <2>1 DEF AccountsGrow, Accounted, InFlight
  <2>2. ASSUME NEW s \in Slot, job[s] = Free, job' = [job EXCEPT ![s] = cursor],
               skipped' = skipped
        PROVE  AccountsGrow /\ cursor \in Accounted'
    <3>1. job'[s] = cursor /\ \A t \in Slot : job[t] # Free => job'[t] = job[t]
      BY <2>2 DEF ConsumerInv, TypeOK
    <3>2. InFlight \subseteq InFlight' /\ cursor \in InFlight'
      BY <1>0, <3>1, OffsetIsNat DEF InFlight
    <3>. QED  BY <1>0, <2>2, <3>2 DEF AccountsGrow, Accounted
  <2>. QED  BY <1>1, <2>1, <2>2
<1>3. \A s \in Slot : job'[s] = job[s] \/ (job[s] = Free /\ job'[s] = cursor)
  BY <1>1 DEF ConsumerInv, TypeOK
<1>4. TypeOK'
  <2>1. cursor' \in 0..MaxRecords
    BY <1>0, BoundAssumption DEF ConsumerInv, TypeOK
  <2>2. job' \in [Slot -> Offset \union {Free}] /\ skipped' \subseteq Offset
    BY <1>0, <1>1 DEF ConsumerInv, TypeOK
  <2>. QED  BY <1>0, <2>1, <2>2 DEF ConsumerInv, TypeOK
<1>5. WithinLog'
  BY <1>0, <1>3, BoundAssumption DEF ConsumerInv, TypeOK, WithinLog
<1>6. DoneIsHandled' /\ CommitNamesHandled'
  BY <1>0, <1>3 DEF ConsumerInv, DoneIsHandled, CommitNamesHandled
<1>7. CursorIsAccounted'
  BY <1>0, <1>2, OffsetIsNat DEF ConsumerInv, TypeOK, CursorIsAccounted, AccountsGrow
<1>8. JobIsAccounted'
  <2> SUFFICES ASSUME NEW s \in Slot, job'[s] # Free, NEW o \in Offset, o <= job'[s]
               PROVE  o \in Accounted'
    BY DEF JobIsAccounted
  <2>1. CASE job'[s] = job[s]
    BY <1>2, <2>1 DEF ConsumerInv, JobIsAccounted, AccountsGrow
  <2>2. CASE job'[s] = cursor
    <3>1. o < cursor'
      BY <1>0, <2>2, OffsetIsNat
    <3>. QED  BY <1>7, <3>1 DEF CursorIsAccounted
  <2>. QED  BY <1>3, <2>1, <2>2
<1>9. LossHasCause' /\ PositionIsAccounted'
  <2>1. LossHasCause'
    BY <1>0, <1>2 DEF ConsumerInv, LossHasCause, AccountsGrow
  <2>2. PositionIsAccounted'
    <3> SUFFICES ASSUME NEW o \in Offset, o < position', o \notin Accounted'
                 PROVE  cursor' <= o /\ o < last'
      BY DEF PositionIsAccounted
    <3>1. cursor <= o /\ o < last /\ o # cursor
      BY <1>0, <1>2 DEF ConsumerInv, PositionIsAccounted, AccountsGrow
    <3>. QED  BY <1>0, <3>1, OffsetIsNat
  <2>. QED  BY <2>1, <2>2
<1>. QED  BY <1>4, <1>5, <1>6, <1>7, <1>8, <1>9 DEF ConsumerInv

\* Polling, once the batch has been iterated: the new batch begins where the
\* fetch position stood.
LEMMA PollInv ==
  ASSUME ConsumerInv, Poll
  PROVE  ConsumerInv'
<1> USE DEF slotVars, historyVars
<1>0. /\ cursor = last /\ cursor' = position
      /\ last' = position' /\ position < last' /\ last' <= end /\ last' \in 0..MaxRecords
      /\ UNCHANGED <<end, slotVars, committed, historyVars, restarts>>
  BY BoundAssumption DEF ConsumerInv, TypeOK, Poll
<1>1. Accounted' = Accounted
  BY <1>0 DEF Accounted, InFlight
<1>2. TypeOK'
  BY <1>0 DEF ConsumerInv, TypeOK
<1>3. WithinLog' /\ DoneIsHandled' /\ CommitNamesHandled'
  BY <1>0, BoundAssumption DEF ConsumerInv, TypeOK, WithinLog, DoneIsHandled, CommitNamesHandled
<1>4. LossHasCause' /\ JobIsAccounted'
  BY <1>0, <1>1 DEF ConsumerInv, LossHasCause, JobIsAccounted
<1>5. CursorIsAccounted'
  <2> SUFFICES ASSUME NEW o \in Offset, o < position
               PROVE  o \in Accounted
    BY <1>0, <1>1 DEF CursorIsAccounted
  <2>1. ~(last <= o /\ o < last)
    BY BoundAssumption DEF ConsumerInv, TypeOK
  <2>. QED  BY <1>0, <2>1 DEF ConsumerInv, PositionIsAccounted
<1>6. PositionIsAccounted'
  <2> SUFFICES ASSUME NEW o \in Offset, o < last', ~(position <= o)
               PROVE  o \in Accounted'
    BY <1>0 DEF PositionIsAccounted
  <2>1. o < cursor'
    BY <1>0, BoundAssumption DEF ConsumerInv, TypeOK
  <2>. QED  BY <1>5, <2>1 DEF CursorIsAccounted
<1>. QED  BY <1>2, <1>3, <1>4, <1>5, <1>6 DEF ConsumerInv

\* Resuming at the group's offset, with or without the handlers.
LEMMA ResumeInv ==
  ASSUME ConsumerInv, Reassign \/ Restart
  PROVE  ConsumerInv'
<1> USE DEF slotVars, historyVars
<1>0. restarts' \in 0..MaxRestarts /\ UNCHANGED <<end, committed, handled, skipped, failed>>
  BY BoundAssumption DEF ConsumerInv, TypeOK, Reassign, Restart
<1>1. CASE Reassign
  <2>0. position' = committed /\ UNCHANGED <<cursor, last, slotVars, historyVars>>
    BY <1>1 DEF Reassign
  <2>1. Accounted' = Accounted
    BY <2>0 DEF Accounted, InFlight
  <2>2. TypeOK' /\ WithinLog' /\ DoneIsHandled' /\ CommitNamesHandled'
    BY <1>0, <2>0
    DEF ConsumerInv, TypeOK, WithinLog, DoneIsHandled, CommitNamesHandled
  <2>3. LossHasCause' /\ JobIsAccounted' /\ CursorIsAccounted' /\ PositionIsAccounted'
    BY <1>0, <2>0, <2>1
    DEF ConsumerInv, LossHasCause, JobIsAccounted, CursorIsAccounted, PositionIsAccounted
  <2>. QED  BY <2>2, <2>3 DEF ConsumerInv
<1>2. CASE Restart
  <2>0. /\ position' = committed /\ cursor' = committed /\ last' = committed
        /\ job' = [s \in Slot |-> Free] /\ tries' = [s \in Slot |-> 0]
        /\ done' = [s \in Slot |-> FALSE]
        /\ cut' = cut \union InFlight
    BY <1>2 DEF Restart
  <2>1. AccountsGrow /\ InFlight \subseteq Offset
    BY <1>0, <2>0 DEF ConsumerInv, TypeOK, AccountsGrow, Accounted, InFlight
  <2>2. TypeOK'
    BY <1>0, <2>0, <2>1, BoundAssumption DEF ConsumerInv, TypeOK
  <2>3. WithinLog' /\ DoneIsHandled' /\ CommitNamesHandled'
    BY <1>0, <2>0, BoundAssumption
    DEF ConsumerInv, TypeOK, WithinLog, DoneIsHandled, CommitNamesHandled
  <2>4. LossHasCause'
    BY <1>0, <2>1 DEF ConsumerInv, LossHasCause, AccountsGrow
  <2>5. JobIsAccounted' /\ CursorIsAccounted' /\ PositionIsAccounted'
    BY <1>0, <2>0, <2>4
    DEF LossHasCause, JobIsAccounted, CursorIsAccounted, PositionIsAccounted
  <2>. QED  BY <2>2, <2>3, <2>4, <2>5 DEF ConsumerInv
<1>. QED  BY <1>1, <1>2

-----------------------------------------------------------------------------
\* Every step of the consumer keeps its invariant.
LEMMA NextConsumer ==
  ASSUME ConsumerInv, [Next]_vars
  PROVE  ConsumerInv'
<1>1. CASE Append \/ \E s \in Slot : Succeed(s) \/ TryAgain(s)
  BY <1>1, HandlerInv
<1>2. CASE \E s \in Slot : GiveUp(s) \/ CommitFails(s) \/ Commit(s)
  BY <1>2, EndInv
<1>3. CASE Iterate
  BY <1>3, IterateInv
<1>4. CASE Poll
  BY <1>4, PollInv
<1>5. CASE Reassign \/ Restart
  BY <1>5, ResumeInv
<1>6. CASE UNCHANGED vars
  BY <1>6
  DEF vars, clientVars, slotVars, historyVars, ConsumerInv, TypeOK, WithinLog,
      DoneIsHandled, CommitNamesHandled, LossHasCause, CursorIsAccounted,
      JobIsAccounted, PositionIsAccounted, Accounted, InFlight
<1>. QED  BY <1>1, <1>2, <1>3, <1>4, <1>5, <1>6 DEF Next, Handler

\* The consumer alone, whatever its handlers do: its invariant always holds.
THEOREM ConsumerInvariance == Spec => []ConsumerInv
BY InitConsumer, NextConsumer, PTL DEF Spec

-----------------------------------------------------------------------------
\* Every step of the stream processor is a step of the consumer or leaves its
\* state alone: the handler of the one is an instance of that of the other.
LEMMA IsConsumerStep == [StreamNext]_streamVars => [Next]_vars
<1>1. ASSUME NEW e, Write(e) PROVE Next
  BY <1>1 DEF Write, Next
<1>2. ASSUME NEW s \in Slot, Produce(s) \/ SlotStep(s) PROVE [Next]_vars
  <2>1. CASE Produce(s)
    BY <2>1 DEF Produce
  <2>2. CASE SlotStep(s)
    BY <2>2 DEF SlotStep, Handled, HandlerFails, Handler, Next
  <2>. QED  BY <1>2, <2>1, <2>2
<1>3. ASSUME ConsumerStep PROVE Next
  BY <1>3 DEF ConsumerStep, Next
<1>4. (UNCHANGED streamVars) => UNCHANGED vars
  BY DEF streamVars
<1>. QED  BY <1>1, <1>2, <1>3, <1>4 DEF StreamNext, Tick, Repeat, WriteOther

\* Topics only grow: a record, once written, and a command, once sent, stay.
TopicsGrow ==
    /\ \A o \in Written : event'[o] = event[o]
    /\ commands \subseteq commands'

\* Only the end of the log is written to, and commands are never removed.
LEMMA StreamGrows ==
  ASSUME StreamInv, [StreamNext]_streamVars
  PROVE  TopicsGrow
<1>1. ASSUME NEW e, Write(e) PROVE TopicsGrow
  BY <1>1, BoundAssumption DEF Write, TopicsGrow, Written, StreamInv, StreamTypeOK, TypeOK
<1>2. ASSUME NEW s \in Slot, Produce(s) \/ SlotStep(s) PROVE TopicsGrow
  BY <1>2 DEF Produce, SlotStep, Handled, HandlerFails, TopicsGrow
<1>3. ASSUME ConsumerStep PROVE TopicsGrow
  BY <1>3 DEF ConsumerStep, TopicsGrow
<1>4. (UNCHANGED streamVars) => TopicsGrow
  BY DEF streamVars, TopicsGrow
<1>. QED  BY <1>1, <1>2, <1>3, <1>4 DEF StreamNext, Tick, Repeat, WriteOther

\* A tick on the topic is an event id, and an unread mark is none.
LEMMA TicksAreIds ==
  ASSUME StreamInv
  PROVE  /\ Ticks \subseteq EventId
         /\ \A o \in Written : IsTick(o) => event[o] \in Ticks
         /\ Written \subseteq Offset
BY BoundAssumption DEF StreamInv, StreamTypeOK, TypeOK, Ticks, Written, IsTick

\* A record in a slot has been written.
LEMMA JobIsWritten ==
  ASSUME StreamInv, NEW s \in Slot, job[s] # Free
  PROVE  job[s] \in Written /\ job[s] \in Offset
BY BoundAssumption, OffsetIsNat DEF StreamInv, ConsumerInv, TypeOK, WithinLog, Written

\* The topics start empty.
LEMMA InitStream == StreamInit => StreamInv
<1> SUFFICES ASSUME StreamInit PROVE StreamInv
  OBVIOUS
<1>1. ConsumerInv
  BY InitConsumer DEF StreamInit
<1>2. StreamTypeOK
  BY <1>1 DEF StreamInit, StreamTypeOK, ConsumerInv
<1>3. HandledIsSent
  BY DEF StreamInit, Init, HandledIsSent
<1>. QED  BY <1>1, <1>2, <1>3 DEF StreamInv

\* Every step of the stream processor keeps its invariant.
LEMMA NextStream ==
  ASSUME StreamInv, [StreamNext]_streamVars
  PROVE  StreamInv'
<1>1. ConsumerInv'
  BY IsConsumerStep, NextConsumer DEF StreamInv
<1>2. event' \in [Offset -> EventId \union {Unreadable}]
  <2>0. event \in [Offset -> EventId \union {Unreadable}]
    BY DEF StreamInv, StreamTypeOK
  <2>1. ASSUME NEW e \in EventId \union {Unreadable}, Write(e)
        PROVE  event' \in [Offset -> EventId \union {Unreadable}]
    BY <2>0, <2>1 DEF Write
  <2>2. CASE Tick
    <3>1. end \in EventId
      BY <2>2, BoundAssumption DEF Tick, Write, Append, EventId, StreamInv, StreamTypeOK, TypeOK
    <3>. QED  BY <2>1, <2>2, <3>1 DEF Tick
  <2>3. CASE Repeat \/ WriteOther
    BY <2>1, <2>3, TicksAreIds DEF Repeat, WriteOther
  <2>4. CASE ConsumerStep \/ \E s \in Slot : Produce(s) \/ SlotStep(s)
    BY <2>0, <2>4 DEF ConsumerStep, Produce, SlotStep, Handled, HandlerFails
  <2>5. CASE UNCHANGED streamVars
    BY <2>0, <2>5 DEF streamVars
  <2>. QED  BY <2>2, <2>3, <2>4, <2>5 DEF StreamNext
<1>3. commands' \subseteq [event : EventId, order : {"ord"} \X Offset]
  <2>0. commands \subseteq [event : EventId, order : {"ord"} \X Offset]
    BY DEF StreamInv, StreamTypeOK
  <2>1. ASSUME NEW s \in Slot, Produce(s)
        PROVE  commands' \subseteq [event : EventId, order : {"ord"} \X Offset]
    <3>1. event[job[s]] \in EventId
      BY <2>1, JobIsWritten, TicksAreIds DEF Produce, Handling
    <3>. QED  BY <2>0, <2>1, <3>1 DEF Produce, CommandOf, EventId
  <2>2. CASE ConsumerStep \/ Tick \/ Repeat \/ WriteOther \/ \E s \in Slot : SlotStep(s)
    BY <2>0, <2>2
    DEF ConsumerStep, Tick, Repeat, WriteOther, Write, SlotStep, Handled, HandlerFails
  <2>3. CASE UNCHANGED streamVars
    BY <2>0, <2>3 DEF streamVars
  <2>. QED  BY <2>1, <2>2, <2>3 DEF StreamNext
<1>4. HandledIsSent'
  <2> SUFFICES ASSUME NEW o \in handled' PROVE IsTick(o)' /\ (CommandOf(o) \in commands)'
    BY DEF HandledIsSent
  <2>1. o \in handled \/ \E s \in Slot : Handled(s) /\ o = job[s]
    BY DEF StreamNext, Tick, Repeat, WriteOther, Write, Append, Produce, SlotStep, Handled,
           Succeed, HandlerFails, TryAgain, GiveUp, Commit, CommitFails, ConsumerStep, Poll,
           Iterate, Skip, Dispatch, Reassign, Restart, streamVars, vars, historyVars
  <2>2. o \in Written /\ IsTick(o) /\ CommandOf(o) \in commands
    <3>1. CASE o \in handled
      BY <3>1, BoundAssumption
      DEF StreamInv, HandledIsSent, ConsumerInv, TypeOK, WithinLog, Written
    <3>2. CASE \E s \in Slot : Handled(s) /\ o = job[s]
      BY <3>2, JobIsWritten DEF Handled, Succeed, Handling, Sent
    <3>. QED  BY <2>1, <3>1, <3>2
  <2>3. TopicsGrow
    BY StreamGrows
  <2>. QED  BY <2>2, <2>3 DEF TopicsGrow, IsTick, CommandOf
<1>5. StreamTypeOK'
  BY <1>1, <1>2, <1>3 DEF StreamTypeOK, ConsumerInv
<1>. QED  BY <1>1, <1>4, <1>5 DEF StreamInv

\* The stream processor's invariant holds in every state of every behaviour.
THEOREM StreamInvariance == StreamSpec => []StreamInv
BY InitStream, NextStream, PTL DEF StreamSpec

\* However retries, reassignments and overtaking commits mix, the group's
\* offset is always the one after a record whose handler succeeded
\* (consumer.go commits the record of the handler that returned).
THEOREM CommitsAreHandled == StreamSpec => []CommitNamesHandled
<1>1. StreamInv => CommitNamesHandled
  BY DEF StreamInv, ConsumerInv
<1>. QED  BY <1>1, StreamInvariance, PTL

\* A record below the group's offset was handled, is in flight, or was skipped,
\* given up or cut off: the consumer loses records in these three ways only.
THEOREM LossesHaveCause == StreamSpec => []LossHasCause
<1>1. StreamInv => LossHasCause
  BY DEF StreamInv, ConsumerInv
<1>. QED  BY <1>1, StreamInvariance, PTL

\* A tick below the group's offset has its command on orders.commands unless
\* its record was lost in one of these ways.
THEOREM TickLossesHaveCause == StreamSpec => []TickLossHasCause
<1>1. ASSUME StreamInv PROVE TickLossHasCause
  <2> SUFFICES ASSUME NEW o \in Offset, o < committed, CommandOf(o) \notin commands
               PROVE  o \in InFlight \union skipped \union failed \union cut
    BY DEF TickLossHasCause
  <2>1. o \in Accounted
    BY <1>1 DEF StreamInv, ConsumerInv, LossHasCause
  <2>2. o \notin handled
    BY <1>1 DEF StreamInv, HandledIsSent
  <2>. QED  BY <2>1, <2>2 DEF Accounted
<1>. QED  BY <1>1, StreamInvariance, PTL

-----------------------------------------------------------------------------
\* Writing is the arrival of a tick, of one that has arrived before, or no
\* matter of the feed.
LEMMA WriteIsArrival ==
  ASSUME StreamInv, NEW e \in EventId \union {Unreadable}, Write(e)
  PROVE  [Feed!Arrive]_<<Ticks, commands>>
<1>1. end \in Offset /\ end' = end + 1 /\ commands' = commands
  BY BoundAssumption DEF Write, Append, StreamInv, StreamTypeOK, TypeOK
<1>2. Written' = Written \union {end} /\ end \notin Written
  BY <1>1, BoundAssumption DEF Written
<1>3. \A o \in Written' : event'[o] = IF o = end THEN e ELSE event[o]
  BY <1>1, <1>2, TicksAreIds DEF Write, StreamInv, StreamTypeOK
<1>4. Ticks' = (Ticks \union {e}) \ {Unreadable}
  BY <1>2, <1>3 DEF Ticks
<1>5. Unreadable \notin Ticks
  BY DEF Ticks
<1>6. CASE e = Unreadable
  BY <1>1, <1>4, <1>5, <1>6
<1>7. CASE e # Unreadable
  <2>1. Ticks' = Ticks \union {e} /\ e \in EventId
    BY <1>4, <1>5, <1>7
  <2>. QED  BY <1>1, <2>1 DEF Feed!Arrive
<1>. QED  BY <1>6, <1>7

\* Producing is the order of a tick that has arrived.
LEMMA ProduceIsOrder ==
  ASSUME StreamInv, NEW s \in Slot, Produce(s)
  PROVE  Feed!Order
<1>1. event[job[s]] \in Ticks
  BY JobIsWritten, TicksAreIds DEF Produce, Handling
<1>2. commands' = commands \union {Feed!CommandFor(event[job[s]])}
  BY DEF Produce, CommandOf, Feed!CommandFor
<1>3. Ticks' = Ticks
  BY DEF Produce, Ticks, Written, vars
<1>. QED  BY <1>1, <1>2, <1>3 DEF Feed!Order

\* Every step of the stream processor is a step of the feed or a stutter.
LEMMA StepImplementsFeed ==
  ASSUME StreamInv, [StreamNext]_streamVars
  PROVE  [Feed!Arrive \/ Feed!Order]_<<Ticks, commands>>
<1>1. CASE Tick
  <2>1. end \in EventId
    BY <1>1, BoundAssumption DEF Tick, Write, Append, EventId, StreamInv, StreamTypeOK, TypeOK
  <2>. QED  BY <1>1, <2>1, WriteIsArrival DEF Tick
<1>2. CASE Repeat \/ WriteOther
  BY <1>2, WriteIsArrival, TicksAreIds DEF Repeat, WriteOther
<1>3. ASSUME NEW s \in Slot, Produce(s)
      PROVE  Feed!Order
  BY <1>3, ProduceIsOrder
<1>4. CASE ConsumerStep \/ (\E s \in Slot : SlotStep(s)) \/ UNCHANGED streamVars
  <2>1. UNCHANGED <<end, event, commands>>
    BY <1>4 DEF ConsumerStep, Poll, Iterate, Skip, Dispatch, Reassign, Restart, SlotStep,
                Handled, Succeed, HandlerFails, TryAgain, GiveUp, Commit, CommitFails,
                streamVars, vars
  <2>. QED  BY <2>1 DEF Ticks, Written
<1>. QED  BY <1>1, <1>2, <1>3, <1>4 DEF StreamNext

\* The stream processor implements the feed: one command for each tick, the
\* same at every repetition and redelivery, and none without a tick.
THEOREM FeedRefinement == StreamSpec => ImplementsFeed
<1>1. StreamInit => Feed!Init
  <2> SUFFICES ASSUME StreamInit PROVE Feed!Init
    OBVIOUS
  <2>1. Written = {}
    BY DEF StreamInit, Init, Written
  <2>. QED  BY <2>1 DEF StreamInit, Ticks, Feed!Init
<1>. QED
  BY <1>1, StepImplementsFeed, StreamInvariance, PTL DEF StreamSpec, ImplementsFeed, Feed!Spec
=============================================================================
