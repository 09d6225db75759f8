------------------------------ MODULE Consumer ------------------------------
(***************************************************************************)
(* The Kafka consumer of internal/msg on one partition: it polls batches   *)
(* of records, starts a handler for each record that finds a free slot,    *)
(* and commits the offset after a record when its handler has succeeded,   *)
(* in whatever order the handlers finish.                                  *)
(***************************************************************************)
EXTENDS Integers, FiniteSets

CONSTANTS
    Slot,           \* the semaphore's slots (MAX_INFLIGHT), numbered
    Free,           \* no record
    MaxRecords,     \* bound: records ever written to the partition
    MaxTries,       \* calls of the handler for one delivery (maxRetries)
    MaxRestarts,    \* bound: restarts of the process, and reassignments
    MayFail         \* whether a handler may return an error

ASSUME SlotAssumption  == Slot \subseteq Nat /\ IsFiniteSet(Slot) /\ Slot # {}
ASSUME BoundAssumption == MaxRecords \in Nat /\ MaxTries \in Nat \ {0} /\ MaxRestarts \in Nat
ASSUME FreeAssumption  == Free \notin Nat
ASSUME FailAssumption  == MayFail \in BOOLEAN

VARIABLES
    end,        \* the partition's end: the offset of the next record written
    position,   \* the client's fetch position
    cursor,     \* the next record of the polled batch
    last,       \* where the polled batch ends
    job,        \* the record a slot works on
    tries,      \* failed calls of its handler
    done,       \* its handler has succeeded and its offset is being committed
    committed,  \* the group's committed offset
    handled,    \* records whose handler has succeeded at least once
    skipped,    \* records passed over because no slot was free
    failed,     \* records given up after the last try
    cut,        \* records in a handler when the process stopped
    restarts    \* restarts and reassignments so far

clientVars  == <<position, cursor, last>>
slotVars    == <<job, tries, done>>
historyVars == <<handled, skipped, failed, cut>>
vars == <<end, clientVars, slotVars, committed, historyVars, restarts>>

Offset == 0..MaxRecords - 1

TypeOK ==
    /\ end \in 0..MaxRecords
    /\ position \in 0..MaxRecords /\ cursor \in 0..MaxRecords /\ last \in 0..MaxRecords
    /\ job \in [Slot -> Offset \union {Free}]
    /\ tries \in [Slot -> 0..MaxTries - 1]
    /\ done \in [Slot -> BOOLEAN]
    /\ committed \in 0..MaxRecords
    /\ handled \subseteq Offset /\ skipped \subseteq Offset /\ failed \subseteq Offset
    /\ cut \subseteq Offset
    /\ restarts \in 0..MaxRestarts

\* A group without a committed offset starts at the partition's start.
Init ==
    /\ end = 0 /\ position = 0 /\ cursor = 0 /\ last = 0
    /\ job = [s \in Slot |-> Free]
    /\ tries = [s \in Slot |-> 0]
    /\ done = [s \in Slot |-> FALSE]
    /\ committed = 0
    /\ handled = {} /\ skipped = {} /\ failed = {} /\ cut = {}
    /\ restarts = 0

-----------------------------------------------------------------------------
InFlight == {job[s] : s \in Slot} \ {Free}

Full == \A s \in Slot : job[s] # Free

\* A producer appends a record.
Append ==
    /\ end < MaxRecords
    /\ end' = end + 1
    /\ UNCHANGED <<clientVars, slotVars, committed, historyVars, restarts>>

\* PollFetches: once the batch is iterated, the next records from the fetch
\* position, which moves past them for good.
Poll ==
    /\ cursor = last
    /\ \E n \in position + 1..end : last' = n /\ position' = n
    /\ cursor' = position
    /\ UNCHANGED <<end, slotVars, committed, historyVars, restarts>>

\* A slot is free: the record's goroutine starts.  Slots have no names in the
\* code, so that the first free one stands for any.
Dispatch(s) ==
    /\ cursor < last
    /\ job[s] = Free /\ \A t \in Slot : t < s => job[t] # Free
    /\ job' = [job EXCEPT ![s] = cursor]
    /\ cursor' = cursor + 1
    /\ UNCHANGED <<end, position, last, tries, done, committed, historyVars, restarts>>

\* No slot is free: the record is dropped from the batch.
Skip ==
    /\ cursor < last
    /\ Full
    /\ skipped' = skipped \union {cursor}
    /\ cursor' = cursor + 1
    /\ UNCHANGED <<end, position, last, slotVars, committed, handled, failed, cut, restarts>>

Handling(s) == job[s] # Free /\ ~done[s]

Succeed(s) ==
    /\ Handling(s)
    /\ done' = [done EXCEPT ![s] = TRUE]
    /\ handled' = handled \union {job[s]}
    /\ UNCHANGED <<end, clientVars, job, tries, committed, skipped, failed, cut, restarts>>

Release(s) ==
    /\ job' = [job EXCEPT ![s] = Free]
    /\ tries' = [tries EXCEPT ![s] = 0]
    /\ done' = [done EXCEPT ![s] = FALSE]

\* Slip: one call of the handler too many.
TryAgain_OneMore(s) ==
    /\ MayFail
    /\ Handling(s)
    /\ tries[s] < MaxTries
    /\ tries' = [tries EXCEPT ![s] = @ + 1]
    /\ UNCHANGED <<end, clientVars, job, done, committed, historyVars, restarts>>

\* The handler returns an error: it is called again after a backoff ...
TryAgain(s) ==
    /\ MayFail
    /\ Handling(s)
    /\ tries[s] + 1 < MaxTries
    /\ tries' = [tries EXCEPT ![s] = @ + 1]
    /\ UNCHANGED <<end, clientVars, job, done, committed, historyVars, restarts>>

\* Slip: the offset of a record that was given up is committed.
GiveUp_Commits(s) ==
    /\ MayFail
    /\ Handling(s)
    /\ tries[s] + 1 = MaxTries
    /\ committed' = job[s] + 1
    /\ Release(s)
    /\ UNCHANGED <<end, clientVars, historyVars, restarts>>

\* ... until the record is given up, without a commit.
GiveUp(s) ==
    /\ MayFail
    /\ Handling(s)
    /\ tries[s] + 1 = MaxTries
    /\ failed' = failed \union {job[s]}
    /\ Release(s)
    /\ UNCHANGED <<end, clientVars, committed, handled, skipped, cut, restarts>>

\* Slip: the fetch position is committed, as auto-commit does.
Commit_Position(s) ==
    /\ done[s]
    /\ committed' = position
    /\ Release(s)
    /\ UNCHANGED <<end, clientVars, historyVars, restarts>>

\* CommitRecords: the group's offset becomes the one after this record, be it
\* ahead of records in flight or behind what was committed.
Commit(s) ==
    /\ done[s]
    /\ committed' = job[s] + 1
    /\ Release(s)
    /\ UNCHANGED <<end, clientVars, historyVars, restarts>>

\* The commit fails; its error is not looked at.
CommitFails(s) ==
    /\ MayFail
    /\ done[s]
    /\ Release(s)
    /\ UNCHANGED <<end, clientVars, committed, historyVars, restarts>>

\* The partition is taken away and given back: fetching resumes at the
\* committed offset while the handlers and the current batch go on.
Reassign ==
    /\ restarts < MaxRestarts
    /\ restarts' = restarts + 1
    /\ position' = committed
    /\ UNCHANGED <<end, cursor, last, slotVars, committed, historyVars>>

\* Slip: the consumer resumes at the partition's end.
Restart_AtEnd ==
    /\ restarts < MaxRestarts
    /\ restarts' = restarts + 1
    /\ position' = end /\ cursor' = end /\ last' = end
    /\ job' = [s \in Slot |-> Free]
    /\ tries' = [s \in Slot |-> 0]
    /\ done' = [s \in Slot |-> FALSE]
    /\ cut' = cut \union InFlight
    /\ UNCHANGED <<end, committed, handled, skipped, failed>>

\* The process dies, or stops without waiting for its handlers.
Restart ==
    /\ restarts < MaxRestarts
    /\ restarts' = restarts + 1
    /\ position' = committed /\ cursor' = committed /\ last' = committed
    /\ job' = [s \in Slot |-> Free]
    /\ tries' = [s \in Slot |-> 0]
    /\ done' = [s \in Slot |-> FALSE]
    /\ cut' = cut \union InFlight
    /\ UNCHANGED <<end, committed, handled, skipped, failed>>

Iterate == Skip \/ \E s \in Slot : Dispatch(s)

Handler(s) == Succeed(s) \/ TryAgain(s) \/ GiveUp(s)

Next ==
    \/ Append
    \/ Poll
    \/ Iterate
    \/ \E s \in Slot : Handler(s) \/ Commit(s) \/ CommitFails(s)
    \/ Reassign
    \/ Restart

\* The loop of Run polls and iterates without waiting; handlers end because
\* all they wait for has a deadline; a commit returns.
Fairness ==
    /\ WF_vars(Poll)
    /\ WF_vars(Iterate)
    /\ \A s \in Slot : WF_vars(Handler(s)) /\ WF_vars(Commit(s) \/ CommitFails(s))

Spec == Init /\ [][Next]_vars /\ Fairness

-----------------------------------------------------------------------------
\* The committed offset is always the one after a record that was handled: a
\* retry, a reassignment or a late commit never names anything else.
CommitNamesHandled == committed = 0 \/ committed - 1 \in handled

\* What becomes of a record that the group has passed.
Accounted == handled \union InFlight \union skipped \union failed \union cut

\* Commits overtake each other, yet a record below the committed offset is
\* lost to the group in three ways only: passed over, given up, or cut off in
\* its handler.  Any other is handled or in flight.
LossHasCause == \A o \in Offset : o < committed => o \in Accounted

\* Whatever has been polled lies inside the log.
WithinLog ==
    /\ cursor <= last /\ last <= end
    /\ position <= end /\ committed <= end
    /\ \A s \in Slot : job[s] # Free => job[s] < end
    /\ \A o \in handled : o < end

DoneIsHandled == \A s \in Slot : done[s] => job[s] # Free /\ job[s] \in handled

\* The records before the cursor, before a record in flight, or before the
\* fetch position and outside the rest of the batch, are accounted for: so a
\* commit, a reassignment and a restart all land after accounted records.
CursorIsAccounted   == \A o \in Offset : o < cursor => o \in Accounted
JobIsAccounted      ==
    \A s \in Slot : job[s] # Free => \A o \in Offset : o <= job[s] => o \in Accounted
PositionIsAccounted ==
    \A o \in Offset : o < position => o \in Accounted \/ (cursor <= o /\ o < last)

\* The inductive invariant of the consumer.
ConsumerInv ==
    /\ TypeOK
    /\ WithinLog
    /\ DoneIsHandled
    /\ CommitNamesHandled
    /\ LossHasCause
    /\ CursorIsAccounted
    /\ JobIsAccounted
    /\ PositionIsAccounted

\* No record is forgotten: through reassignments, rewound offsets and restarts
\* each is handled in the end, or meets one of the three ends above.  (For a
\* bounded number of records, none of which leaves its end again.)
EveryRecordEnds ==
    []<>(\A o \in Offset : o < end => o \in handled \union skipped \union failed \union cut)

\* A record that was passed over is taken up again.
SkippedIsRetried == \A o \in Offset : o \in skipped ~> o \in handled \union failed
=============================================================================
