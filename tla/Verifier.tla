------------------------------ MODULE Verifier ------------------------------
(***************************************************************************)
(* The verification tool: a consumer whose handlers count the events of    *)
(* each order in one map, without a lock, until its time is up and the     *)
(* counts are judged.  The consumer is the one of module Consumer.         *)
(***************************************************************************)
EXTENDS Consumer

CONSTANTS
    Order,      \* order identifiers
    orderOf     \* the order of the event at each offset of orders.events

ASSUME OrderAssumption == orderOf \in [Offset -> Order]

VARIABLES
    orderCounts,    \* events counted for each order
    seen,           \* the count a handler has read and is about to raise by one
    consumed,       \* the offsets of the events whose count was written in this run
    verdict,        \* how the run has ended
    overwritten     \* a history variable: the orders of which a count was lost,
                    \* written by one handler between read and write of another

toolVars   == <<orderCounts, seen, consumed, verdict, overwritten>>
verifyVars == <<vars, toolVars>>

Verdict == {"running", "PASSED", "FAILED", "died"}

VerifyTypeOK ==
    /\ orderCounts \in [Order -> Nat]
    /\ seen \in [Slot -> Nat \union {Free}]
    /\ consumed \subseteq handled
    /\ verdict \in Verdict
    /\ overwritten \subseteq Order

VerifyInit ==
    /\ Init
    /\ orderCounts = [o \in Order |-> 0]
    /\ seen = [s \in Slot |-> Free]
    /\ consumed = {}
    /\ verdict = "running"
    /\ overwritten = {}

Running == verdict = "running"

-----------------------------------------------------------------------------
\* The consumer's own steps, while the tool runs; its handler never fails.
ClientStep ==
    /\ Running
    /\ \/ Append \/ Poll \/ Iterate \/ Reassign
       \/ \E s \in Slot : Commit(s)
    /\ UNCHANGED toolVars

\* orderCounts[event.OrderID]++ reads the count ...
ReadCount(s) ==
    /\ Running
    /\ Handling(s) /\ seen[s] = Free
    /\ seen' = [seen EXCEPT ![s] = orderCounts[orderOf[job[s]]]]
    /\ UNCHANGED <<vars, orderCounts, consumed, verdict, overwritten>>

\* The event counts as consumed, and its handler is done.
Counted(s) ==
    LET order == orderOf[job[s]]
    IN  /\ consumed' = consumed \union {job[s]}
        /\ overwritten' = overwritten \union (IF seen[s] = orderCounts[order] THEN {} ELSE {order})
        /\ Succeed(s)
        /\ UNCHANGED verdict

\* Slip: the count starts at one.
WriteCount_Twice(s) ==
    /\ Running
    /\ seen[s] # Free
    /\ orderCounts' = [orderCounts EXCEPT ![orderOf[job[s]]] = seen[s] + 2]
    /\ seen' = [seen EXCEPT ![s] = Free]
    /\ Counted(s)

\* ... and writes it back, one up.
WriteCount(s) ==
    /\ Running
    /\ seen[s] # Free
    /\ orderCounts' = [orderCounts EXCEPT ![orderOf[job[s]]] = seen[s] + 1]
    /\ seen' = [seen EXCEPT ![s] = Free]
    /\ Counted(s)

\* The Go runtime may notice that two goroutines are at the map, be they two
\* handlers or a handler and the loop that judges, and ends the process.
Die ==
    /\ Running
    /\ \E s \in Slot : seen[s] # Free
    /\ verdict' = "died"
    /\ UNCHANGED <<vars, orderCounts, seen, consumed, overwritten>>

\* Slip: an order may have two events.
Judge_Two ==
    /\ Running
    /\ verdict' = IF \E o \in Order : orderCounts[o] > 2 THEN "FAILED" ELSE "PASSED"
    /\ UNCHANGED <<vars, orderCounts, seen, consumed, overwritten>>

\* The time is up: the counts are judged as they are.
Judge ==
    /\ Running
    /\ verdict' = IF \E o \in Order : orderCounts[o] > 1 THEN "FAILED" ELSE "PASSED"
    /\ UNCHANGED <<vars, orderCounts, seen, consumed, overwritten>>

\* The tool is run again: a new map, and the group's committed offset.
RunAgain ==
    /\ ~Running
    /\ Restart
    /\ orderCounts' = [o \in Order |-> 0]
    /\ seen' = [s \in Slot |-> Free]
    /\ consumed' = {}
    /\ verdict' = "running"
    /\ overwritten' = {}

VerifyNext ==
    \/ ClientStep
    \/ \E s \in Slot : ReadCount(s) \/ WriteCount(s)
    \/ Die
    \/ Judge
    \/ RunAgain

VerifySpec == VerifyInit /\ [][VerifyNext]_verifyVars

-----------------------------------------------------------------------------
EventsOf(o, R) == {i \in R : orderOf[i] = o}

\* The run has missed the event: it has not come to it, has passed it over, left it
\* in a handler, or a run before it took it.
Missed(i) ==
    /\ i \notin consumed
    /\ \/ i >= cursor
       \/ i \in skipped
       \/ i \in InFlight
       \/ restarts > 0 /\ i \in handled \union cut

\* "Exit code: 0 if no duplicates".  PASSED with two events of one order on the
\* topic has one of two causes, however the handlers of a partition meet, finish
\* or move: the run has missed one of them, or it has lost a count of that very
\* order, because handlers share the map without a lock.
PassedHasCause ==
    verdict = "PASSED" => \A o \in Order :
        \/ Cardinality(EventsOf(o, 0..end - 1)) <= 1
        \/ o \in overwritten
        \/ \E i \in EventsOf(o, 0..end - 1) : Missed(i)

\* A verdict of FAILED is right, unless partitions have moved or the tool has
\* run before: some order has two events on the topic.  ("1 if duplicates found")
FailedHasDuplicate ==
    verdict = "FAILED" =>
        restarts > 0 \/ \E o \in Order : Cardinality(EventsOf(o, 0..end - 1)) > 1

-----------------------------------------------------------------------------
\* The inductive invariant from which both follow.

\* Only a handler at work has read a count.
SeenInHandler == \A s \in Slot : seen[s] # Free => Handling(s)

\* Its handler never fails, and what has been handled without having been consumed
\* was so in a run before.
HandledIsConsumed ==
    /\ failed = {}
    /\ restarts = 0 => handled = consumed /\ cut = {}

\* While nothing moves or restarts, the records go to the handlers in order and
\* each to one of them, once.
EachRecordOnce ==
    restarts = 0 =>
        /\ position = last
        /\ \A i \in consumed : i < cursor
        /\ \A s \in Slot : job[s] # Free =>
              /\ job[s] < cursor
              /\ ~done[s] => job[s] \notin consumed
              /\ \A t \in Slot : job[t] = job[s] => t = s

\* Then no count is above the events consumed: handlers that meet lose some.
CountsAtMost ==
    restarts = 0 =>
        /\ \A o \in Order : orderCounts[o] <= Cardinality(EventsOf(o, consumed))
        /\ \A s \in Slot : seen[s] # Free =>
              seen[s] <= Cardinality(EventsOf(orderOf[job[s]], consumed))

\* Nor is it below them, whatever moves or restarts, unless a count was lost.
CountsAtLeast ==
    \A o \in Order \ overwritten : Cardinality(EventsOf(o, consumed)) <= orderCounts[o]

VerdictIsOfCounts ==
    /\ verdict = "PASSED" => \A o \in Order : orderCounts[o] <= 1
    /\ verdict = "FAILED" => \E o \in Order : orderCounts[o] > 1

VerifierInv ==
    /\ ConsumerInv
    /\ VerifyTypeOK
    /\ SeenInHandler
    /\ HandledIsConsumed
    /\ EachRecordOnce
    /\ CountsAtMost
    /\ CountsAtLeast
    /\ VerdictIsOfCounts
=============================================================================
