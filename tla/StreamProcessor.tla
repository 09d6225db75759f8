-------------------------- MODULE StreamProcessor --------------------------
(***************************************************************************)
(* From market.ticks to orders.commands: the market ingestor writes a tick *)
(* every second, the demo producer may write there what is not a tick, and *)
(* the stream processor, a consumer of module Consumer, turns each tick    *)
(* into an order command whose ids are derived from the tick.              *)
(***************************************************************************)
EXTENDS Consumer

CONSTANTS
    Unreadable,     \* a record that is not a tick
    MaxCopies       \* bound: records that repeat a tick, and unreadable ones

ASSUME UnreadableAssumption == Unreadable \notin Nat
ASSUME CopyAssumption       == MaxCopies \in Nat

VARIABLES
    event,      \* the event id of the tick at each offset
    commands    \* what is on orders.commands

streamVars == <<vars, event, commands>>

\* A fresh event id is named by the offset at which it is first written.
EventId == Offset

Written == 0..end - 1
Ticks   == {event[o] : o \in Written} \ {Unreadable}
Copies  == {o \in Written : event[o] # o}

StreamTypeOK ==
    /\ TypeOK
    /\ event \in [Offset -> EventId \union {Unreadable}]
    /\ commands \subseteq [event : EventId, order : {"ord"} \X Offset]

StreamInit ==
    /\ Init
    /\ event = [o \in Offset |-> Unreadable]
    /\ commands = {}

-----------------------------------------------------------------------------
Write(e) ==
    /\ Append
    /\ event' = [event EXCEPT ![end] = e]
    /\ UNCHANGED commands

\* The ticker fires: a tick with a new id.  One that fails is not tried again.
Tick == Write(end)

\* The producer's writes are not idempotent: a tick is written once more, by a
\* retry of the client or by a request that was given up.
Repeat ==
    /\ Cardinality(Copies) < MaxCopies
    /\ \E e \in Ticks : Write(e)

\* The demo producer's orders, encoded twice, on the topic of the ticks.
WriteOther ==
    /\ Cardinality(Copies) < MaxCopies
    /\ Write(Unreadable)

-----------------------------------------------------------------------------
IsTick(o) == event[o] # Unreadable

\* Slip: the order is named by the record and not by the tick.
CommandOf_Record(o) == [event |-> event[o], order |-> <<"ord", o>>]

\* Both ids come from the tick.
CommandOf(o) == [event |-> event[o], order |-> <<"ord", event[o]>>]

Sent(s) == CommandOf(job[s]) \in commands

\* ProduceJSON: the broker has the command; its answer may still be lost, and
\* the process may stop before it arrives.
Produce(s) ==
    /\ Handling(s) /\ IsTick(job[s])
    /\ commands' = commands \union {CommandOf(job[s])}
    /\ UNCHANGED <<vars, event>>

\* Slip: the error of ProduceJSON is logged and not returned.
Handled_Unsent(s) ==
    /\ Succeed(s)
    /\ IsTick(job[s])
    /\ UNCHANGED <<event, commands>>

\* The handler returns nil after the broker's answer ...
Handled(s) ==
    /\ Succeed(s)
    /\ IsTick(job[s]) /\ Sent(s)
    /\ UNCHANGED <<event, commands>>

\* ... or an error: the record is no tick, or the produce has failed, be the
\* command written or not.
HandlerFails(s) ==
    /\ TryAgain(s) \/ GiveUp(s)
    /\ UNCHANGED <<event, commands>>

\* A goroutine from the answer of the broker to the end of its commit.
SlotStep(s) ==
    \/ Handled(s) \/ HandlerFails(s)
    \/ (Commit(s) \/ CommitFails(s)) /\ UNCHANGED <<event, commands>>

ConsumerStep ==
    /\ Poll \/ Iterate \/ Reassign \/ Restart
    /\ UNCHANGED <<event, commands>>

StreamNext ==
    \/ Tick \/ Repeat \/ WriteOther
    \/ \E s \in Slot : Produce(s) \/ SlotStep(s)
    \/ ConsumerStep

\* As in Consumer; the wait for the broker has a deadline of five seconds.
StreamFairness ==
    /\ WF_streamVars((Poll \/ Iterate) /\ UNCHANGED <<event, commands>>)
    /\ \A s \in Slot : WF_streamVars(SlotStep(s))

StreamSpec == StreamInit /\ [][StreamNext]_streamVars /\ StreamFairness

-----------------------------------------------------------------------------
\* A tick below the group's offset whose command is not on orders.commands was
\* passed over, given up, or is or was cut off in its handler; one that is
\* skipped, fails or is cut may have its command there all the same.
TickLossHasCause ==
    \A o \in Offset : o < committed /\ IsTick(o) /\ CommandOf(o) \notin commands =>
        o \in InFlight \union skipped \union failed \union cut

\* A record that was handled is a tick, and its command is on the topic.
HandledIsSent == \A o \in handled : IsTick(o) /\ CommandOf(o) \in commands

\* The inductive invariant of the stream processor.
StreamInv ==
    /\ StreamTypeOK
    /\ ConsumerInv
    /\ HandledIsSent

\* One command for each tick, the same at every repetition and redelivery, and
\* none without a tick.  ("Stable: derived from tick event_id")
Feed == INSTANCE OrderFeed WITH ticks <- Ticks, feed <- commands
ImplementsFeed == Feed!Spec
=============================================================================
