----------------------------- MODULE OrderFeed -----------------------------
(***************************************************************************)
(* What the topic orders.commands promises to those who read it: a tick    *)
(* gives rise to one command, however often it is written, delivered or    *)
(* handled, and there is no command without a tick.  This is what makes a  *)
(* repeated command a rival of the first and not a second order.           *)
(***************************************************************************)
CONSTANT EventId    \* the event ids of ticks

VARIABLES
    ticks,      \* the event ids on market.ticks
    feed        \* the commands on orders.commands

CommandFor(e) == [event |-> e, order |-> <<"ord", e>>]

Init == ticks = {} /\ feed = {}

Arrive ==
    /\ \E e \in EventId : ticks' = ticks \union {e}
    /\ UNCHANGED feed

Order ==
    /\ \E e \in ticks : feed' = feed \union {CommandFor(e)}
    /\ UNCHANGED ticks

Spec == Init /\ [][Arrive \/ Order]_<<ticks, feed>>
=============================================================================
