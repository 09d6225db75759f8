---------------------------- MODULE OrderLedger ----------------------------
(***************************************************************************)
(* What the pipeline promises of an order: it is decided once, by one      *)
(* command; it has at most one order event, the one of that command; and   *)
(* the event is published at least once after it is emitted, never before. *)
(* That a decided order is emitted at all is not promised.                 *)
(***************************************************************************)
EXTENDS Orders, Naturals

VARIABLES
    decided,    \* the command that decided an order
    emitted,    \* the event emitted for an order
    published   \* copies of the event that were published: 0, 1, or 2 for more

ledgerVars == <<decided, emitted, published>>

Init ==
    /\ decided = [o \in Order |-> None]
    /\ emitted = [o \in Order |-> None]
    /\ published = [o \in Order |-> 0]

Decide(c) ==
    /\ decided[c.order] = None
    /\ decided' = [decided EXCEPT ![c.order] = c]
    /\ UNCHANGED <<emitted, published>>

Emit(o) ==
    /\ decided[o] # None
    /\ emitted[o] = None
    /\ emitted' = [emitted EXCEPT ![o] = decided[o].event]
    /\ UNCHANGED <<decided, published>>

Deliver(o) ==
    /\ emitted[o] # None
    /\ published' \in {[published EXCEPT ![o] = n] : n \in published[o]..2}
    /\ UNCHANGED <<decided, emitted>>

Next ==
    \/ \E c \in Command : Decide(c)
    \/ \E o \in Order : Emit(o) \/ Deliver(o)

Spec == Init /\ [][Next]_ledgerVars
=============================================================================
