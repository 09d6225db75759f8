--------------------------- MODULE MCCommandStore ---------------------------
(* Small instances of the idempotency store for TLC. *)
EXTENDS CommandStore

CONSTANTS o1, o2, e1, e2

\* Two commands for one order, and one for another order under an event id of
\* the first.
Commands3 == {[order |-> o1, event |-> e1], [order |-> o1, event |-> e2],
              [order |-> o2, event |-> e1]}
=============================================================================
