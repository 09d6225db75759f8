-------------------------- MODULE MCOrderExecutor --------------------------
(* Small instances of the order executor for TLC. *)
EXTENDS OrderExecutor

CONSTANTS o1, o2, e1, e2

Order1 == {o1}
Order2 == {o1, o2}

\* Two commands ask for the first order (a redelivery does so too); the third
\* is one that the handler rejects.
Rivals    == {[order |-> o1, event |-> e1], [order |-> o1, event |-> e2]}
Commands3 == Rivals \union {[order |-> o2, event |-> e1]}
=============================================================================
