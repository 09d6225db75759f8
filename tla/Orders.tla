------------------------------- MODULE Orders -------------------------------
(***************************************************************************)
(* The data the components exchange: orders, the command events that ask   *)
(* for them, and the faults a run may inject.                              *)
(***************************************************************************)
CONSTANTS
    Order,      \* order identifiers
    Event,      \* identifiers of the command events
    Command,    \* the order commands: an order and a command event each
    None,       \* no command, no event
    Faults      \* the faults that may happen

\* rpc: a call of the Raft service is lost or fails with its outcome unknown;
\* sqlite: a statement fails (the database is busy or the disk is full);
\* kafka: a produce fails or is repeated; crash: the process dies.
FaultKind == {"rpc", "sqlite", "kafka", "crash"}

ASSUME CommandAssumption == Command \subseteq [order : Order, event : Event]
ASSUME NoneAssumption    == None \notin Command /\ None \notin Event
ASSUME FaultAssumption   == Faults \subseteq FaultKind
=============================================================================
