----------------------------- MODULE MCVerifier -----------------------------
(* Small instances of the verification tool for TLC. *)
EXTENDS Verifier

CONSTANTS o1, o2

\* The first and the third event are of one order.
Repeated == [i \in Offset |-> IF i \in {0, 2} THEN o1 ELSE o2]
=============================================================================
