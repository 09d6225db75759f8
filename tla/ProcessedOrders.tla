-------------------------- MODULE ProcessedOrders --------------------------
(***************************************************************************)
(* What the Raft service promises to a caller of raftnode.Client: a ledger *)
(* of processed orders in which the first command committed for an order   *)
(* wins, and an answer that may be refused, lost or late.  The cluster     *)
(* behind the promise (log, replicas, snapshots) is not here.              *)
(*                                                                         *)
(* A call is one Client.Apply.  It makes several attempts; an attempt that *)
(* fails may leave its command in some leader's log, where it can still be *)
(* committed after the caller has stopped waiting: an orphan.              *)
(***************************************************************************)
EXTENDS Orders, Naturals

CONSTANTS
    Caller,         \* goroutines that call the Raft service
    MaxAttempts     \* attempts of one Client.Apply (maxRetries)

ASSUME AttemptAssumption == MaxAttempts \in Nat \ {0}

VARIABLES
    ledger,     \* FSM.processed as committed: the winning command of an order
    orphans,    \* commands nobody waits for that may still be committed
    cmd,        \* the command a caller is handling
    call,       \* where the caller's Client.Apply stands
    attempt     \* attempts it has made

raftVars == <<ledger, orphans, cmd, call, attempt>>

CallState == {"none", "pending", "applied", "duplicate", "retry", "error"}

RaftTypeOK ==
    /\ ledger \in [Order -> Command \union {None}]
    /\ orphans \subseteq Command
    /\ cmd \in [Caller -> Command \union {None}]
    /\ call \in [Caller -> CallState]
    /\ attempt \in [Caller -> 0..MaxAttempts]

RaftInit ==
    /\ ledger = [o \in Order |-> None]
    /\ orphans = {}
    /\ cmd = [p \in Caller |-> None]
    /\ call = [p \in Caller |-> "none"]
    /\ attempt = [p \in Caller |-> 0]

-----------------------------------------------------------------------------
Decided(o) == ledger[o] # None

\* Slip: the last command wins.
Upsert_LastWins(c) ==
    /\ ledger' = [ledger EXCEPT ![c.order] = c]
    /\ orphans' = {d \in orphans : d.order # c.order}

\* FSM.Apply: an upsert of a known order keeps the existing record.
Upsert(c) ==
    /\ ledger' = IF Decided(c.order) THEN ledger
                 ELSE [ledger EXCEPT ![c.order] = c]
    /\ orphans' = {d \in orphans : d.order # c.order}

\* Slip: the duplicate flag of the result is not looked at.
Outcome_NoFlag(c) == "applied"

\* What UpsertResult.Duplicate makes of the answer.
Outcome(c) == IF Decided(c.order) THEN "duplicate" ELSE "applied"

\* A command whose outcome its caller does not learn is lost, or lingers.
\* Once the order is decided it is no longer worth remembering.
Abandon(C) ==
    \E D \in SUBSET {c \in C : ~Decided(c.order)} : orphans' = orphans \union D

-----------------------------------------------------------------------------
\* The caller enters Client.Apply and the first attempt is on its way.
Begin(p, c) ==
    /\ call[p] = "none"
    /\ cmd' = [cmd EXCEPT ![p] = c]
    /\ call' = [call EXCEPT ![p] = "pending"]
    /\ attempt' = [attempt EXCEPT ![p] = 1]
    /\ UNCHANGED <<ledger, orphans>>

\* The leader commits and applies the command, and answers.
Commit(p) ==
    /\ call[p] = "pending"
    /\ Upsert(cmd[p])
    /\ call' = [call EXCEPT ![p] = Outcome(cmd[p])]
    /\ UNCHANGED <<cmd, attempt>>

\* The node is not the leader: nothing is proposed.
Refuse(p) ==
    /\ call[p] = "pending"
    /\ call' = [call EXCEPT ![p] = "retry"]
    /\ UNCHANGED <<ledger, orphans, cmd, attempt>>

\* The attempt fails with its outcome unknown: "apply failed" or a retryable
\* status (retry), or a status that Client.Apply gives up on (error).
Lose(p) ==
    /\ "rpc" \in Faults
    /\ call[p] \in {"pending", "applied", "duplicate"}
    /\ \E s \in {"retry", "error"} : call' = [call EXCEPT ![p] = s]
    /\ IF call[p] = "pending" THEN Abandon({cmd[p]}) ELSE UNCHANGED orphans
    /\ UNCHANGED <<ledger, cmd, attempt>>

\* A further attempt, after a backoff, at the same or another node.
Retry(p) ==
    /\ call[p] = "retry"
    /\ attempt[p] < MaxAttempts
    /\ call' = [call EXCEPT ![p] = "pending"]
    /\ attempt' = [attempt EXCEPT ![p] = @ + 1]
    /\ UNCHANGED <<ledger, orphans, cmd>>

\* Client.Apply returns an error, or an acknowledgement that is not applied.
GaveUp(p) == call[p] = "error" \/ (call[p] = "retry" /\ attempt[p] = MaxAttempts)

Finished(p) == call[p] \in {"applied", "duplicate"} \/ GaveUp(p)

\* The caller forgets the call.
Return(p) ==
    /\ call' = [call EXCEPT ![p] = "none"]
    /\ cmd' = [cmd EXCEPT ![p] = None]
    /\ attempt' = [attempt EXCEPT ![p] = 0]
    /\ UNCHANGED <<ledger, orphans>>

\* An orphan is committed after all.
CommitOrphan ==
    /\ \E c \in orphans : Upsert(c)
    /\ UNCHANGED <<cmd, call, attempt>>

\* Read is served by one replica from its own, possibly stale, FSM: an order
\* is found only if it is decided, and may be missed at any time.
ReadFound(o) == Decided(o)

\* The callers' process dies with its calls.
CallersCrash ==
    /\ Abandon({cmd[p] : p \in {q \in Caller : call[q] = "pending"}})
    /\ cmd' = [p \in Caller |-> None]
    /\ call' = [p \in Caller |-> "none"]
    /\ attempt' = [p \in Caller |-> 0]
    /\ UNCHANGED ledger

-----------------------------------------------------------------------------
RaftNext ==
    \/ \E p \in Caller, c \in Command : Begin(p, c)
    \/ \E p \in Caller : Commit(p) \/ Refuse(p) \/ Lose(p) \/ Retry(p)
    \/ \E p \in Caller : Finished(p) /\ Return(p)
    \/ CommitOrphan
    \/ CallersCrash

RaftSpec == RaftInit /\ [][RaftNext]_raftVars
=============================================================================
