---------------------------- MODULE NodeProcess ----------------------------
(***************************************************************************)
(* The process around a Raft node: its main function from the start of the *)
(* servers to the end, what its health endpoints say meanwhile, and the    *)
(* failure injection, MaybeDelay and MaybeDrop, that every call of the     *)
(* service passes.  Each of them tests first and then waits for the lock   *)
(* of the generator that all calls draw from; a number that is drawn is    *)
(* any number.  What a call does after that is the subject of RaftCluster  *)
(* and Membership.                                                         *)
(***************************************************************************)
EXTENDS Integers

CONSTANTS
    Caller,         \* calls the server works on at the same time
    Setting,        \* what the environment may set
    Profile,        \* the profiles it may name
    Roll,           \* what Intn(100) may return
    MaxCalls        \* bound: calls that arrive

ASSUME RollAssumption == Roll \subseteq 0..99 /\ Roll # {}
ASSUME CallAssumption == MaxCalls \in Nat

\* Neither the environment nor the profile is checked for its range or sign.
ASSUME SettingAssumption ==
    Setting \subseteq [Enabled : BOOLEAN, Targeted : BOOLEAN, Window : BOOLEAN,
                      ExitOnLeader : BOOLEAN, DropPct : Int, DelayMsMin : Int, DelayMsMax : Int]
ASSUME ProfileAssumption ==
    Profile \subseteq [bad : BOOLEAN, DropPct : Int, DelayMsMin : Int, DelayMsMax : Int]

VARIABLES
    given,      \* the setting and the profile of this process
    expired,    \* the window of the failure injection is over
    atEnd,      \* a history variable: what had become of a call by then
    begun,      \* calls that have arrived
    pc,         \* where a call stands
    answer,     \* what became of it
    main,       \* the next step of main, or how the process has ended
    http,       \* the HTTP server
    ready,      \* HealthChecker.ready; the gRPC health status changes with it
    watched     \* a client watches the gRPC health service

chaosVars == <<given, expired, atEnd>>
callVars  == <<begun, pc, answer>>
mainVars  == <<main, http, ready, watched>>
vars == <<chaosVars, callVars, mainVars>>

Ended == {"exited", "panicked", "died"}

PC     == {"idle", "delay", "draw delay", "sleep", "drop", "draw drop", "work"}
Answer == {"none", "served", "dropped", "late"}

TypeOK ==
    /\ given \in [env : Setting, profile : Profile]
    /\ expired \in BOOLEAN
    /\ atEnd \in [Caller -> PC \union Answer]
    /\ begun \in 0..MaxCalls
    /\ pc \in [Caller -> PC]
    /\ answer \in [Caller -> Answer]
    /\ main \in {"serve", "raft", "health", "grpc", "deferred"} \union Ended
    /\ http \in {"starting", "listening", "closed", "failed"}
    /\ ready \in BOOLEAN /\ watched \in BOOLEAN

Init ==
    /\ given \in [env : Setting, profile : Profile]
    /\ expired = FALSE
    /\ atEnd = [c \in Caller |-> "none"]
    /\ begun = 0
    /\ pc = [c \in Caller |-> "idle"]
    /\ answer = [c \in Caller |-> "none"]
    /\ main = "serve" /\ http = "starting" /\ ready = TRUE /\ watched = FALSE

Alive == main \notin Ended

-----------------------------------------------------------------------------
(* Failure injection.  In a setting, Targeted says that the target is this *)
(* node, or that none is named.                                            *)

\* Slip: each end of the delay is replaced on its own.
New_EachEnd(env, p) ==
    IF p.bad THEN env
    ELSE [env EXCEPT !.DropPct    = IF p.DropPct > 0 THEN p.DropPct ELSE @,
                     !.DelayMsMin = IF p.DelayMsMin > 0 THEN p.DelayMsMin ELSE @,
                     !.DelayMsMax = IF p.DelayMsMax > 0 THEN p.DelayMsMax ELSE @]

\* New: the positive values of a profile replace those of the environment, the
\* two ends of the delay together; a profile with a bad part is ignored.
New(env, p) ==
    LET delays == p.DelayMsMin > 0 \/ p.DelayMsMax > 0
    IN  IF p.bad THEN env
        ELSE [env EXCEPT !.DropPct    = IF p.DropPct > 0 THEN p.DropPct ELSE @,
                         !.DelayMsMin = IF delays THEN p.DelayMsMin ELSE @,
                         !.DelayMsMax = IF delays THEN p.DelayMsMax ELSE @]

cfg == New(given.env, given.profile)

\* Slip: the target is not compared with the node.
EnabledFor_All == cfg.Enabled /\ ~(cfg.Window /\ expired)

EnabledFor == cfg.Enabled /\ ~(cfg.Window /\ expired) /\ cfg.Targeted

\* Slip: the range alone is asked for.
Delays_Anyway == ~(cfg.DelayMsMin = 0 /\ cfg.DelayMsMax = 0)

Delays == EnabledFor /\ ~(cfg.DelayMsMin = 0 /\ cfg.DelayMsMax = 0)
Drops  == EnabledFor /\ cfg.DropPct # 0

Expire ==
    /\ Alive /\ cfg.Window /\ ~expired
    /\ expired' = TRUE
    /\ atEnd' = [c \in Caller |-> IF pc[c] = "idle" THEN answer[c] ELSE pc[c]]
    /\ UNCHANGED <<given, callVars, mainVars>>

-----------------------------------------------------------------------------
(* A call: Apply, Read or Join.                                            *)

Goto(c, s)  == pc' = [pc EXCEPT ![c] = s]
Become(c, a) == answer' = [answer EXCEPT ![c] = a]

\* GracefulStop accepts no more calls.
Arrive(c) ==
    /\ Alive /\ main \notin {"grpc", "deferred"}
    /\ pc[c] = "idle" /\ begun < MaxCalls
    /\ begun' = begun + 1
    /\ Goto(c, "delay")
    /\ Become(c, "none")
    /\ atEnd' = [atEnd EXCEPT ![c] = "none"]
    /\ UNCHANGED <<given, expired, mainVars>>

\* MaybeDelay: is the call to be held up?
MaybeDelay(c) ==
    /\ Alive /\ pc[c] = "delay"
    /\ Goto(c, IF Delays THEN "draw delay" ELSE "drop")
    /\ UNCHANGED <<chaosVars, begun, answer, mainVars>>

\* The delay is fixed, or drawn from its range.
DrawDelay(c) ==
    /\ Alive /\ pc[c] = "draw delay"
    /\ \E ms \in cfg.DelayMsMin..cfg.DelayMsMax : Goto(c, IF ms > 0 THEN "sleep" ELSE "drop")
    /\ UNCHANGED <<chaosVars, begun, answer, mainVars>>

\* The range is empty: Intn panics, and the process dies with all its calls.
Panic(c) ==
    /\ Alive /\ pc[c] = "draw delay"
    /\ cfg.DelayMsMax - cfg.DelayMsMin + 1 <= 0
    /\ main' = "died"
    /\ UNCHANGED <<chaosVars, callVars, http, ready, watched>>

\* The delay ends, or the deadline of the call comes first.
Sleep(c) ==
    /\ Alive /\ pc[c] = "sleep"
    /\ \/ Goto(c, "drop") /\ UNCHANGED answer
       \/ Goto(c, "idle") /\ Become(c, "late")
    /\ UNCHANGED <<chaosVars, begun, mainVars>>

\* Slip: the switch and the target are asked again, the clock is not.
MaybeDrop_OldTest(c) ==
    /\ Alive /\ pc[c] = "drop"
    /\ Goto(c, IF cfg.Enabled /\ cfg.Targeted /\ cfg.DropPct # 0 THEN "draw drop" ELSE "work")
    /\ UNCHANGED <<chaosVars, begun, answer, mainVars>>

\* MaybeDrop: may the call be dropped?
MaybeDrop(c) ==
    /\ Alive /\ pc[c] = "drop"
    /\ Goto(c, IF Drops THEN "draw drop" ELSE "work")
    /\ UNCHANGED <<chaosVars, begun, answer, mainVars>>

\* The number drawn decides.
DrawDrop(c) ==
    /\ Alive /\ pc[c] = "draw drop"
    /\ \E r \in Roll :
          IF r < cfg.DropPct THEN Goto(c, "idle") /\ Become(c, "dropped")
                             ELSE Goto(c, "work") /\ UNCHANGED answer
    /\ UNCHANGED <<chaosVars, begun, mainVars>>

\* The node answers, be it that it does not lead or was shut down.
Serve(c) ==
    /\ Alive /\ pc[c] = "work"
    /\ Goto(c, "idle")
    /\ Become(c, "served")
    /\ UNCHANGED <<chaosVars, begun, mainVars>>

CallStep(c) ==
    \/ MaybeDelay(c) \/ DrawDelay(c) \/ Panic(c) \/ Sleep(c)
    \/ MaybeDrop(c) \/ DrawDrop(c) \/ Serve(c)

-----------------------------------------------------------------------------
(* main, its HTTP server and the clients of its health service.            *)

Next_(from, to) == main = from /\ main' = to

\* The HTTP server listens, or its port is taken.
Listen ==
    /\ Alive /\ http = "starting"
    /\ http' \in {"listening", "failed"}
    /\ UNCHANGED <<chaosVars, callVars, main, ready, watched>>

\* The select of main returns with a signal ...
Signal ==
    /\ Next_("serve", "raft")
    /\ UNCHANGED <<chaosVars, callVars, http, ready, watched>>

\* Slip: the channel with the error of the HTTP server is not read.
Wake_Never ==
    /\ FALSE
    /\ UNCHANGED vars

\* ... or with the error of a server.
Wake ==
    /\ http = "failed"
    /\ Next_("serve", "raft")
    /\ UNCHANGED <<chaosVars, callVars, http, ready, watched>>

\* raftNode.Shutdown: from here on the node answers calls without Raft.
ShutdownRaft ==
    /\ Next_("raft", "health")
    /\ UNCHANGED <<chaosVars, callVars, http, ready, watched>>

\* Slip: nothing is done before the HTTP server has been made.
ShutdownHealth_NotReady ==
    /\ Next_("health", "grpc")
    /\ ready' = (http = "starting")
    /\ http' = IF http = "listening" THEN "closed" ELSE http
    /\ UNCHANGED <<chaosVars, callVars, watched>>

\* HealthChecker.Shutdown.  An HTTP server that its goroutine has not made yet
\* is missed and comes up later.
ShutdownHealth ==
    /\ Next_("health", "grpc")
    /\ ready' = FALSE
    /\ http' \in CASE http = "listening" -> {"closed"}
                   [] http = "starting"  -> {"starting", "closed"}
                   [] OTHER              -> {http}
    /\ UNCHANGED <<chaosVars, callVars, watched>>

\* GracefulStop waits for the calls in progress, a Watch among them.
GracefulStop ==
    /\ ~watched /\ \A c \in Caller : pc[c] = "idle"
    /\ Next_("grpc", "deferred")
    /\ UNCHANGED <<chaosVars, callVars, http, ready, watched>>

\* The deferred raftNode.Shutdown closes a channel that is closed already.
ShutdownAgain ==
    /\ Next_("deferred", "panicked")
    /\ UNCHANGED <<chaosVars, callVars, http, ready, watched>>

\* monitorLeadership ends the process some time after the node was elected,
\* whether failure injection is enabled or not.
ExitOnLeader ==
    /\ Alive /\ cfg.ExitOnLeader
    /\ main' = "exited"
    /\ UNCHANGED <<chaosVars, callVars, http, ready, watched>>

\* A Watch of the gRPC health service begins, or its client ends it.
Watch ==
    /\ Alive
    /\ watched \/ main \notin {"grpc", "deferred"}
    /\ watched' = ~watched
    /\ UNCHANGED <<chaosVars, callVars, main, http, ready>>

MainStep == Wake \/ ShutdownRaft \/ ShutdownHealth \/ GracefulStop \/ ShutdownAgain

Next ==
    \/ Expire
    \/ \E c \in Caller : Arrive(c) \/ CallStep(c)
    \/ Listen \/ Signal \/ MainStep \/ ExitOnLeader \/ Watch

\* Goroutines run, and whatever a call waits for has a deadline.  Nothing is
\* assumed of operators, callers and clients of the health service.
Fairness ==
    /\ WF_vars(MainStep)
    /\ \A c \in Caller : WF_vars(CallStep(c))

Spec == Init /\ [][Next]_vars /\ Fairness

-----------------------------------------------------------------------------
\* Failure injection has to be asked for, and may be aimed at one node: without
\* the switch, or on another node, no call is held up, dropped or fatal, whatever
\* else is set.  What the switch does not govern is CHAOS_EXIT_ON_LEADER: with it,
\* and only with it, the process ends by itself, injection enabled or not.
OptIn ==
    /\ ~cfg.Enabled \/ ~cfg.Targeted =>
           main # "died" /\ \A c \in Caller : answer[c] \in {"none", "served"}
    /\ main = "exited" => cfg.ExitOnLeader

\* The end of the window reaches the calls in progress: of those that go on or
\* arrive after it, none is dropped but one that MaybeDrop had let through to the
\* lock, and none misses its deadline asleep but one that was held up already.
WindowEnds ==
    expired => \A c \in Caller :
        /\ answer[c] = "dropped" => atEnd[c] \in {"dropped", "draw drop"}
        /\ answer[c] = "late" => atEnd[c] \in {"late", "sleep", "draw delay"}

Proper(range) == range.DelayMsMin <= range.DelayMsMax

\* A delay brings the process down only if the environment or the profile names
\* a range that is empty: two proper ones never make an empty one.
ProperRangesAreSafe ==
    Proper(given.env) /\ Proper(given.profile) => main # "died"

\* handleHealthz, for a service that does not use Kafka.
healthz == http = "listening" /\ ready

\* A process on its way out is not taken for a healthy one from the shutdown of
\* its health checker on, though its HTTP server may come up after that.
StoppedIsNotHealthy == main \in {"grpc", "deferred", "panicked"} => ~healthz

\* Once main is told to stop, or a server has failed, it gets through its
\* shutdown to the deferred calls, or is cut off: GracefulStop has no deadline,
\* but calls that sleep, are dropped or are answered without Raft do not hold it
\* up.  Only the client of a Watch that never ends does.
StopGetsThrough ==
    <>[]~watched =>
        (main # "serve" \/ http = "failed" ~> main \in {"deferred"} \union Ended)

\* "Graceful shutdown": a process that is told to stop does not end in a panic.
\* The code breaks it: the deferred Shutdown of the Raft node is its second.
StopsWithoutPanic == main # "panicked"

-----------------------------------------------------------------------------
\* The inductive invariant from which the safety properties follow.

\* A call has an outcome when it is over, and not before.
OpenCalls == \A c \in Caller : pc[c] # "idle" => answer[c] = "none"

\* A process that injects nothing lets no call through to the lock.
Injected == {"draw delay", "sleep", "draw drop"}

NoneInjected ==
    ~cfg.Enabled \/ ~cfg.Targeted => \A c \in Caller : pc[c] \notin Injected

\* Where a call may stand after the window that ended when it stood elsewhere.
OldCalls ==
    expired => \A c \in Caller :
        /\ cfg.Window
        /\ pc[c] = "draw drop" => atEnd[c] = "draw drop"
        /\ pc[c] = "draw delay" => atEnd[c] = "draw delay"
        /\ pc[c] = "sleep" => atEnd[c] \in {"sleep", "draw delay"}

StoppedIsNotReady == main \in {"grpc", "deferred", "panicked"} => ~ready

NodeInv ==
    /\ TypeOK
    /\ OptIn
    /\ OpenCalls
    /\ NoneInjected
    /\ WindowEnds
    /\ OldCalls
    /\ ProperRangesAreSafe
    /\ StoppedIsNotReady
=============================================================================
