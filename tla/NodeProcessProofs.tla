------------------------- MODULE NodeProcessProofs -------------------------
(***************************************************************************)
(* Proofs about the process of a Raft node and its failure injection, for  *)
(* every number of calls and every setting and profile, of any sign.       *)
(***************************************************************************)
EXTENDS NodeProcess, TLAPS

\* What is known of the configuration that New has made.
LEMMA CfgFacts ==
  ASSUME given \in [env : Setting, profile : Profile]
  PROVE  /\ cfg.Enabled = given.env.Enabled /\ cfg.Targeted = given.env.Targeted
         /\ cfg.Enabled \in BOOLEAN /\ cfg.Targeted \in BOOLEAN /\ cfg.Window \in BOOLEAN
         /\ cfg.DropPct \in Int /\ cfg.DelayMsMin \in Int /\ cfg.DelayMsMax \in Int
         /\ Proper(given.env) /\ Proper(given.profile) => Proper(cfg)
<1>1. /\ given.env \in [Enabled : BOOLEAN, Targeted : BOOLEAN, Window : BOOLEAN,
                        ExitOnLeader : BOOLEAN, DropPct : Int, DelayMsMin : Int, DelayMsMax : Int]
      /\ given.profile \in [bad : BOOLEAN, DropPct : Int, DelayMsMin : Int, DelayMsMax : Int]
  BY SettingAssumption, ProfileAssumption
<1>2. /\ cfg \in [Enabled : BOOLEAN, Targeted : BOOLEAN, Window : BOOLEAN,
                  ExitOnLeader : BOOLEAN, DropPct : Int, DelayMsMin : Int, DelayMsMax : Int]
      /\ cfg.Enabled = given.env.Enabled /\ cfg.Targeted = given.env.Targeted
  BY <1>1 DEF cfg, New
<1>3. Proper(given.env) /\ Proper(given.profile) => Proper(cfg)
  BY <1>1 DEF cfg, New, Proper
<1>. QED  BY <1>2, <1>3

\* Nothing has happened yet.
LEMMA InitNode == Init => NodeInv
<1> SUFFICES ASSUME Init PROVE NodeInv
  OBVIOUS
<1>1. TypeOK
  <2>1. begun \in 0..MaxCalls
    BY CallAssumption DEF Init
  <2>2. /\ pc \in [Caller -> PC] /\ answer \in [Caller -> Answer]
        /\ atEnd \in [Caller -> PC \union Answer]
    BY DEF Init, PC, Answer
  <2>. QED  BY <2>1, <2>2 DEF Init, TypeOK
<1>2. /\ OptIn /\ OpenCalls /\ NoneInjected /\ WindowEnds /\ OldCalls
      /\ ProperRangesAreSafe /\ StoppedIsNotReady
  BY DEF Init, OptIn, OpenCalls, NoneInjected, Injected, WindowEnds, OldCalls,
         ProperRangesAreSafe, StoppedIsNotReady
<1>. QED  BY <1>1, <1>2 DEF NodeInv

-----------------------------------------------------------------------------
\* The steps of main, of the HTTP server and of the clients of its health
\* service: they touch no call, only CHAOS_EXIT_ON_LEADER makes them end the
\* process, and no step sets ready again.
LEMMA MainInv ==
  ASSUME NodeInv, Listen \/ Signal \/ MainStep \/ ExitOnLeader \/ Watch
  PROVE  NodeInv'
<1>1. UNCHANGED <<chaosVars, callVars>>
  BY DEF Listen, Signal, MainStep, Wake, ShutdownRaft, ShutdownHealth, GracefulStop,
         ShutdownAgain, ExitOnLeader, Watch
<1>2. given' = given /\ cfg' = cfg
  BY <1>1 DEF cfg, chaosVars
<1>3. /\ \/ main' = main \/ main' \notin {"died", "exited"}
         \/ main' = "exited" /\ cfg.ExitOnLeader
      /\ main' \in {"grpc", "deferred", "panicked"} => ~ready' \/
              (main \in {"grpc", "deferred", "panicked"} /\ ready' = ready)
  BY DEF Listen, Signal, MainStep, Wake, ShutdownRaft, ShutdownHealth, GracefulStop,
         ShutdownAgain, ExitOnLeader, Watch, Next_
<1>4. TypeOK'
  <2>1. /\ main' \in {"serve", "raft", "health", "grpc", "deferred"} \union Ended
        /\ http' \in {"starting", "listening", "closed", "failed"}
        /\ ready' \in BOOLEAN /\ watched' \in BOOLEAN
    BY DEF NodeInv, TypeOK, Listen, Signal, MainStep, Wake, ShutdownRaft, ShutdownHealth,
           GracefulStop, ShutdownAgain, ExitOnLeader, Watch, Next_, Ended
  <2>. QED  BY <1>1, <2>1 DEF NodeInv, TypeOK, chaosVars, callVars
<1>5. OptIn' /\ ProperRangesAreSafe' /\ StoppedIsNotReady'
  BY <1>1, <1>2, <1>3 DEF NodeInv, OptIn, ProperRangesAreSafe, StoppedIsNotReady, callVars
<1>6. OpenCalls' /\ NoneInjected' /\ WindowEnds' /\ OldCalls'
  BY <1>1, <1>2 DEF NodeInv, OpenCalls, NoneInjected, WindowEnds, OldCalls, chaosVars, callVars
<1>. QED  BY <1>4, <1>5, <1>6 DEF NodeInv

\* The window ends: every call is where the history variable says.
LEMMA ExpireInv ==
  ASSUME NodeInv, Expire
  PROVE  NodeInv'
<1>1. /\ given' = given /\ cfg' = cfg /\ cfg.Window /\ UNCHANGED <<callVars, mainVars>>
      /\ expired' = TRUE
      /\ atEnd' = [c \in Caller |-> IF pc[c] = "idle" THEN answer[c] ELSE pc[c]]
  BY DEF Expire, cfg
<1>2. TypeOK'
  <2>1. atEnd' \in [Caller -> PC \union Answer]
    BY <1>1 DEF NodeInv, TypeOK
  <2>. QED  BY <1>1, <2>1 DEF NodeInv, TypeOK, callVars, mainVars
<1>3. /\ OptIn' /\ OpenCalls' /\ NoneInjected' /\ ProperRangesAreSafe' /\ StoppedIsNotReady'
  BY <1>1 DEF NodeInv, OptIn, OpenCalls, NoneInjected, ProperRangesAreSafe, StoppedIsNotReady,
              callVars, mainVars
<1>4. WindowEnds' /\ OldCalls'
  BY <1>1 DEF NodeInv, OpenCalls, WindowEnds, OldCalls, callVars
<1>. QED  BY <1>2, <1>3, <1>4 DEF NodeInv

-----------------------------------------------------------------------------
\* A call arrives.
LEMMA ArriveInv ==
  ASSUME NodeInv, NEW c \in Caller, Arrive(c)
  PROVE  NodeInv'
<1>1. /\ given' = given /\ cfg' = cfg /\ UNCHANGED <<expired, mainVars>>
      /\ begun < MaxCalls /\ begun' = begun + 1
      /\ pc' = [pc EXCEPT ![c] = "delay"]
      /\ answer' = [answer EXCEPT ![c] = "none"]
      /\ atEnd' = [atEnd EXCEPT ![c] = "none"]
  BY DEF Arrive, Goto, Become, cfg
<1>2. TypeOK'
  <2>1. begun' \in 0..MaxCalls
    BY <1>1, CallAssumption DEF NodeInv, TypeOK
  <2>2. /\ pc' \in [Caller -> PC] /\ answer' \in [Caller -> Answer]
        /\ atEnd' \in [Caller -> PC \union Answer]
    BY <1>1 DEF NodeInv, TypeOK, PC, Answer
  <2>. QED  BY <1>1, <2>1, <2>2 DEF NodeInv, TypeOK, mainVars
<1>3. /\ pc'[c] = "delay" /\ answer'[c] = "none" /\ atEnd'[c] = "none"
      /\ \A d \in Caller \ {c} : pc'[d] = pc[d] /\ answer'[d] = answer[d] /\ atEnd'[d] = atEnd[d]
  BY <1>1 DEF NodeInv, TypeOK
<1>4. OptIn' /\ ProperRangesAreSafe' /\ StoppedIsNotReady'
  BY <1>1, <1>3 DEF NodeInv, OptIn, ProperRangesAreSafe, StoppedIsNotReady, mainVars
<1>5. OpenCalls' /\ NoneInjected'
  BY <1>1, <1>3 DEF NodeInv, OpenCalls, NoneInjected, Injected
<1>6. ASSUME expired', NEW d \in Caller
      PROVE  /\ cfg'.Window
             /\ answer'[d] = "dropped" => atEnd'[d] \in {"dropped", "draw drop"}
             /\ answer'[d] = "late" => atEnd'[d] \in {"late", "sleep", "draw delay"}
             /\ pc'[d] = "draw drop" => atEnd'[d] = "draw drop"
             /\ pc'[d] = "draw delay" => atEnd'[d] = "draw delay"
             /\ pc'[d] = "sleep" => atEnd'[d] \in {"sleep", "draw delay"}
  <2>1. expired
    BY <1>1, <1>6
  <2>2. CASE d = c
    <3>1. cfg' = cfg /\ cfg.Window
      BY <1>1, <2>1 DEF NodeInv, OldCalls
    <3>. QED  BY <1>3, <2>2, <3>1
  <2>3. CASE d # c
    <3>1. /\ pc'[d] = pc[d] /\ answer'[d] = answer[d] /\ atEnd'[d] = atEnd[d]
          /\ cfg' = cfg
      BY <1>1, <1>3, <2>3
    <3>2. /\ cfg.Window
          /\ pc[d] = "draw drop" => atEnd[d] = "draw drop"
          /\ pc[d] = "draw delay" => atEnd[d] = "draw delay"
          /\ pc[d] = "sleep" => atEnd[d] \in {"sleep", "draw delay"}
      BY <2>1 DEF NodeInv, OldCalls
    <3>3. /\ answer[d] = "dropped" => atEnd[d] \in {"dropped", "draw drop"}
          /\ answer[d] = "late" => atEnd[d] \in {"late", "sleep", "draw delay"}
      BY <2>1 DEF NodeInv, WindowEnds
    <3>. QED  BY <3>1, <3>2, <3>3
  <2>. QED  BY <2>2, <2>3
<1>7. WindowEnds' /\ OldCalls'
  BY <1>6 DEF WindowEnds, OldCalls
<1>. QED  BY <1>2, <1>4, <1>5, <1>7 DEF NodeInv

\* The process dies in MaybeDelay: an empty range does that, and only where
\* failure injection is on.
LEMMA PanicInv ==
  ASSUME NodeInv, NEW c \in Caller, Panic(c)
  PROVE  NodeInv'
<1>1. /\ given' = given /\ cfg' = cfg /\ UNCHANGED <<chaosVars, callVars>>
      /\ main' = "died" /\ UNCHANGED <<http, ready, watched>>
  BY DEF Panic, cfg, chaosVars
<1>2. /\ cfg.Enabled /\ cfg.Targeted /\ ~Proper(cfg)
      /\ given \in [env : Setting, profile : Profile]
  <2>1. given \in [env : Setting, profile : Profile]
    BY DEF NodeInv, TypeOK
  <2>2. pc[c] = "draw delay" /\ cfg.DelayMsMax - cfg.DelayMsMin + 1 <= 0
    BY DEF Panic
  <2>3. cfg.Enabled /\ cfg.Targeted
    BY <2>1, <2>2, CfgFacts DEF NodeInv, NoneInjected, Injected
  <2>4. cfg.DelayMsMax \in Int /\ cfg.DelayMsMin \in Int
    BY <2>1, CfgFacts
  <2>5. ASSUME NEW max \in Int, NEW min \in Int, max - min + 1 <= 0
        PROVE  ~(min <= max)
    BY <2>5
  <2>6. ~Proper(cfg)
    BY <2>2, <2>4, <2>5 DEF Proper
  <2>. QED  BY <2>1, <2>3, <2>6
<1>3. TypeOK'
  BY <1>1 DEF NodeInv, TypeOK, Ended, chaosVars, callVars
<1>4. OptIn' /\ OpenCalls' /\ NoneInjected' /\ WindowEnds' /\ OldCalls'
  BY <1>1, <1>2 DEF NodeInv, OptIn, OpenCalls, NoneInjected, WindowEnds, OldCalls,
                    chaosVars, callVars
<1>5. ProperRangesAreSafe' /\ StoppedIsNotReady'
  BY <1>1, <1>2, CfgFacts DEF ProperRangesAreSafe, StoppedIsNotReady
<1>. QED  BY <1>3, <1>4, <1>5 DEF NodeInv

\* A call in progress goes from where it is to s, with the outcome a.
LEMMA ProgressInv ==
  ASSUME NodeInv, NEW c \in Caller, NEW s \in PC, NEW a \in Answer,
         pc' = [pc EXCEPT ![c] = s], answer' = [answer EXCEPT ![c] = a],
         UNCHANGED <<chaosVars, begun, mainVars>>,
         s # "idle" => a = "none",
         s \in Injected \/ a \in {"dropped", "late"} => cfg.Enabled /\ cfg.Targeted,
         expired => /\ s = "draw drop" \/ a = "dropped" => atEnd[c] = "draw drop"
                    /\ s = "draw delay" => atEnd[c] = "draw delay"
                    /\ s = "sleep" \/ a = "late" => atEnd[c] \in {"sleep", "draw delay"}
  PROVE  NodeInv'
<1>1. given' = given /\ cfg' = cfg /\ expired' = expired /\ atEnd' = atEnd
  BY DEF chaosVars, cfg
<1>2. TypeOK'
  BY <1>1 DEF NodeInv, TypeOK, mainVars
<1>3. /\ pc'[c] = s /\ answer'[c] = a
      /\ \A d \in Caller \ {c} : pc'[d] = pc[d] /\ answer'[d] = answer[d]
  BY DEF NodeInv, TypeOK
<1>4. ProperRangesAreSafe' /\ StoppedIsNotReady'
  BY <1>1 DEF NodeInv, ProperRangesAreSafe, StoppedIsNotReady, mainVars
<1>5. OptIn'
  BY <1>1, <1>3 DEF NodeInv, OptIn, Answer, mainVars
<1>6. OpenCalls' /\ NoneInjected'
  BY <1>1, <1>3 DEF NodeInv, OpenCalls, NoneInjected
<1>7. WindowEnds' /\ OldCalls'
  BY <1>1, <1>3 DEF NodeInv, WindowEnds, OldCalls
<1>. QED  BY <1>2, <1>4, <1>5, <1>6, <1>7 DEF NodeInv

\* A call that is not over has no outcome: one that is not given any keeps it.
LEMMA NoOutcome ==
  ASSUME NodeInv, NEW c \in Caller, pc[c] # "idle"
  PROVE  answer = [answer EXCEPT ![c] = "none"]
BY DEF NodeInv, TypeOK, OpenCalls

\* A call that is being injected something: the switch is on, and the window, if
\* it is over, was not over when the call was let through.
LEMMA InjectedCall ==
  ASSUME NodeInv, NEW c \in Caller, pc[c] \in Injected
  PROVE  /\ cfg.Enabled /\ cfg.Targeted
         /\ expired => /\ pc[c] = "draw drop" => atEnd[c] = "draw drop"
                       /\ pc[c] # "draw drop" => atEnd[c] \in {"sleep", "draw delay"}
<1>1. cfg.Enabled \in BOOLEAN /\ cfg.Targeted \in BOOLEAN
  BY CfgFacts DEF NodeInv, TypeOK
<1>2. cfg.Enabled /\ cfg.Targeted
  BY <1>1 DEF NodeInv, NoneInjected
<1>. QED  BY <1>2 DEF NodeInv, OldCalls, Injected

\* The two tests: a call goes on to the lock only if the switch is on, and the
\* window not over.
LEMMA TestInv ==
  ASSUME NodeInv, NEW c \in Caller, MaybeDelay(c) \/ MaybeDrop(c)
  PROVE  NodeInv'
<1>1. PICK s \in {"draw delay", "drop", "draw drop", "work"} :
        /\ pc' = [pc EXCEPT ![c] = s]
        /\ s \in Injected => EnabledFor
        /\ UNCHANGED <<chaosVars, begun, answer, mainVars>>
  BY DEF MaybeDelay, MaybeDrop, Goto, Delays, Drops, Injected
<1>2. answer' = [answer EXCEPT ![c] = "none"]
  BY <1>1, NoOutcome DEF MaybeDelay, MaybeDrop
<1>3. EnabledFor => cfg.Enabled /\ cfg.Targeted /\ ~expired
  BY DEF EnabledFor, NodeInv, OldCalls
<1>. QED  BY <1>1, <1>2, <1>3, ProgressInv DEF PC, Answer, Injected

\* The delay is drawn.
LEMMA DrawDelayInv ==
  ASSUME NodeInv, NEW c \in Caller, DrawDelay(c)
  PROVE  NodeInv'
<1>1. /\ pc[c] = "draw delay" /\ UNCHANGED <<chaosVars, begun, answer, mainVars>>
      /\ \E s \in {"sleep", "drop"} : pc' = [pc EXCEPT ![c] = s]
  BY DEF DrawDelay, Goto
<1>2. answer' = [answer EXCEPT ![c] = "none"]
  BY <1>1, NoOutcome
<1>. QED  BY <1>1, <1>2, InjectedCall, ProgressInv DEF PC, Answer, Injected

\* A call has slept, or its deadline has ended it.
LEMMA SleepInv ==
  ASSUME NodeInv, NEW c \in Caller, Sleep(c)
  PROVE  NodeInv'
<1>1. pc[c] = "sleep" /\ UNCHANGED <<chaosVars, begun, mainVars>>
  BY DEF Sleep
<1>2. CASE Goto(c, "drop") /\ UNCHANGED answer
  BY <1>1, <1>2, NoOutcome, ProgressInv DEF PC, Answer, Injected, Goto
<1>3. CASE Goto(c, "idle") /\ Become(c, "late")
  BY <1>1, <1>3, InjectedCall, ProgressInv DEF PC, Answer, Injected, Goto, Become
<1>. QED  BY <1>2, <1>3 DEF Sleep

\* The number is drawn: the call is dropped or goes on.
LEMMA DrawDropInv ==
  ASSUME NodeInv, NEW c \in Caller, DrawDrop(c)
  PROVE  NodeInv'
<1>1. pc[c] = "draw drop" /\ UNCHANGED <<chaosVars, begun, mainVars>>
  BY DEF DrawDrop
<1>2. CASE Goto(c, "idle") /\ Become(c, "dropped")
  BY <1>1, <1>2, InjectedCall, ProgressInv DEF PC, Answer, Injected, Goto, Become
<1>3. CASE Goto(c, "work") /\ UNCHANGED answer
  BY <1>1, <1>3, NoOutcome, ProgressInv DEF PC, Answer, Injected, Goto
<1>. QED  BY <1>2, <1>3 DEF DrawDrop

\* The node answers a call that has passed both.
LEMMA ServeInv ==
  ASSUME NodeInv, NEW c \in Caller, Serve(c)
  PROVE  NodeInv'
<1>1. /\ pc' = [pc EXCEPT ![c] = "idle"] /\ answer' = [answer EXCEPT ![c] = "served"]
      /\ UNCHANGED <<chaosVars, begun, mainVars>>
  BY DEF Serve, Goto, Become
<1>. QED  BY <1>1, ProgressInv DEF PC, Answer, Injected

LEMMA NextNode ==
  ASSUME NodeInv, [Next]_vars
  PROVE  NodeInv'
<1>1. CASE Expire
  BY <1>1, ExpireInv
<1>2. ASSUME NEW c \in Caller, Arrive(c) \/ CallStep(c) PROVE NodeInv'
  BY <1>2, ArriveInv, TestInv, DrawDelayInv, PanicInv, SleepInv, DrawDropInv, ServeInv DEF CallStep
<1>3. CASE Listen \/ Signal \/ MainStep \/ ExitOnLeader \/ Watch
  BY <1>3, MainInv
<1>4. CASE UNCHANGED vars
  <2>1. cfg' = cfg /\ UNCHANGED <<chaosVars, callVars, mainVars>>
    BY <1>4 DEF vars, chaosVars, cfg
  <2>. QED  BY <2>1 DEF chaosVars, callVars, mainVars, NodeInv, TypeOK, OptIn, OpenCalls,
                  NoneInjected, WindowEnds, OldCalls, ProperRangesAreSafe, StoppedIsNotReady
<1>. QED  BY <1>1, <1>2, <1>3, <1>4 DEF Next

-----------------------------------------------------------------------------
\* The invariant: which calls the failure injection may have got hold of, by its
\* switch, its target and its window, and that a process on its way out does not
\* call itself ready.
THEOREM NodeInvariance == Spec => []NodeInv
BY InitNode, NextNode, PTL DEF Spec

\* MaybeDelay and MaybeDrop are opt-in: a process that does not enable them, or
\* aims them at another node, holds up and drops no call and does not die of one.
\* It may still end by itself, but only with CHAOS_EXIT_ON_LEADER.
THEOREM OptInHolds == Spec => []OptIn
<1>1. NodeInv => OptIn
  BY DEF NodeInv
<1>. QED  BY <1>1, NodeInvariance, PTL

\* Intn of MaybeDelay panics only if the environment or the profile names an
\* empty range: what New makes of two proper ones is proper, for all numbers.
THEOREM ProperRanges == Spec => []ProperRangesAreSafe
<1>1. NodeInv => ProperRangesAreSafe
  BY DEF NodeInv
<1>. QED  BY <1>1, NodeInvariance, PTL

\* From the shutdown of its health checker on, a process is never taken for a
\* healthy one, even if its HTTP server comes up late.
THEOREM StoppedNotHealthy == Spec => []StoppedIsNotHealthy
<1>1. NodeInv => StoppedIsNotHealthy
  BY DEF NodeInv, StoppedIsNotReady, StoppedIsNotHealthy, healthz
<1>. QED  BY <1>1, NodeInvariance, PTL

\* MaybeDelay and MaybeDrop test the window before they take the lock: a call that
\* had passed the test may still be dropped or miss its deadline after the end of
\* the window, and no other call may, however many there are.
THEOREM WindowReachesCalls == Spec => []WindowEnds
<1>1. NodeInv => WindowEnds
  BY DEF NodeInv
<1>. QED  BY <1>1, NodeInvariance, PTL
=============================================================================
