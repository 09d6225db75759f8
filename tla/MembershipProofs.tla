-------------------------- MODULE MembershipProofs --------------------------
(***************************************************************************)
(* Proofs about how the Raft cluster comes about, for every number of      *)
(* nodes and every pattern of starts, stops, elections and joins.          *)
(***************************************************************************)
EXTENDS Membership, FiniteSetTheorems, TLAPS

-----------------------------------------------------------------------------
(* Majorities.                                                             *)

LEMMA FiniteVoters ==
  ASSUME NEW C, C \subseteq Node, NEW S
  PROVE  /\ IsFiniteSet(C) /\ Cardinality(C) \in Nat
         /\ IsFiniteSet(S \intersect C) /\ Cardinality(S \intersect C) \in Nat
<1>1. IsFiniteSet(C)
  BY FS_Subset, NodeAssumption
<1>2. IsFiniteSet(S \intersect C)
  BY <1>1, FS_Intersection
<1>. QED  BY <1>1, <1>2, FS_CardinalityType

\* More nodes are a majority all the more, and nobody has one of no voters.
LEMMA MajorityGrows ==
  ASSUME NEW C, C \subseteq Node, NEW S, NEW T, S \subseteq T, Majority(S, C)
  PROVE  Majority(T, C)
<1>1. /\ IsFiniteSet(T \intersect C) /\ Cardinality(T \intersect C) \in Nat
      /\ Cardinality(S \intersect C) \in Nat /\ Cardinality(C) \in Nat
  BY FiniteVoters
<1>2. Cardinality(S \intersect C) <= Cardinality(T \intersect C)
  BY <1>1, FS_Subset
<1>. QED  BY <1>1, <1>2 DEF Majority

LEMMA AllAreMajority ==
  ASSUME NEW C, C \subseteq Node
  PROVE  Majority(Node, C) <=> C # {}
<1>1. Node \intersect C = C /\ Cardinality(C) \in Nat /\ (Cardinality(C) = 0 <=> C = {})
  BY FiniteVoters, FS_EmptySet
<1>. QED  BY <1>1 DEF Majority

LEMMA NobodyElectsNone ==
  ASSUME NEW S, NEW C, C \subseteq Node, Majority(S, C)
  PROVE  C # {}
<1>1. S \intersect {} = {} /\ Cardinality({}) = 0
  BY FS_EmptySet
<1>. QED  BY <1>1 DEF Majority

\* Majorities of a configuration and of one with a voter more meet.
LEMMA MajoritiesMeetGrown ==
  ASSUME NEW C, C \subseteq Node, NEW x \in Node, NEW S, NEW T,
         Majority(S, C), Majority(T, C \union {x})
  PROVE  S \intersect T # {}
<1> DEFINE D == C \union {x}
<1>1. /\ IsFiniteSet(D) /\ Cardinality(C) \in Nat
      /\ Cardinality(S \intersect C) \in Nat /\ Cardinality(T \intersect D) \in Nat
  BY FiniteVoters
<1>2. Cardinality(D) \in Nat /\ Cardinality(D) <= Cardinality(C) + 1
  <2>1. D \subseteq Node /\ IsFiniteSet(C) /\ Cardinality(C) \in Nat
    BY FiniteVoters
  <2>2. Cardinality(D) \in Nat
    BY <2>1, FiniteVoters
  <2>3. Cardinality(D) = IF x \in C THEN Cardinality(C) ELSE Cardinality(C) + 1
    BY <2>1, FS_AddElement
  <2>. QED  BY <2>1, <2>2, <2>3
<1>3. Cardinality(S \intersect C) + Cardinality(T \intersect D) > Cardinality(D)
  BY <1>1, <1>2 DEF Majority
<1>4. (S \intersect C) \intersect (T \intersect D) # {}
  BY <1>1, <1>3, FS_MajoritiesIntersect
<1>. QED  BY <1>4

LEMMA MajoritiesMeet ==
  ASSUME NEW C, C \subseteq Node, NEW D, D \subseteq Node, Adjacent(C, D),
         NEW S, NEW T, Majority(S, C), Majority(T, D)
  PROVE  S \intersect T # {}
<1>1. PICK x \in Node : D = C \/ D = C \union {x} \/ C = D \union {x}
  BY DEF Adjacent
<1>2. CASE D = C
  <2>1. C # {}
    BY NobodyElectsNone
  <2>2. PICK y \in C : C \union {y} = C
    BY <2>1
  <2>. QED  BY <1>2, <2>2, MajoritiesMeetGrown
<1>. QED  BY <1>1, <1>2, MajoritiesMeetGrown

-----------------------------------------------------------------------------
(* Who could lead next.                                                    *)

LEMMA LeaderIsElectable ==
  ASSUME MembershipInv, leader # None
  PROVE  leader \in Node /\ Electable(leader)
<1>1. leader \in Node /\ ahead[leader] = {} /\ stored[leader] # {} /\ stored[leader] \subseteq Node
  BY DEF MembershipInv, TypeOK, LeaderIsAhead
<1>2. Node \ ahead[leader] = Node
  BY <1>1
<1>. QED  BY <1>1, <1>2, AllAreMajority DEF Electable

\* What the leader has committed is in the log of whoever could lead next.
LEMMA RivalsHaveCommitted ==
  ASSUME MembershipInv, Committed, NEW n \in Node, Electable(n)
  PROVE  ahead[n] = {} /\ stored[n] = stored[leader]
<1> DEFINE W == {m \in Node : ahead[m] = {}}
<1>1. /\ leader \in Node /\ ahead[leader] = {} /\ Majority(W, stored[leader])
      /\ Adjacent(stored[leader], stored[n])
      /\ stored[leader] \subseteq Node /\ stored[n] \subseteq Node
  BY LeaderIsElectable DEF Committed, MembershipInv, TypeOK, LeaderIsAhead, RivalsAreAdjacent
<1>2. W \intersect (Node \ ahead[n]) # {}
  BY <1>1, MajoritiesMeet DEF Electable
<1>3. PICK m \in Node : ahead[m] = {} /\ m \notin ahead[n]
  BY <1>2
<1>. QED  BY <1>1, <1>3 DEF MembershipInv, LongestLogs

\* A node that appends nothing does not become electable.
LEMMA NotElectableAgain ==
  ASSUME NEW n \in Node, stored[n] \subseteq Node,
         stored'[n] = stored[n], ahead[n] \subseteq ahead'[n], Electable(n)'
  PROVE  Electable(n)
BY MajorityGrows DEF Electable, Majority

\* A step after which whoever could lead has the configuration of one who could
\* before it.
LEMMA RivalsInherit ==
  ASSUME RivalsAreAdjacent, RivalsKnowJoined, joined' = joined,
         \A n \in Node : Electable(n)' => \E m \in Node : Electable(m) /\ stored'[n] = stored[m]
  PROVE  RivalsAreAdjacent' /\ RivalsKnowJoined'
BY DEF RivalsAreAdjacent, RivalsKnowJoined, Adjacent

-----------------------------------------------------------------------------
(* The steps.                                                              *)

LEMMA InitMembership == Init => MembershipInv
<1> SUFFICES ASSUME Init PROVE MembershipInv
  OBVIOUS
<1> USE DEF Init
<1>1. TypeOK /\ LongestLogs /\ OneOrigin /\ LeaderIsAhead
  BY NodeAssumption, StopAssumption DEF TypeOK, LongestLogs, OneOrigin, LeaderIsAhead
<1>2. \A n \in Node : ~Electable(n)
  BY NobodyElectsNone DEF Electable
<1>. QED  BY <1>1, <1>2 DEF MembershipInv, RivalsAreAdjacent, RivalsKnowJoined

\* Steps that touch no log and answer no Join.
LEMMA LogsStay ==
  ASSUME MembershipInv, TypeOK', UNCHANGED <<logVars, joined>>,
         \/ leader' = leader /\ joining' = joining
         \/ leader' = None /\ joining' = None
  PROVE  MembershipInv'
<1> USE DEF logVars
<1>1. LongestLogs' /\ OneOrigin' /\ LeaderIsAhead'
  BY DEF MembershipInv, LongestLogs, OneOrigin, LeaderIsAhead
<1>2. RivalsAreAdjacent' /\ RivalsKnowJoined'
  BY DEF MembershipInv, RivalsAreAdjacent, RivalsKnowJoined, Electable
<1>. QED  BY <1>1, <1>2 DEF MembershipInv

\* The one log that begins with a configuration is the first one.
LEMMA StartNewInv ==
  ASSUME MembershipInv, NEW n \in Node, StartNew(n)
  PROVE  MembershipInv'
<1>1. stored[n] = {} /\ UNCHANGED <<leader, joining, joined, stops>>
  BY DEF StartNew
<1>2. CASE n \notin Bootstrap
  <2>1. TypeOK' /\ UNCHANGED <<logVars, joined>>
    BY <1>1, <1>2 DEF StartNew, MembershipInv, TypeOK, logVars
  <2>. QED  BY <1>1, <2>1, LogsStay
<1>3. CASE n \in Bootstrap
  <2>1. /\ stored' = [stored EXCEPT ![n] = {n}]
        /\ ahead' = [m \in Node |-> IF m = n THEN {} ELSE ahead[m] \union {n}]
    BY <1>3 DEF StartNew, Append
  <2>2. /\ joined = {} /\ \A m \in Node : stored[m] = {}
        /\ Bootstrap = {n}
    BY <1>1, <1>3, BootstrapAssumption DEF MembershipInv, OneOrigin
  <2>3. leader = None /\ joining = None
    BY <2>2 DEF MembershipInv, TypeOK, LeaderIsAhead
  <2>4. TypeOK'
    BY <1>1, <2>1 DEF StartNew, MembershipInv, TypeOK
  <2>5. stored'[n] = {n} /\ \A m \in Node \ {n} : stored'[m] = {}
    BY <2>1, <2>2 DEF MembershipInv, TypeOK
  <2>6. LongestLogs' /\ OneOrigin' /\ LeaderIsAhead'
    BY <1>1, <2>1, <2>2, <2>3, <2>5 DEF LongestLogs, OneOrigin, LeaderIsAhead
  <2>7. \A m \in Node : Electable(m)' => stored'[m] = {n}
    BY <2>5, NobodyElectsNone DEF Electable, Majority
  <2>8. RivalsAreAdjacent' /\ RivalsKnowJoined'
    BY <1>1, <2>2, <2>7 DEF RivalsAreAdjacent, RivalsKnowJoined, Adjacent
  <2>. QED  BY <2>4, <2>6, <2>8 DEF MembershipInv
<1>. QED  BY <1>2, <1>3

\* The node that is elected keeps its configuration and outruns all others.
LEMMA ElectInv ==
  ASSUME MembershipInv, NEW n \in Node, Elect(n)
  PROVE  MembershipInv'
<1>1. /\ n \in stored[n] /\ Majority(Up \ ahead[n], stored[n])
      /\ leader = None /\ leader' = n
      /\ stored' = [stored EXCEPT ![n] = stored[n]]
      /\ ahead' = [m \in Node |-> IF m = n THEN {} ELSE ahead[m] \union {n}]
      /\ UNCHANGED <<process, joining, joined, stops>>
  BY DEF Elect, Append
<1>2. stored' = stored /\ TypeOK' /\ joining' = None
  BY <1>1 DEF MembershipInv, TypeOK, LeaderIsAhead
<1>3. LongestLogs' /\ OneOrigin' /\ LeaderIsAhead'
  BY <1>1, <1>2 DEF MembershipInv, LongestLogs, OneOrigin, LeaderIsAhead
<1>4. Electable(n)
  BY <1>1, MajorityGrows DEF Electable, Up, MembershipInv, TypeOK
<1>5. ASSUME NEW m \in Node, Electable(m)'
      PROVE  \E k \in Node : Electable(k) /\ stored'[m] = stored[k]
  <2>1. CASE m = n
    BY <1>2, <1>4, <2>1
  <2>2. CASE m # n
    <3>1. stored[m] \subseteq Node /\ stored'[m] = stored[m] /\ ahead[m] \subseteq ahead'[m]
      BY <1>1, <1>2, <2>2 DEF MembershipInv, TypeOK
    <3>. QED  BY <1>5, <3>1, NotElectableAgain
  <2>. QED  BY <2>1, <2>2
<1>6. RivalsAreAdjacent' /\ RivalsKnowJoined'
  BY <1>1, <1>5, RivalsInherit DEF MembershipInv
<1>. QED  BY <1>2, <1>3, <1>6 DEF MembershipInv

\* A node that takes the leader's log over could lead with its configuration.
LEMMA ReplicateInv ==
  ASSUME MembershipInv, NEW n \in Node, Replicate(n)
  PROVE  MembershipInv'
<1>1. /\ leader \in Node /\ leader # n /\ ahead[leader] = {} /\ ahead[n] # {}
      /\ stored' = [stored EXCEPT ![n] = stored[leader]]
      /\ ahead' = [m \in Node |-> IF m = n \/ ahead[m] = {} THEN {} ELSE ahead[m] \union {n}]
      /\ UNCHANGED <<process, leader, joining, joined, stops>>
  BY DEF Replicate, MembershipInv, TypeOK, LeaderIsAhead
<1>2. /\ stored'[n] = stored[leader] /\ ahead'[n] = {}
      /\ \A m \in Node \ {n} : stored'[m] = stored[m] /\ ahead[m] \subseteq ahead'[m]
  BY <1>1 DEF MembershipInv, TypeOK
<1>3. TypeOK'
  BY <1>1 DEF MembershipInv, TypeOK
<1>4. LongestLogs'
  BY <1>1, <1>2 DEF MembershipInv, LongestLogs
<1>5. OneOrigin'
  <2>1. stored[leader] # {}
    BY <1>1, NodeAssumption DEF MembershipInv, LeaderIsAhead
  <2>2. \A b \in Bootstrap : stored'[b] # {}
    BY <1>1, <1>2, <2>1, NodeAssumption DEF MembershipInv, OneOrigin
  <2>3. \A m \in Node : stored'[m] # {} => Bootstrap # {} /\ Bootstrap \subseteq stored'[m]
    BY <1>1, <1>2 DEF MembershipInv, OneOrigin
  <2>. QED  BY <2>2, <2>3 DEF OneOrigin
<1>6. LeaderIsAhead'
  BY <1>1, <1>2 DEF MembershipInv, LeaderIsAhead
<1>7. ASSUME NEW m \in Node, Electable(m)'
      PROVE  \E k \in Node : Electable(k) /\ stored'[m] = stored[k]
  <2>1. CASE m = n
    BY <1>1, <1>2, <2>1, LeaderIsElectable, NodeAssumption
  <2>2. CASE m # n
    BY <1>2, <1>7, <2>2, NotElectableAgain DEF MembershipInv, TypeOK
  <2>. QED  BY <2>1, <2>2
<1>8. RivalsAreAdjacent' /\ RivalsKnowJoined'
  BY <1>1, <1>7, RivalsInherit DEF MembershipInv
<1>. QED  BY <1>3, <1>4, <1>5, <1>6, <1>8 DEF MembershipInv

\* All that the leader has is committed: the others who could lead next have the
\* configuration that the new voter is added to.
LEMMA JoinInv ==
  ASSUME MembershipInv, NEW n \in Node, Join(n)
  PROVE  MembershipInv'
<1> DEFINE C == stored[leader]
<1>1. /\ Committed /\ leader \in Node /\ leader \in C /\ C \subseteq Node
      /\ joining' = n
      /\ stored' = [stored EXCEPT ![leader] = C \union {n}]
      /\ ahead' = [m \in Node |-> IF m = leader THEN {} ELSE ahead[m] \union {leader}]
      /\ UNCHANGED <<process, leader, joined, stops>>
  BY DEF Join, Committed, Append, MembershipInv, TypeOK, LeaderIsAhead
<1>2. /\ stored'[leader] = C \union {n} /\ ahead'[leader] = {}
      /\ \A m \in Node \ {leader} :
            stored'[m] = stored[m] /\ ahead[m] \subseteq ahead'[m] /\ leader \in ahead'[m]
  BY <1>1 DEF MembershipInv, TypeOK
<1>3. TypeOK' /\ LongestLogs'
  BY <1>1, <1>2 DEF MembershipInv, TypeOK, LongestLogs
<1>4. OneOrigin'
  BY <1>1, <1>2 DEF MembershipInv, OneOrigin
<1>5. LeaderIsAhead'
  BY <1>1, <1>2 DEF Committed, LeaderIsAhead
<1>6. joined \subseteq C
  BY <1>1, LeaderIsElectable DEF Committed, MembershipInv, RivalsKnowJoined
<1>7. ASSUME NEW m \in Node, Electable(m)'
      PROVE  stored'[m] = C \/ stored'[m] = C \union {n}
  <2>1. CASE m = leader
    BY <1>2, <2>1
  <2>2. CASE m # leader
    <3>1. Electable(m) /\ stored'[m] = stored[m]
      BY <1>2, <1>7, <2>2, NotElectableAgain DEF MembershipInv, TypeOK
    <3>. QED  BY <1>1, <3>1, RivalsHaveCommitted
  <2>. QED  BY <2>1, <2>2
<1>8. RivalsAreAdjacent'
  BY <1>7 DEF RivalsAreAdjacent, Adjacent
<1>9. RivalsKnowJoined'
  BY <1>1, <1>6, <1>7 DEF RivalsKnowJoined
<1>. QED  BY <1>3, <1>4, <1>5, <1>8, <1>9 DEF MembershipInv

\* The configuration that Join waits for is committed: whoever could lead next
\* has it.
LEMMA JoinOkInv ==
  ASSUME MembershipInv, JoinOk
  PROVE  MembershipInv'
<1>1. /\ joining # None /\ Committed /\ leader # None /\ joining \in stored[leader]
      /\ joined' = joined \union {joining} /\ joining' = None
      /\ UNCHANGED <<process, logVars, leader, stops>>
  BY DEF JoinOk, MembershipInv, LeaderIsAhead
<1> USE DEF logVars
<1>2. TypeOK' /\ LongestLogs' /\ LeaderIsAhead'
  BY <1>1 DEF MembershipInv, TypeOK, LongestLogs, LeaderIsAhead
<1>3. OneOrigin'
  BY <1>1 DEF MembershipInv, TypeOK, OneOrigin
<1>4. ASSUME NEW n \in Node, Electable(n)' PROVE joined' \subseteq stored'[n]
  <2>1. Electable(n)
    BY <1>1, <1>4 DEF Electable
  <2>. QED  BY <1>1, <2>1, RivalsHaveCommitted DEF MembershipInv, RivalsKnowJoined
<1>5. RivalsAreAdjacent' /\ RivalsKnowJoined'
  BY <1>1, <1>4 DEF MembershipInv, RivalsAreAdjacent, RivalsKnowJoined, Electable
<1>. QED  BY <1>2, <1>3, <1>5 DEF MembershipInv

LEMMA NextMembership ==
  ASSUME MembershipInv, [Next]_vars
  PROVE  MembershipInv'
<1>1. ASSUME NEW n \in Node, StartAgain(n) PROVE MembershipInv'
  <2>1. TypeOK'
    BY <1>1 DEF StartAgain, MembershipInv, TypeOK, logVars
  <2>. QED  BY <1>1, <2>1, LogsStay DEF StartAgain
<1>2. ASSUME NEW n \in Node, Stop(n) PROVE MembershipInv'
  <2>1. TypeOK'
    BY <1>2, StopAssumption DEF Stop, MembershipInv, TypeOK, logVars
  <2>. QED  BY <1>2, <2>1, LogsStay DEF Stop
<1>3. CASE StepDown
  <2>1. TypeOK'
    BY <1>3 DEF StepDown, MembershipInv, TypeOK, logVars
  <2>. QED  BY <1>3, <2>1, LogsStay DEF StepDown
<1>4. CASE UNCHANGED vars
  <2>1. TypeOK'
    BY <1>4 DEF vars, logVars, MembershipInv, TypeOK
  <2>. QED  BY <1>4, <2>1, LogsStay DEF vars
<1>. QED  BY <1>1, <1>2, <1>3, <1>4, StartNewInv, ElectInv, ReplicateInv, JoinInv, JoinOkInv DEF Next

-----------------------------------------------------------------------------
\* The invariant: the nodes that could lead next differ by one voter at most and
\* know of all who have joined.
THEOREM MembershipInvariance == Spec => []MembershipInv
BY InitMembership, NextMembership, PTL DEF Spec

\* One cluster comes about (Start bootstraps on one node, the others wait to be
\* joined): any two configurations have a voter in common.
THEOREM OnlyOneCluster == Spec => []OneCluster
<1>1. MembershipInv => OneCluster
  BY DEF MembershipInv, OneOrigin, OneCluster
<1>. QED  BY <1>1, MembershipInvariance, PTL

\* A node whose Join was answered with Ok is a voter for every later leader,
\* whatever stops and whoever is elected.
THEOREM JoinedStaysVoter == Spec => []JoinedIsVoter
<1>1. MembershipInv => JoinedIsVoter
  BY LeaderIsElectable DEF MembershipInv, RivalsKnowJoined, JoinedIsVoter
<1>. QED  BY <1>1, MembershipInvariance, PTL
=============================================================================
