-------------------------- MODULE RaftClientProofs --------------------------
(***************************************************************************)
(* Proofs about the client of the Raft service, for every number of nodes, *)
(* addresses, attempts and callers.                                        *)
(***************************************************************************)
EXTENDS RaftClient, FiniteSetTheorems, TLAPS

-----------------------------------------------------------------------------
(* Data.                                                                   *)

\* A connection that is made gets a name that nobody uses.
LEMMA FreshIsUnused ==
  ASSUME TypeOK
  PROVE  fresh \in Conn /\ fresh \notin {cc, svc} /\ \A p \in Caller : mine[p] # fresh
<1> DEFINE M == {mine[p] : p \in Caller}
           U == (M \union {cc}) \union {svc}
<1>1. IsFiniteSet(M) /\ Cardinality(M) <= Cardinality(Caller)
  <2>1. mine \in Surjection(Caller, M)
    BY DEF Surjection, TypeOK
  <2>. QED  BY <2>1, ConnAssumption, FS_Surjection
<1>2. /\ Cardinality(M) \in Nat /\ Cardinality(Caller) \in Nat /\ Cardinality(Conn) \in Nat
  BY <1>1, ConnAssumption, FS_CardinalityType
<1> HIDE DEF M
<1>3. /\ IsFiniteSet(M \union {cc}) /\ Cardinality(M \union {cc}) \in Nat
      /\ Cardinality(M \union {cc}) <= Cardinality(Caller) + 1
  <2>1. /\ IsFiniteSet(M \union {cc})
        /\ Cardinality(M \union {cc}) = IF cc \in M THEN Cardinality(M) ELSE Cardinality(M) + 1
    BY <1>1, FS_AddElement
  <2>. QED  BY <1>1, <1>2, <2>1
<1>4. /\ IsFiniteSet(U) /\ Cardinality(U) \in Nat
      /\ Cardinality(U) <= Cardinality(Caller) + 2
  <2> DEFINE N == M \union {cc}
  <2>1. IsFiniteSet(N) /\ Cardinality(N) \in Nat /\ Cardinality(N) <= Cardinality(Caller) + 1
    BY <1>3
  <2> HIDE DEF N
  <2>2. /\ IsFiniteSet(N \union {svc})
        /\ Cardinality(N \union {svc}) = IF svc \in N THEN Cardinality(N) ELSE Cardinality(N) + 1
    BY <2>1, FS_AddElement
  <2>. QED  BY <1>2, <2>1, <2>2 DEF N
<1>5. ~(Conn \subseteq U)
  BY <1>2, <1>4, ConnAssumption, FS_Subset
<1>6. PICK k \in Conn : Unused(k)
  BY <1>5 DEF Unused, M
<1>7. fresh \in Conn /\ Unused(fresh)
  BY <1>6 DEF fresh
<1>. QED  BY <1>7 DEF Unused

\* The addresses to try in turn.
LEMMA KnownAddresses ==
  /\ Len(knownAddrs) \in Nat \ {0}
  /\ \A i \in 1..Len(knownAddrs) : knownAddrs[i] \in Addr
BY AddrAssumption

LEMMA NextAddrType ==
  ASSUME TypeOK, NEW p \in Caller, NextAddr(p)
  PROVE  /\ currentIdx' \in 1..Len(knownAddrs) /\ target' \in [Caller -> Addr]
         /\ seen' \in [Caller -> 1..Len(knownAddrs)]
<1>1. seen[p] \in 1..Len(knownAddrs) /\ currentIdx' = (seen[p] % Len(knownAddrs)) + 1
  BY DEF TypeOK, NextAddr
<1>2. currentIdx' \in 1..Len(knownAddrs)
  BY <1>1, KnownAddresses
<1>. QED  BY <1>2, KnownAddresses DEF TypeOK, NextAddr

\* A caller that goes on to its next attempt, or has ended its Apply.
LEMMA AgainType ==
  ASSUME TypeOK, NEW p \in Caller,
         Again(p) \/ \E r \in {"applied", "refused", "error"} : End(p, r)
  PROVE  /\ \E s \in {"idle", "check"} : pc' = [pc EXCEPT ![p] = s]
         /\ mine' = [mine EXCEPT ![p] = None]
         /\ tries' \in [Caller -> 0..MaxAttempts - 1]
         /\ result' \in [Caller -> {"none", "applied", "refused", "error"}]
<1>1. ASSUME NEW r \in {"applied", "refused", "error"}, End(p, r)
      PROVE  /\ pc' = [pc EXCEPT ![p] = "idle"] /\ mine' = [mine EXCEPT ![p] = None]
             /\ tries' \in [Caller -> 0..MaxAttempts - 1]
             /\ result' \in [Caller -> {"none", "applied", "refused", "error"}]
  BY <1>1, BoundAssumption DEF TypeOK, End, Goto
<1>2. CASE Again(p) /\ tries[p] + 1 < MaxAttempts
  <2>1. /\ pc' = [pc EXCEPT ![p] = "check"] /\ mine' = [mine EXCEPT ![p] = None]
        /\ tries' = [tries EXCEPT ![p] = tries[p] + 1] /\ result' = result
    BY <1>2 DEF Again, Goto
  <2>2. tries[p] + 1 \in 0..MaxAttempts - 1
    BY <1>2, BoundAssumption DEF TypeOK
  <2>. QED  BY <2>1, <2>2 DEF TypeOK
<1>3. CASE Again(p) /\ ~(tries[p] + 1 < MaxAttempts)
  BY <1>1, <1>3 DEF Again
<1>. QED  BY <1>1, <1>2, <1>3

-----------------------------------------------------------------------------
(* The steps.                                                              *)

LEMMA InitClient == Init => ClientInv
<1> SUFFICES ASSUME Init PROVE ClientInv
  OBVIOUS
<1> USE DEF Init
<1>1. TypeOK
  BY KnownAddresses, AddrAssumption, ConnAssumption, BoundAssumption DEF TypeOK, PC
<1>2. \A p \in Caller : pc[p] \notin Redials \union {"wait"}
  BY DEF Redials, Redial, Installs
<1>3. InstallsItsOwn /\ OverlapIsTorn /\ AloneInstalls /\ StaysConnected
  BY <1>2, ConnAssumption DEF InstallsItsOwn, OverlapIsTorn, AloneInstalls, StaysConnected,
                              Installs, Redial, Redials
<1>. QED  BY <1>1, <1>3 DEF ClientInv

\* The nodes' own steps.
LEMMA NodeStepInv ==
  ASSUME ClientInv, Kill \/ \E n \in Addr : Elect(n) \/ Learn(n) \/ Forget(n)
  PROVE  ClientInv'
<1>1. UNCHANGED <<clientVars, connVars, callerVars, historyVars, malformed>>
  BY DEF Kill, Elect, Learn, Forget
<1> USE DEF clientVars, connVars, callerVars, ownVars, historyVars
<1>2. TypeOK'
  BY <1>1, BoundAssumption DEF ClientInv, TypeOK, Kill, Elect, Learn, Forget
<1>3. InstallsItsOwn' /\ OverlapIsTorn' /\ AloneInstalls' /\ StaysConnected'
  BY <1>1 DEF ClientInv, InstallsItsOwn, OverlapIsTorn, AloneInstalls, StaysConnected
<1>. QED  BY <1>2, <1>3 DEF ClientInv

LEMMA PlainPC == PC \ Redials = {"idle", "check", "call", "wait", "next"}
BY DEF PC, Redials, Redial, Installs

\* A caller takes a step outside the redial: client and connections stay.
LEMMA OutsideInv ==
  ASSUME ClientInv, TypeOK', NEW p \in Caller, pc[p] \notin Redials,
         NEW s \in PC \ Redials, pc' = [pc EXCEPT ![p] = s],
         s = "wait" => mine'[p] \in Conn,
         \A q \in Caller \ {p} : target'[q] = target[q] /\ mine'[q] = mine[q],
         UNCHANGED <<addr, cc, svc, connVars, historyVars>>
  PROVE  ClientInv'
<1> USE DEF connVars, historyVars
<1>1. pc'[p] = s /\ \A q \in Caller \ {p} : pc'[q] = pc[q]
  BY DEF ClientInv, TypeOK
<1>2. s \notin Redials /\ s \notin Redial /\ s \notin Installs
      /\ pc[p] \notin Redial /\ pc[p] \notin Installs
      /\ s # "setsvc" /\ s # "setaddr"
  BY DEF Redials, Redial, Installs
<1>3. InstallsItsOwn'
  BY <1>1, <1>2 DEF ClientInv, InstallsItsOwn
<1>4. OverlapIsTorn'
  BY <1>1, <1>2 DEF ClientInv, OverlapIsTorn
<1>5. AloneInstalls'
  BY <1>1, <1>2 DEF ClientInv, AloneInstalls
<1>6. StaysConnected'
  BY <1>1, <1>2 DEF ClientInv, StaysConnected
<1>. QED  BY <1>3, <1>4, <1>5, <1>6 DEF ClientInv

\* The head of the loop, where no redial begins, and the call.
LEMMA LoopInv ==
  ASSUME ClientInv, NEW p \in Caller,
         Start(p) \/ (Check(p) /\ target[p] = addr) \/ Call(p)
  PROVE  ClientInv'
<1> USE DEF nodeVars, clientVars, connVars, historyVars, ownVars
<1>1. pc[p] \notin Redials /\ UNCHANGED <<nodeVars, clientVars, connVars, historyVars>>
  BY DEF Start, Check, Call, Redials, Redial, Installs
<1>2. CASE Start(p)
  <2>1. pc' = [pc EXCEPT ![p] = "check"] /\ target' = [target EXCEPT ![p] = addr]
    BY <1>2 DEF Start, Goto
  <2>2. TypeOK' /\ \A q \in Caller \ {p} : target'[q] = target[q]
    BY <1>1, <1>2, <2>1 DEF Start, ClientInv, TypeOK, PC
  <2>3. mine' = mine
    BY <1>2 DEF Start
  <2>. QED  BY <1>1, <2>1, <2>2, <2>3, OutsideInv, PlainPC
<1>3. CASE Check(p) /\ target[p] = addr
  <2>1. pc' = [pc EXCEPT ![p] = "call"]
    BY <1>3 DEF Check, Goto
  <2>2. TypeOK' /\ target' = target /\ mine' = mine
    BY <1>1, <1>3, <2>1 DEF Check, ClientInv, TypeOK, PC
  <2>. QED  BY <1>1, <2>1, <2>2, OutsideInv, PlainPC
<1>4. CASE Call(p)
  <2>1. pc' = [pc EXCEPT ![p] = "wait"] /\ mine' = [mine EXCEPT ![p] = svc]
    BY <1>4 DEF Call, Goto
  <2>2. /\ TypeOK' /\ target' = target
        /\ mine'[p] \in Conn /\ \A q \in Caller \ {p} : mine'[q] = mine[q]
    BY <1>1, <1>4, <2>1 DEF Call, ClientInv, TypeOK, PC
  <2>. QED  BY <1>1, <2>1, <2>2, OutsideInv, PlainPC
<1>. QED  BY <1>2, <1>3, <1>4

\* The answers, and their lack.
LEMMA AnswerInv ==
  ASSUME ClientInv, NEW p \in Caller,
         \/ Canceled(p) \/ Unavailable(p) \/ Applied(p) \/ FollowHint(p)
         \/ Refused(p) \/ NextAddr(p)
  PROVE  ClientInv'
<1> USE DEF nodeVars, clientVars, connVars, historyVars
<1>1. /\ pc[p] \in {"wait", "next"}
      /\ UNCHANGED <<nodeVars, addr, cc, svc, connVars, historyVars>>
  BY DEF Canceled, Unavailable, Applied, FollowHint, Refused, NextAddr, Reaches, Refuses
<1>2. Again(p) \/ \E r \in {"applied", "refused", "error"} : End(p, r)
  BY DEF Canceled, Unavailable, Applied, FollowHint, Refused, NextAddr
<1>3. PICK s \in {"idle", "check"} : pc' = [pc EXCEPT ![p] = s]
  BY <1>2, AgainType DEF ClientInv
<1>4. /\ currentIdx' \in 1..Len(knownAddrs) /\ target' \in [Caller -> Addr]
      /\ seen' \in [Caller -> 1..Len(knownAddrs)]
  <2>1. CASE NextAddr(p)
    BY <2>1, NextAddrType DEF ClientInv
  <2>2. CASE UNCHANGED <<currentIdx, target, seen>>
    BY <2>2 DEF ClientInv, TypeOK
  <2>3. CASE FollowHint(p)
    BY <2>3 DEF FollowHint, hint, ClientInv, TypeOK
  <2>. QED  BY <2>1, <2>2, <2>3 DEF Canceled, Unavailable, Applied, Refused
<1>5. \A q \in Caller \ {p} : target'[q] = target[q]
  BY DEF Canceled, Unavailable, Applied, FollowHint, Refused, NextAddr, ClientInv, TypeOK
<1>6. /\ mine' = [mine EXCEPT ![p] = None]
      /\ tries' \in [Caller -> 0..MaxAttempts - 1]
      /\ result' \in [Caller -> {"none", "applied", "refused", "error"}]
  BY <1>2, AgainType DEF ClientInv
<1>7. TypeOK' /\ \A q \in Caller \ {p} : mine'[q] = mine[q]
  BY <1>1, <1>3, <1>4, <1>6 DEF ClientInv, TypeOK, PC
<1>8. pc[p] \notin Redials
  BY <1>1 DEF Redials, Redial, Installs
<1>. QED  BY <1>1, <1>3, <1>5, <1>7, <1>8, OutsideInv, PlainPC

\* A refusal without a hint: the index is read.
LEMMA RoundRobinInv ==
  ASSUME ClientInv, NEW p \in Caller, RoundRobin(p)
  PROVE  ClientInv'
<1> USE DEF nodeVars, clientVars, connVars, historyVars
<1>1. /\ pc[p] = "wait" /\ pc' = [pc EXCEPT ![p] = "next"]
      /\ seen' = [seen EXCEPT ![p] = currentIdx]
      /\ UNCHANGED <<target, tries, mine, result, nodeVars, clientVars, connVars, historyVars>>
  BY DEF RoundRobin, ReadIndex, Goto, Refuses, Reaches
<1>2. TypeOK'
  BY <1>1 DEF ClientInv, TypeOK, PC
<1>3. pc[p] \notin Redials
  BY <1>1 DEF Redials, Redial, Installs
<1>. QED  BY <1>1, <1>2, <1>3, OutsideInv, PlainPC

\* A redial begins: alone, or beside others, of which all are marked.
LEMMA BeginRedialInv ==
  ASSUME ClientInv, NEW p \in Caller, Check(p), target[p] # addr
  PROVE  ClientInv'
<1> USE DEF nodeVars, clientVars, connVars
<1> DEFINE others == {q \in Caller \ {p} : pc[q] \in Redials}
<1>1. /\ pc[p] = "check" /\ pc' = [pc EXCEPT ![p] = "close"]
      /\ UNCHANGED <<ownVars, nodeVars, clientVars, connVars>>
      /\ \/ others = {} /\ clash' = clash /\ link' = link
         \/ others # {} /\ clash' = clash \union others \union {p} /\ link' = "torn"
  BY DEF Check, BeginRedial, Goto, historyVars, ownVars
<1> USE DEF ownVars
<1>2. pc'[p] = "close" /\ \A q \in Caller \ {p} : pc'[q] = pc[q]
  BY <1>1 DEF ClientInv, TypeOK
<1>3. TypeOK'
  BY <1>1 DEF ClientInv, TypeOK, PC
<1>4. InstallsItsOwn'
  BY <1>1, <1>2 DEF ClientInv, InstallsItsOwn, Installs
<1>5. OverlapIsTorn'
  <2>1. CASE others = {}
    <3>1. /\ clash' = clash /\ link' = link
          /\ \A q \in Caller \ {p} : pc[q] \notin Redials /\ pc'[q] \notin Redials
      BY <1>1, <1>2, <2>1
    <3>2. p \notin clash /\ clash \subseteq Caller
      BY <1>1 DEF ClientInv, OverlapIsTorn, TypeOK, Redials, Redial, Installs
    <3>. QED  BY <3>1, <3>2 DEF ClientInv, OverlapIsTorn
  <2>2. CASE others # {}
    <3>1. clash' = clash \union others \union {p} /\ link' = "torn"
      BY <1>1, <2>2
    <3>2. \A q \in clash : q \in Caller /\ pc[q] \in Redials
      BY DEF ClientInv, TypeOK, OverlapIsTorn
    <3>3. \A q \in clash' : pc'[q] \in Redials /\ link' = "torn"
      BY <1>2, <3>1, <3>2 DEF Redials
    <3>4. ASSUME NEW q \in Caller, NEW t \in Caller, q # t,
                 pc'[q] \in Redials, pc'[t] \in Redials
          PROVE  q \in clash'
      BY <1>2, <3>1, <3>4
    <3>. QED  BY <3>3, <3>4 DEF OverlapIsTorn
  <2>. QED  BY <2>1, <2>2
<1>6. AloneInstalls'
  BY <1>1, <1>2 DEF ClientInv, AloneInstalls, Installs
<1>7. StaysConnected'
  <2>1. \A q \in Caller : /\ pc'[q] \in Installs <=> pc[q] \in Installs
                          /\ pc'[q] \in Redial <=> pc[q] \in Redial
    BY <1>1, <1>2 DEF Installs, Redial
  <2>. QED  BY <1>1, <2>1 DEF ClientInv, StaysConnected
<1>. QED  BY <1>3, <1>4, <1>5, <1>6, <1>7 DEF ClientInv

\* A caller that redials is alone, or the client is torn.
LEMMA AloneOrTorn ==
  ASSUME ClientInv, NEW p \in Caller, pc[p] \in Redials
  PROVE  /\ p \in clash => link = "torn"
         /\ p \notin clash => \A q \in Caller \ {p} : pc[q] \notin Redials
BY DEF ClientInv, OverlapIsTorn

LEMMA RedialSets == /\ Installs \subseteq Redial /\ Redial \subseteq Redials
                    /\ "setsvc" \in Installs /\ "setaddr" \in Installs
BY DEF Installs, Redial, Redials

\* The old connection is closed, before there is another.
LEMMA CloseOldInv ==
  ASSUME ClientInv, NEW p \in Caller, CloseOld(p)
  PROVE  ClientInv'
<1>1. /\ pc[p] = "close" /\ pc' = [pc EXCEPT ![p] = "dial"]
      /\ open' = [open EXCEPT ![cc] = FALSE]
      /\ UNCHANGED <<to, ownVars, nodeVars, clientVars, historyVars>>
  BY DEF CloseOld, Goto
<1> USE DEF nodeVars, clientVars, ownVars, historyVars
<1>2. pc'[p] = "dial" /\ \A q \in Caller \ {p} : pc'[q] = pc[q]
  BY <1>1 DEF ClientInv, TypeOK
<1>3. TypeOK'
  BY <1>1 DEF ClientInv, TypeOK, PC, Redial
<1>4. InstallsItsOwn'
  BY <1>1, <1>2 DEF ClientInv, InstallsItsOwn, Installs
<1>5. OverlapIsTorn'
  <2>1. \A q \in Caller : pc'[q] \in Redials <=> pc[q] \in Redials
    BY <1>1, <1>2 DEF Redials, Redial
  <2>2. clash \subseteq Caller
    BY DEF ClientInv, TypeOK
  <2>. QED  BY <1>1, <2>1, <2>2 DEF ClientInv, OverlapIsTorn
<1>6. AloneInstalls'
  <2>1. CASE p \in clash
    <3>1. ASSUME NEW q \in Caller \ clash, pc'[q] \in Installs PROVE FALSE
      <4>1. q # p /\ pc[q] \in Redials /\ pc[p] \in Redials
        BY <1>1, <1>2, <2>1, <3>1, RedialSets DEF Redials
      <4>. QED  BY <1>1, <3>1, <4>1 DEF ClientInv, OverlapIsTorn
    <3>. QED  BY <1>1, <3>1, RedialSets DEF AloneInstalls
  <2>2. CASE p \notin clash
    <3>1. \A q \in Caller : pc'[q] \notin Installs
      BY <1>1, <1>2, <2>2, AloneOrTorn, RedialSets DEF Redials, Installs
    <3>. QED  BY <1>1, <3>1, RedialSets DEF AloneInstalls
  <2>. QED  BY <2>1, <2>2
<1>7. StaysConnected'
  <2>1. \A q \in Caller : pc'[q] \in Installs <=> pc[q] \in Installs
    BY <1>1, <1>2 DEF Installs
  <2>2. pc'[p] \in Redial
    BY <1>2 DEF Redial
  <2>. QED  BY <1>1, <2>1, <2>2 DEF ClientInv, StaysConnected
<1>. QED  BY <1>3, <1>4, <1>5, <1>6, <1>7 DEF ClientInv

\* A connection is made: it is nobody else's.
LEMMA DialInv ==
  ASSUME ClientInv, NEW p \in Caller, Dial(p)
  PROVE  ClientInv'
<1>1. /\ pc[p] = "dial" /\ pc' = [pc EXCEPT ![p] = "setcc"]
      /\ to' = [to EXCEPT ![fresh] = target[p]]
      /\ open' = [open EXCEPT ![fresh] = TRUE]
      /\ mine' = [mine EXCEPT ![p] = fresh]
      /\ UNCHANGED <<target, tries, seen, result, nodeVars, clientVars, historyVars>>
  BY DEF Dial, Goto
<1> USE DEF nodeVars, clientVars, historyVars
<1>2. fresh \in Conn /\ fresh \notin {cc, svc} /\ \A q \in Caller : mine[q] # fresh
  BY FreshIsUnused DEF ClientInv
<1> DEFINE k == fresh
<1> HIDE DEF k
<1>3. /\ pc'[p] = "setcc" /\ mine'[p] = k /\ to'[k] = target[p] /\ open'[k] = TRUE
      /\ \A q \in Caller \ {p} : pc'[q] = pc[q] /\ mine'[q] = mine[q]
      /\ \A j \in Conn \ {k} : to'[j] = to[j] /\ open'[j] = open[j]
  BY <1>1, <1>2 DEF ClientInv, TypeOK, k
<1>4. TypeOK'
  BY <1>1, <1>2 DEF ClientInv, TypeOK, PC, Redial, Installs
<1>5. InstallsItsOwn'
  BY <1>1, <1>2, <1>3 DEF ClientInv, InstallsItsOwn, Installs, k
<1>6. OverlapIsTorn'
  <2>1. pc[p] \in Redials /\ pc'[p] \in Redials
    BY <1>1, <1>3 DEF Redials, Redial, Installs
  <2>. QED  BY <1>1, <1>3, <2>1 DEF ClientInv, OverlapIsTorn
<1>7. AloneInstalls'
  <2>1. ASSUME NEW q \in Caller \ clash, q # p, pc[q] \in Installs
        PROVE  open'[mine'[q]]
    <3>1. mine[q] \in Conn \ {k} /\ open[mine[q]]
      BY <1>2, <2>1 DEF ClientInv, InstallsItsOwn, AloneInstalls, k
    <3>. QED  BY <1>3, <2>1, <3>1
  <2>2. ASSUME NEW q \in Caller \ clash'
        PROVE  /\ pc'[q] \in Installs => open'[mine'[q]]
               /\ pc'[q] \in {"setsvc", "setaddr"} => cc' = mine'[q]
               /\ pc'[q] = "setaddr" => svc' = mine'[q]
    BY <1>1, <1>3, <2>1 DEF ClientInv, AloneInstalls
  <2>. QED  BY <2>2 DEF AloneInstalls
<1>8. StaysConnected'
  <2>1. pc'[p] \in Installs /\ pc'[p] \in Redial
    BY <1>3 DEF Installs, Redial
  <2>. QED  BY <2>1 DEF StaysConnected
<1>. QED  BY <1>4, <1>5, <1>6, <1>7, <1>8 DEF ClientInv

\* None can be made of a malformed address: the client keeps the closed one.
LEMMA DialFailsInv ==
  ASSUME ClientInv, NEW p \in Caller, DialFails(p)
  PROVE  ClientInv'
<1> USE DEF nodeVars, clientVars, connVars
<1>1. /\ pc[p] = "dial" /\ pc' = [pc EXCEPT ![p] = "next"]
      /\ seen' = [seen EXCEPT ![p] = currentIdx]
      /\ clash' = clash \ {p}
      /\ link' = IF p \in clash \/ link = "torn" THEN link ELSE "closed"
      /\ UNCHANGED <<target, tries, mine, result, nodeVars, clientVars, connVars>>
  BY DEF DialFails, ReadIndex, EndRedial, Goto
<1>2. pc'[p] = "next" /\ \A q \in Caller \ {p} : pc'[q] = pc[q]
  BY <1>1 DEF ClientInv, TypeOK
<1>3. TypeOK'
  BY <1>1 DEF ClientInv, TypeOK, PC
<1>4. InstallsItsOwn'
  BY <1>1, <1>2 DEF ClientInv, InstallsItsOwn, Installs
<1>5. pc[p] \in Redials /\ pc'[p] \notin Redials
  BY <1>1, <1>2 DEF Redials, Redial, Installs
<1>6. OverlapIsTorn'
  <2>1. \A q \in clash \ {p} : q \in Caller /\ pc'[q] \in Redials /\ link = "torn"
    BY <1>2 DEF ClientInv, TypeOK, OverlapIsTorn
  <2>2. (\E q \in clash : q # p) => p \in clash
    BY <1>5, <2>1 DEF ClientInv, OverlapIsTorn
  <2>3. \A q \in clash' : pc'[q] \in Redials /\ link' = "torn"
    BY <1>1, <2>1, <2>2
  <2>4. ASSUME NEW q \in Caller, NEW t \in Caller, q # t,
               pc'[q] \in Redials, pc'[t] \in Redials
        PROVE  q \in clash'
    BY <1>1, <1>2, <1>5, <2>4 DEF ClientInv, OverlapIsTorn
  <2>. QED  BY <2>3, <2>4 DEF OverlapIsTorn
<1>7. AloneInstalls'
  BY <1>1, <1>2 DEF ClientInv, AloneInstalls, Installs
<1>8. StaysConnected'
  <2>1. link' # "whole"
    BY <1>1, <1>5, AloneOrTorn
  <2>2. \A q \in Caller : pc'[q] \in Installs <=> pc[q] \in Installs
    BY <1>1, <1>2 DEF Installs
  <2>3. link' # "torn" => link # "torn"
    BY <1>1
  <2>. QED  BY <1>1, <2>1, <2>2, <2>3 DEF ClientInv, StaysConnected
<1>. QED  BY <1>3, <1>4, <1>6, <1>7, <1>8 DEF ClientInv

\* Connection and stub are replaced.
LEMMA InstallInv ==
  ASSUME ClientInv, NEW p \in Caller, SetConn(p) \/ SetService(p)
  PROVE  ClientInv'
<1> USE DEF nodeVars, connVars, historyVars, ownVars
<1>1. /\ pc[p] \in Installs /\ mine[p] \in Conn /\ to[mine[p]] = target[p]
      /\ UNCHANGED <<addr, currentIdx, connVars, ownVars, nodeVars, historyVars>>
      /\ \/ /\ pc[p] = "setcc" /\ pc' = [pc EXCEPT ![p] = "setsvc"]
            /\ cc' = mine[p] /\ svc' = svc
         \/ /\ pc[p] = "setsvc" /\ pc' = [pc EXCEPT ![p] = "setaddr"]
            /\ svc' = mine[p] /\ cc' = cc
  BY DEF ClientInv, InstallsItsOwn, Installs, SetConn, SetService, Goto
<1>2. /\ \/ pc[p] = "setcc" /\ pc'[p] = "setsvc" /\ cc' = mine[p] /\ svc' = svc
         \/ pc[p] = "setsvc" /\ pc'[p] = "setaddr" /\ svc' = mine[p] /\ cc' = cc
      /\ \A q \in Caller \ {p} : pc'[q] = pc[q]
  BY <1>1 DEF ClientInv, TypeOK
<1>3. TypeOK'
  BY <1>1 DEF ClientInv, TypeOK, PC, Redial, Installs
<1>4. InstallsItsOwn'
  BY <1>1, <1>2 DEF ClientInv, InstallsItsOwn, Installs
<1>5. pc[p] \in Redials /\ pc'[p] \in Redials /\ pc'[p] \in Redial /\ pc'[p] \in Installs
  BY <1>2 DEF Redials, Redial, Installs
<1>6. OverlapIsTorn'
  <2>1. \A q \in Caller : pc'[q] \in Redials <=> pc[q] \in Redials
    BY <1>2, <1>5
  <2>2. clash \subseteq Caller
    BY DEF ClientInv, TypeOK
  <2>. QED  BY <1>1, <2>1, <2>2 DEF ClientInv, OverlapIsTorn
<1>7. AloneInstalls'
  <2>1. ASSUME NEW q \in Caller \ clash, q # p PROVE pc'[q] \notin Installs
    <3>1. pc[q] \notin Redials
      BY <1>5, <2>1 DEF ClientInv, OverlapIsTorn
    <3>. QED  BY <1>2, <2>1, <3>1, RedialSets
  <2>2. p \notin clash => /\ open[mine[p]]
                          /\ pc'[p] \in {"setsvc", "setaddr"} => cc' = mine[p]
                          /\ pc'[p] = "setaddr" => svc' = mine[p]
    BY <1>1, <1>2 DEF ClientInv, AloneInstalls
  <2>3. clash' = clash /\ mine' = mine /\ open' = open
    BY <1>1
  <2>4. ASSUME NEW q \in Caller \ clash'
        PROVE  /\ pc'[q] \in Installs => open'[mine'[q]]
               /\ pc'[q] \in {"setsvc", "setaddr"} => cc' = mine'[q]
               /\ pc'[q] = "setaddr" => svc' = mine'[q]
    <3>1. CASE q = p
      <4>1. p \notin clash
        BY <2>3, <2>4, <3>1
      <4>2. open'[mine'[p]]
        BY <2>2, <2>3, <4>1
      <4>3. /\ pc'[p] \in {"setsvc", "setaddr"} => cc' = mine'[p]
            /\ pc'[p] = "setaddr" => svc' = mine'[p]
        BY <2>2, <2>3, <4>1
      <4>. QED  BY <3>1, <4>2, <4>3
    <3>2. CASE q # p
      <4>1. pc'[q] \notin Installs
        BY <2>1, <2>3, <2>4, <3>2
      <4>. QED  BY <4>1 DEF Installs
    <3>. QED  BY <3>1, <3>2
  <2>. QED  BY <2>4 DEF AloneInstalls
<1>8. StaysConnected'
  BY <1>5 DEF StaysConnected
<1>. QED  BY <1>3, <1>4, <1>6, <1>7, <1>8 DEF ClientInv

\* The redial ends: one that was made alone has mended the client.
LEMMA SetAddrInv ==
  ASSUME ClientInv, NEW p \in Caller, SetAddr(p)
  PROVE  ClientInv'
<1> USE DEF nodeVars, connVars, ownVars
<1>1. /\ pc[p] = "setaddr" /\ pc' = [pc EXCEPT ![p] = "call"]
      /\ addr' = target[p]
      /\ clash' = clash \ {p} /\ link' = IF p \in clash THEN link ELSE "whole"
      /\ UNCHANGED <<cc, svc, currentIdx, connVars, ownVars, nodeVars>>
  BY DEF SetAddr, EndRedial, Goto
<1>2. pc'[p] = "call" /\ \A q \in Caller \ {p} : pc'[q] = pc[q]
  BY <1>1 DEF ClientInv, TypeOK
<1>3. TypeOK'
  BY <1>1 DEF ClientInv, TypeOK, PC
<1>4. InstallsItsOwn'
  BY <1>1, <1>2 DEF ClientInv, InstallsItsOwn, Installs
<1>5. pc[p] \in Redials /\ pc'[p] \notin Redials
  BY <1>1, <1>2 DEF Redials, Redial, Installs
<1>6. OverlapIsTorn'
  <2>1. \A q \in clash \ {p} : q \in Caller /\ pc'[q] \in Redials /\ link = "torn"
    BY <1>2 DEF ClientInv, TypeOK, OverlapIsTorn
  <2>2. (\E q \in clash : q # p) => p \in clash
    BY <1>5, <2>1 DEF ClientInv, OverlapIsTorn
  <2>3. \A q \in clash' : pc'[q] \in Redials /\ link' = "torn"
    BY <1>1, <2>1, <2>2
  <2>4. ASSUME NEW q \in Caller, NEW t \in Caller, q # t,
               pc'[q] \in Redials, pc'[t] \in Redials
        PROVE  q \in clash'
    BY <1>1, <1>2, <1>5, <2>4 DEF ClientInv, OverlapIsTorn
  <2>. QED  BY <2>3, <2>4 DEF OverlapIsTorn
<1>7. AloneInstalls'
  BY <1>1, <1>2 DEF ClientInv, AloneInstalls, Installs
<1>8. StaysConnected'
  <2>1. CASE p \in clash
    BY <1>1, <1>5, <2>1, AloneOrTorn DEF StaysConnected
  <2>2. CASE p \notin clash
    <3>1. cc = mine[p] /\ svc = mine[p] /\ to[mine[p]] = target[p] /\ open[mine[p]]
      BY <1>1, <2>2 DEF ClientInv, AloneInstalls, InstallsItsOwn, Installs
    <3>. QED  BY <1>1, <3>1 DEF StaysConnected
  <2>. QED  BY <2>1, <2>2
<1>. QED  BY <1>3, <1>4, <1>6, <1>7, <1>8 DEF ClientInv

LEMMA NextClient ==
  ASSUME ClientInv, [Next]_vars
  PROVE  ClientInv'
<1>1. CASE UNCHANGED vars
  BY <1>1 DEF vars, nodeVars, clientVars, connVars, callerVars, ownVars, historyVars,
              ClientInv, TypeOK, InstallsItsOwn, OverlapIsTorn, AloneInstalls, StaysConnected
<1>2. ASSUME NEW p \in Caller, Step(p) PROVE ClientInv'
  BY <1>2, LoopInv, BeginRedialInv, AnswerInv, RoundRobinInv, CloseOldInv, DialInv,
     DialFailsInv, InstallInv, SetAddrInv DEF Step
<1>. QED  BY <1>1, <1>2, NodeStepInv DEF Next

-----------------------------------------------------------------------------
\* The invariant, for callers that interleave as they like: what each installs
\* is its own, redials that overlap are known to, and one that is made alone
\* replaces the client's connection as a whole.
THEOREM ClientInvariance == Spec => []ClientInv
BY InitClient, NextClient, PTL DEF Spec

\* However many handlers share the client, which takes no lock, and whatever the
\* nodes do: it is left with a stub on its own open connection to the address it
\* takes itself to be at, except after redials that overlapped or an address that
\* could not be dialled, and then only until the next redial made alone.
THEOREM ClientConnected == Spec => []ClientIsConnected
<1>1. ClientInv => ClientIsConnected
  BY DEF ClientInv, StaysConnected, ClientIsConnected, Redial
<1>. QED  BY <1>1, ClientInvariance, PTL
=============================================================================
