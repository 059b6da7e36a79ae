--------------------------- MODULE DataPlaneProofs ---------------------------
(***************************************************************************)
(* Proofs about DataPlane, for every number of flows, keys, sources and    *)
(* generations and every capacity.                                         *)
(*                                                                         *)
(* InUseRetained is not inductive: that the scan lets go of no generation  *)
(* in use needs that a generation found idle stays unused (ScanSound),     *)
(* and that needs the count to be exact (RefsExact) when it is read, and   *)
(* the second look of `acquire' afterwards.                                *)
(***************************************************************************)
EXTENDS DataPlane, FoldFacts

\* The flows that a generation counts as active
ActiveIn(g) ==
    {f \in Flows : fpc[f] \in {"active", "closing", "unregistered"} /\ gen[f] = g}

\* The active counter of every generation is the number of flows it is serving.
ActiveExact == \A g \in Generations : stats[g].active = Cardinality(ActiveIn(g))

\* Replaced generations are older than the current one; the scan looks only at them,
\* and one that it found idle handles no flow.
ScanSound ==
    /\ \A g \in retired : g < current
    /\ scan.todo \subseteq retired
    /\ scan.idle # Nil => scan.idle \in retired \ scan.todo /\ ~InUse(scan.idle)

\* The limiter's own counts stay within its limits.
LimiterBound ==
    /\ Cardinality(sessions) <= MaxSessions
    /\ \A s \in Sources : perSource[s] <= MaxPerSource

PlaneInv ==
    /\ PlaneTypeOK
    /\ RefsExact
    /\ ActiveExact
    /\ RegistryExact
    /\ LimiterBound
    /\ ScanSound
    /\ InUseRetained

-----------------------------------------------------------------------------
\* Two sets that differ at most in one element: their cardinalities.
LEMMA OneElement ==
    ASSUME NEW U, IsFiniteSet(U), NEW P \in SUBSET U, NEW Q \in SUBSET U, NEW x \in U,
           \A y \in U \ {x} : y \in P <=> y \in Q
    PROVE  /\ Cardinality(P) \in Nat /\ Cardinality(Q) \in Nat
           /\ (x \in P <=> x \in Q) => Cardinality(Q) = Cardinality(P)
           /\ (x \notin P /\ x \in Q) => Cardinality(Q) = Cardinality(P) + 1
           /\ (x \in P /\ x \notin Q) => Cardinality(P) = Cardinality(Q) + 1
<1>1. IsFiniteSet(P) /\ IsFiniteSet(Q)
    BY FS_Subset
<1>2. Cardinality(P) \in Nat /\ Cardinality(Q) \in Nat
    BY <1>1, FS_CardinalityType
<1>3. (x \in P <=> x \in Q) => P = Q
    OBVIOUS
<1>4. ASSUME x \notin P, x \in Q PROVE Cardinality(Q) = Cardinality(P) + 1
  <2>1. Q = P \cup {x}
    BY <1>4
  <2> QED BY <1>1, <1>4, <2>1, FS_AddElement
<1>5. ASSUME x \in P, x \notin Q PROVE Cardinality(P) = Cardinality(Q) + 1
  <2>1. P = Q \cup {x}
    BY <1>5
  <2> QED BY <1>1, <1>5, <2>1, FS_AddElement
<1> QED BY <1>2, <1>3, <1>4, <1>5

\* A step of one flow leaves every other flow where it is.
LEMMA OthersStay ==
    ASSUME PlaneTypeOK, NEW f \in Flows, FlowStep(f)
    PROVE  \A h \in Flows \ {f} : fpc'[h] = fpc[h] /\ gen'[h] = gen[h]
<1> USE DEF PlaneTypeOK, GotoFlow
<1>1. CASE Load(f)
    BY <1>1 DEF Load
<1>2. CASE CountIn(f)
    BY <1>2 DEF CountIn
<1>3. CASE Recheck(f)
    BY <1>3 DEF Recheck
<1>4. CASE CountOut(f)
    BY <1>4 DEF CountOut
<1>5. CASE Register(f)
    BY <1>5 DEF Register
<1>6. CASE Refuse(f)
    BY <1>6 DEF Refuse
<1>7. CASE CountTotal(f)
    BY <1>7 DEF CountTotal
<1>8. CASE CountActive(f)
    BY <1>8 DEF CountActive
<1>9. CASE EndFlow(f)
    BY <1>9 DEF EndFlow
<1>10. CASE Unregister(f)
    BY <1>10 DEF Unregister
<1>11. CASE CountInactive(f)
    BY <1>11 DEF CountInactive
<1> QED BY <1>1, <1>2, <1>3, <1>4, <1>5, <1>6, <1>7, <1>8, <1>9, <1>10, <1>11
        DEF FlowStep, RunFlow

\* A step of the plane's own leaves all flows where they are.
LEMMA FlowsStay ==
    ASSUME Commit \/ Poll \/ Prune \/ UNCHANGED vars
    PROVE  fpc' = fpc /\ gen' = gen /\ refs' = refs /\ stats' = stats
           /\ sessions' = sessions /\ perSource' = perSource
BY DEF Commit, Poll, Prune, PruneCheck, PruneFold, PruneDone, vars, planeVars, limiterVars

\* A step of a flow leaves the list of generations and the scan alone.
LEMMA PlaneStays ==
    ASSUME NEW f \in Flows, FlowStep(f)
    PROVE  current' = current /\ retired' = retired /\ base' = base /\ scan' = scan
BY DEF FlowStep, RunFlow, Load, CountIn, Recheck, CountOut, Register, Refuse, CountTotal,
       CountActive, EndFlow, Unregister, CountInactive, planeVars

-----------------------------------------------------------------------------
\* Every step keeps the counts of the generations exact.
LEMMA RefsStep == PlaneInv /\ [PlaneNext]_vars => RefsExact'
<1> SUFFICES ASSUME PlaneInv, [PlaneNext]_vars, NEW g \in Generations
             PROVE  refs'[g] = Cardinality(Holders(g)')
    BY DEF RefsExact
<1>1. CASE Commit \/ Poll \/ Prune \/ UNCHANGED vars
  <2>1. Holders(g)' = Holders(g)
    BY <1>1, FlowsStay DEF Holders
  <2> QED BY <1>1, <2>1, FlowsStay DEF PlaneInv, RefsExact
<1>2. ASSUME NEW f \in Flows, FlowStep(f)
      PROVE  refs'[g] = Cardinality(Holders(g)')
  <2> DEFINE P == Holders(g)
             Q == Holders(g)'
  <2>1. /\ P \in SUBSET Flows /\ Q \in SUBSET Flows
        /\ \A h \in Flows \ {f} : h \in P <=> h \in Q
    BY <1>2, OthersStay DEF Holders, PlaneInv
  <2>2. /\ f \in P <=> fpc[f] \in Holding /\ gen[f] = g
        /\ f \in Q <=> fpc'[f] \in Holding /\ gen'[f] = g
    BY DEF Holders
  <2>3. refs[g] = Cardinality(P)
    BY DEF PlaneInv, RefsExact
  <2>4. /\ Cardinality(P) \in Nat /\ Cardinality(Q) \in Nat
        /\ (f \in P <=> f \in Q) => Cardinality(Q) = Cardinality(P)
        /\ (f \notin P /\ f \in Q) => Cardinality(Q) = Cardinality(P) + 1
        /\ (f \in P /\ f \notin Q) => Cardinality(P) = Cardinality(Q) + 1
    BY <2>1, OneElement, FlowsAssumption
  <2> SUFFICES refs'[g] = Cardinality(Q)
    OBVIOUS
  <2> HIDE DEF P, Q
  <2> USE <2>2, <2>3, <2>4 DEF PlaneInv, PlaneTypeOK, GotoFlow, Holding
  <2>5. CASE Load(f)
    BY <2>5 DEF Load, planeVars
  <2>6. CASE CountIn(f)
    BY <2>6 DEF CountIn
  <2>7. CASE Recheck(f)
    BY <2>7 DEF Recheck, planeVars
  <2>8. CASE CountOut(f)
    BY <2>8 DEF CountOut
  <2>9. CASE Register(f) \/ Refuse(f)
    BY <2>9 DEF Register, Refuse, planeVars
  <2>10. CASE CountTotal(f) \/ CountActive(f) \/ CountInactive(f)
    BY <2>10 DEF CountTotal, CountActive, CountInactive
  <2>11. CASE EndFlow(f) \/ Unregister(f)
    BY <2>11 DEF EndFlow, Unregister, planeVars
  <2> QED BY <1>2, <2>5, <2>6, <2>7, <2>8, <2>9, <2>10, <2>11 DEF FlowStep, RunFlow
<1> QED BY <1>1, <1>2 DEF PlaneNext

\* Every step keeps the active counters exact.
LEMMA ActiveStep == PlaneInv /\ [PlaneNext]_vars => ActiveExact'
<1> SUFFICES ASSUME PlaneInv, [PlaneNext]_vars, NEW g \in Generations
             PROVE  stats'[g].active = Cardinality(ActiveIn(g)')
    BY DEF ActiveExact
<1>1. CASE Commit \/ Poll \/ Prune \/ UNCHANGED vars
  <2>1. ActiveIn(g)' = ActiveIn(g)
    BY <1>1, FlowsStay DEF ActiveIn
  <2> QED BY <1>1, <2>1, FlowsStay DEF PlaneInv, ActiveExact
<1>2. ASSUME NEW f \in Flows, FlowStep(f)
      PROVE  stats'[g].active = Cardinality(ActiveIn(g)')
  <2> DEFINE P == ActiveIn(g)
             Q == ActiveIn(g)'
             Serving == {"active", "closing", "unregistered"}
  <2>1. /\ P \in SUBSET Flows /\ Q \in SUBSET Flows
        /\ \A h \in Flows \ {f} : h \in P <=> h \in Q
    BY <1>2, OthersStay DEF ActiveIn, PlaneInv
  <2>2. /\ f \in P <=> fpc[f] \in Serving /\ gen[f] = g
        /\ f \in Q <=> fpc'[f] \in Serving /\ gen'[f] = g
    BY DEF ActiveIn
  <2>3. stats[g].active = Cardinality(P)
    BY DEF PlaneInv, ActiveExact
  <2>4. /\ Cardinality(P) \in Nat /\ Cardinality(Q) \in Nat
        /\ (f \in P <=> f \in Q) => Cardinality(Q) = Cardinality(P)
        /\ (f \notin P /\ f \in Q) => Cardinality(Q) = Cardinality(P) + 1
        /\ (f \in P /\ f \notin Q) => Cardinality(P) = Cardinality(Q) + 1
    BY <2>1, OneElement, FlowsAssumption
  <2> SUFFICES stats'[g].active = Cardinality(Q)
    OBVIOUS
  <2> HIDE DEF P, Q
  <2> USE <2>2, <2>3, <2>4 DEF PlaneInv, PlaneTypeOK, GotoFlow, Stats
  <2>5. CASE Load(f) \/ Recheck(f)
    BY <2>5 DEF Load, Recheck, planeVars
  <2>6. CASE CountIn(f) \/ CountOut(f)
    BY <2>6 DEF CountIn, CountOut
  <2>7. CASE CountTotal(f)
    BY <2>7 DEF CountTotal
  <2>8. CASE CountActive(f)
    BY <2>8 DEF CountActive
  <2>9. CASE CountInactive(f)
    BY <2>9 DEF CountInactive
  <2>10. CASE Register(f) \/ Refuse(f)
    BY <2>10 DEF Register, Refuse, planeVars
  <2>11. CASE EndFlow(f) \/ Unregister(f)
    BY <2>11 DEF EndFlow, Unregister, planeVars
  <2> QED BY <1>2, <2>5, <2>6, <2>7, <2>8, <2>9, <2>10, <2>11 DEF FlowStep, RunFlow
<1> QED BY <1>1, <1>2 DEF PlaneNext

\* A flow comes to handle a generation only by its second look, when it is current.
LEMMA ComesToHandle ==
    ASSUME PlaneTypeOK, NEW f \in Flows, FlowStep(f), fpc'[f] \in Handling
    PROVE  gen'[f] = gen[f] /\ (fpc[f] \in Handling \/ gen[f] = current)
<1> USE DEF PlaneTypeOK, GotoFlow, Handling, Holding
<1>1. CASE Load(f) \/ CountIn(f) \/ Recheck(f) \/ CountOut(f)
    BY <1>1 DEF Load, CountIn, Recheck, CountOut
<1>2. CASE Register(f) \/ Refuse(f) \/ CountTotal(f)
    BY <1>2 DEF Register, Refuse, CountTotal
<1>3. CASE CountActive(f) \/ EndFlow(f) \/ Unregister(f) \/ CountInactive(f)
    BY <1>3 DEF CountActive, EndFlow, Unregister, CountInactive
<1> QED BY <1>1, <1>2, <1>3 DEF FlowStep, RunFlow

\* A generation whose count is zero handles no flow.
LEMMA ZeroUnused ==
    ASSUME PlaneTypeOK, RefsExact, NEW g \in Generations, refs[g] = 0
    PROVE  ~InUse(g)
<1>1. IsFiniteSet(Holders(g))
    BY FlowsAssumption, FS_Subset DEF Holders
<1>2. Holders(g) = {}
    BY <1>1, FS_EmptySet DEF RefsExact
<1> QED BY <1>2 DEF InUse, Holders, Handling

\* Every step keeps what the scan relies on.
LEMMA ScanStep == PlaneInv /\ [PlaneNext]_vars => ScanSound'
<1> SUFFICES ASSUME PlaneInv, [PlaneNext]_vars PROVE ScanSound'
    OBVIOUS
<1> USE DEF PlaneInv
<1>1. ASSUME NEW f \in Flows, FlowStep(f) PROVE ScanSound'
  <2>1. current' = current /\ retired' = retired /\ scan' = scan
    BY <1>1, PlaneStays
  <2>2. ASSUME scan.idle # Nil, InUse(scan.idle)' PROVE FALSE
    <3>1. PICK h \in Flows : fpc'[h] \in Handling /\ gen'[h] = scan.idle
      BY <2>1, <2>2 DEF InUse
    <3>2. scan.idle \in retired /\ ~InUse(scan.idle) /\ scan.idle < current
      BY <2>2 DEF ScanSound
    <3>3. scan.idle # current
      BY <3>2, GenerationsAssumption DEF PlaneTypeOK, Generations
    <3>4. CASE h = f
      BY <1>1, <3>1, <3>2, <3>3, <3>4, ComesToHandle DEF InUse
    <3>5. CASE h # f
      BY <1>1, <3>1, <3>2, <3>5, OthersStay DEF InUse
    <3> QED BY <3>4, <3>5
  <2> QED BY <2>1, <2>2 DEF ScanSound
<1>2. CASE Commit \/ Poll \/ Prune \/ UNCHANGED vars
  <2>1. ASSUME NEW g PROVE InUse(g)' <=> InUse(g)
    BY <1>2, FlowsStay DEF InUse
  <2>2. CASE Commit
    BY <2>2 DEF Commit, ScanSound, PlaneTypeOK, Generations
  <2>3. CASE Poll
    BY <2>3 DEF Poll, ScanSound
  <2>4. ASSUME NEW g \in Generations, PruneCheck(g) PROVE ScanSound'
    <3>1. refs[g] = 0 => ~InUse(g)
      BY ZeroUnused
    <3>2. /\ current' = current /\ retired' = retired /\ g \in retired
          /\ scan'.todo = scan.todo \ {g}
          /\ scan'.idle = IF refs[g] = 0 THEN g ELSE Nil
      BY <2>4 DEF PruneCheck, PlaneTypeOK, ScanSound
    <3>3. scan'.idle # Nil => ~InUse(scan.idle)'
      BY <1>2, <3>1, <3>2, FlowsStay DEF InUse
    <3> QED BY <3>2, <3>3 DEF ScanSound
  <2>5. CASE PruneFold
    BY <2>5 DEF PruneFold, ScanSound, PlaneTypeOK
  <2>6. CASE PruneDone
    BY <2>6 DEF PruneDone, ScanSound, Idle
  <2>7. CASE UNCHANGED vars
    BY <2>1, <2>7 DEF vars, planeVars, ScanSound
  <2> QED BY <1>2, <2>2, <2>3, <2>4, <2>5, <2>6, <2>7 DEF Prune
<1> QED BY <1>1, <1>2 DEF PlaneNext

\* Every step keeps the generations in use.
LEMMA RetainedStep == PlaneInv /\ [PlaneNext]_vars => InUseRetained'
<1> SUFFICES ASSUME PlaneInv, [PlaneNext]_vars, NEW h \in Flows, fpc'[h] \in Handling
             PROVE  gen'[h] \in retired' \cup {current'}
    BY DEF InUseRetained
<1> USE DEF PlaneInv
<1>1. ASSUME NEW f \in Flows, FlowStep(f) PROVE gen'[h] \in retired' \cup {current'}
  <2>1. CASE h = f
    BY <1>1, <2>1, ComesToHandle, PlaneStays DEF InUseRetained
  <2>2. CASE h # f
    BY <1>1, <2>2, OthersStay, PlaneStays DEF InUseRetained
  <2> QED BY <2>1, <2>2
<1>2. CASE Commit \/ Poll \/ Prune \/ UNCHANGED vars
  <2>1. fpc[h] \in Handling /\ gen'[h] = gen[h] /\ gen[h] \in retired \cup {current}
    BY <1>2, FlowsStay DEF InUseRetained
  <2>2. CASE Commit
    BY <2>1, <2>2 DEF Commit
  <2>3. CASE PruneFold
    BY <2>1, <2>3 DEF PruneFold, ScanSound, InUse
  <2>4. CASE Poll \/ (\E g \in Generations : PruneCheck(g)) \/ PruneDone \/ UNCHANGED vars
    BY <2>1, <2>4 DEF Poll, PruneCheck, PruneDone, vars, planeVars
  <2> QED BY <1>2, <2>2, <2>3, <2>4 DEF Prune
<1> QED BY <1>1, <1>2 DEF PlaneNext

-----------------------------------------------------------------------------
\* The keys in the registry from one source
OpenKeys(s) == {k \in sessions : SourceOf[k] = s}

\* Every step keeps the registry equal to the open sessions, within the limits.
LEMMA RegistryStep == PlaneInv /\ [PlaneNext]_vars => RegistryExact' /\ LimiterBound'
<1> SUFFICES ASSUME PlaneInv, [PlaneNext]_vars PROVE RegistryExact' /\ LimiterBound'
    OBVIOUS
<1> USE DEF PlaneInv
<1>1. ASSUME sessions' = sessions, perSource' = perSource,
             \A h \in UDPFlows : Registered(h)' <=> Registered(h)
      PROVE  RegistryExact' /\ LimiterBound'
  <2>1. {x \in UDPFlows : Registered(x)}' = {x \in UDPFlows : Registered(x)}
    BY <1>1
  <2> QED BY <1>1, <2>1 DEF RegistryExact, LimiterBound
<1>2. CASE Commit \/ Poll \/ Prune \/ UNCHANGED vars
    BY <1>1, <1>2, FlowsStay DEF Registered
<1>3. ASSUME NEW f \in Flows, FlowStep(f) PROVE RegistryExact' /\ LimiterBound'
  <2>1. \A h \in UDPFlows \ {f} : Registered(h)' <=> Registered(h)
    BY <1>3, OthersStay, FlowsAssumption DEF Registered
  <2>2. ASSUME sessions' = sessions, perSource' = perSource,
               f \in UDPFlows => (Registered(f)' <=> Registered(f))
        PROVE  RegistryExact' /\ LimiterBound'
    BY <1>1, <2>1, <2>2
  <2> USE DEF PlaneTypeOK, GotoFlow, limiterVars
  <2>3. CASE Load(f)
    BY <2>2, <2>3 DEF Load, Registered
  <2>4. CASE CountIn(f) \/ Recheck(f) \/ CountOut(f)
    BY <2>2, <2>4 DEF CountIn, Recheck, CountOut, Registered
  <2>5. CASE Refuse(f)
    BY <2>2, <2>5 DEF Refuse, Registered
  <2>6. CASE CountTotal(f)
    BY <2>2, <2>6 DEF CountTotal, Registered
  <2>7. CASE CountActive(f)
    BY <2>2, <2>7 DEF CountActive, Registered
  <2>8. CASE EndFlow(f)
    BY <2>2, <2>8 DEF EndFlow, Registered
  <2>9. CASE CountInactive(f)
    BY <2>2, <2>9 DEF CountInactive, Registered
  <2> DEFINE k == KeyOf[f]
             src == SourceOf[k]
  <2>10. ASSUME NEW s \in Sources, k \in Keys, sessions' \in SUBSET Keys,
                \A y \in Keys \ {k} : y \in sessions <=> y \in sessions'
         PROVE  /\ perSource[s] \in Nat /\ Cardinality(OpenKeys(s)') \in Nat
                /\ perSource[s] = Cardinality(OpenKeys(s))
                /\ src # s \/ (k \in sessions <=> k \in sessions')
                   => Cardinality(OpenKeys(s)') = perSource[s]
                /\ src = s /\ k \notin sessions /\ k \in sessions'
                   => Cardinality(OpenKeys(s)') = perSource[s] + 1
                /\ src = s /\ k \in sessions /\ k \notin sessions'
                   => perSource[s] = Cardinality(OpenKeys(s)') + 1
    <3> DEFINE P == OpenKeys(s)
               Q == OpenKeys(s)'
    <3>1. /\ P \in SUBSET Keys /\ Q \in SUBSET Keys
          /\ \A y \in Keys \ {k} : y \in P <=> y \in Q
      BY <2>10 DEF OpenKeys
    <3>2. (k \in P <=> k \in sessions /\ src = s) /\ (k \in Q <=> k \in sessions' /\ src = s)
      BY DEF OpenKeys
    <3>3. perSource[s] = Cardinality(P) /\ perSource[s] \in Nat
      BY DEF RegistryExact, OpenKeys
    <3>4. /\ Cardinality(P) \in Nat /\ Cardinality(Q) \in Nat
          /\ (k \in P <=> k \in Q) => Cardinality(Q) = Cardinality(P)
          /\ (k \notin P /\ k \in Q) => Cardinality(Q) = Cardinality(P) + 1
          /\ (k \in P /\ k \notin Q) => Cardinality(P) = Cardinality(Q) + 1
      BY <2>10, <3>1, OneElement, KeysAssumption
    <3> QED BY <3>2, <3>3, <3>4
  <2>11. ASSUME k \in Keys, sessions' \in SUBSET Keys,
                \A y \in Keys \ {k} : y \in sessions <=> y \in sessions'
         PROVE  /\ Cardinality(sessions) \in Nat /\ Cardinality(sessions') \in Nat
                /\ k \in sessions' => Cardinality(sessions') <= Cardinality(sessions) + 1
                /\ k \notin sessions' => Cardinality(sessions') <= Cardinality(sessions)
    BY <2>11, OneElement, KeysAssumption
  <2>12. CASE Register(f)
    <3>1. /\ f \in UDPFlows /\ k \in Keys /\ src \in Sources /\ k \notin sessions
          /\ sessions' = sessions \cup {k} /\ ~Registered(f) /\ Registered(f)'
          /\ perSource' = [perSource EXCEPT ![src] = @ + 1]
          /\ Cardinality(sessions) < MaxSessions /\ ~(perSource[src] >= MaxPerSource)
      BY <2>12, KeysAssumption DEF Register, Admitted, SourceFull, Registered
    <3>2. sessions' = {KeyOf[h] : h \in {x \in UDPFlows : Registered(x)'}}
      BY <2>1, <3>1 DEF RegistryExact
    <3>3. ASSUME NEW g \in UDPFlows, NEW h \in UDPFlows, Registered(g)', Registered(h)',
                 KeyOf[g] = KeyOf[h]
          PROVE  g = h
      <4>1. ASSUME NEW x \in UDPFlows, x # f, Registered(x) PROVE KeyOf[x] # k
        BY <3>1, <4>1 DEF RegistryExact
      <4> QED BY <2>1, <3>3, <4>1 DEF RegistryExact
    <3>4. ASSUME NEW s \in Sources
          PROVE  perSource'[s] = Cardinality(OpenKeys(s)') /\ perSource'[s] <= MaxPerSource
      BY <2>10, <3>1, LimitsAssumption DEF LimiterBound
    <3>5. Cardinality(sessions') <= MaxSessions
      BY <2>11, <3>1, LimitsAssumption
    <3> QED BY <3>2, <3>3, <3>4, <3>5 DEF RegistryExact, LimiterBound, OpenKeys
  <2>13. CASE Unregister(f)
    <3>1. /\ f \in UDPFlows /\ k \in Keys /\ src \in Sources
          /\ sessions' = sessions \ {k} /\ Registered(f) /\ ~Registered(f)'
      BY <2>13, KeysAssumption DEF Unregister, Registered
    <3>2. k \in sessions
      BY <3>1 DEF RegistryExact
    <3>3. perSource' = [perSource EXCEPT ![src] = @ - 1]
      BY <2>13, <3>2 DEF Unregister
    <3>4. \A x \in UDPFlows : x # f /\ Registered(x) => KeyOf[x] # k
      BY <3>1 DEF RegistryExact
    <3>5. sessions' = {KeyOf[h] : h \in {x \in UDPFlows : Registered(x)'}}
      BY <2>1, <3>1, <3>4 DEF RegistryExact
    <3>6. ASSUME NEW g \in UDPFlows, NEW h \in UDPFlows, Registered(g)', Registered(h)',
                 KeyOf[g] = KeyOf[h]
          PROVE  g = h
      BY <2>1, <3>1, <3>6 DEF RegistryExact
    <3>7. ASSUME NEW s \in Sources
          PROVE  perSource'[s] = Cardinality(OpenKeys(s)') /\ perSource'[s] <= MaxPerSource
      BY <2>10, <3>1, <3>2, <3>3, LimitsAssumption DEF LimiterBound
    <3>8. Cardinality(sessions') <= MaxSessions
      BY <2>11, <3>1, LimitsAssumption DEF LimiterBound
    <3> QED BY <3>5, <3>6, <3>7, <3>8 DEF RegistryExact, LimiterBound, OpenKeys
  <2> QED BY <1>3, <2>3, <2>4, <2>5, <2>6, <2>7, <2>8, <2>9, <2>12, <2>13
          DEF FlowStep, RunFlow
<1> QED BY <1>2, <1>3 DEF PlaneNext

-----------------------------------------------------------------------------
\* Every step keeps the types: a count that goes down was above zero.
LEMMA TypeStep == PlaneInv /\ [PlaneNext]_vars => PlaneTypeOK'
<1> SUFFICES ASSUME PlaneInv, [PlaneNext]_vars PROVE PlaneTypeOK'
    OBVIOUS
<1> USE DEF PlaneInv, PlaneTypeOK, GotoFlow, planeVars, limiterVars, Stats, FlowSteps, Holding
<1>1. ASSUME NEW f \in Flows, FlowStep(f) PROVE PlaneTypeOK'
  <2>1. CASE Load(f)
    BY <2>1 DEF Load
  <2>2. CASE CountIn(f)
    BY <2>2 DEF CountIn
  <2>3. CASE Recheck(f)
    BY <2>3 DEF Recheck
  <2>4. CASE CountOut(f)
    <3>1. f \in Holders(gen[f]) /\ refs' = [refs EXCEPT ![gen[f]] = @ - 1]
      BY <2>4 DEF CountOut, Holders
    <3>2. IsFiniteSet(Holders(gen[f])) /\ refs[gen[f]] = Cardinality(Holders(gen[f]))
      BY FlowsAssumption, FS_Subset DEF Holders, RefsExact
    <3>3. refs[gen[f]] # 0
      BY <3>1, <3>2, FS_EmptySet
    <3>4. refs \in [Generations -> Nat] /\ gen[f] \in Generations /\ refs[gen[f]] \in Nat
      OBVIOUS
    <3>5. refs[gen[f]] - 1 \in Nat
      BY ONLY <3>3, <3>4
    <3>6. refs' \in [Generations -> Nat]
      BY ONLY <3>1, <3>4, <3>5
    <3> QED BY <2>4, <3>6 DEF CountOut
  <2>5. CASE Register(f)
    BY <2>5, KeysAssumption DEF Register
  <2>6. CASE Refuse(f)
    BY <2>6 DEF Refuse
  <2>7. CASE CountTotal(f)
    BY <2>7 DEF CountTotal
  <2>8. CASE CountActive(f)
    BY <2>8 DEF CountActive
  <2>9. CASE EndFlow(f)
    BY <2>9 DEF EndFlow
  <2>10. CASE Unregister(f)
    <3> DEFINE src == SourceOf[KeyOf[f]]
    <3>1. KeyOf[f] \in Keys /\ src \in Sources
      BY <2>10, KeysAssumption DEF Unregister
    <3>2. ASSUME KeyOf[f] \in sessions PROVE perSource[src] # 0
      <4>1. IsFiniteSet(OpenKeys(src)) /\ KeyOf[f] \in OpenKeys(src)
        BY <3>2, KeysAssumption, FS_Subset DEF OpenKeys
      <4>2. perSource[src] = Cardinality(OpenKeys(src))
        BY <3>1 DEF RegistryExact, OpenKeys
      <4> QED BY <4>1, <4>2, FS_EmptySet
    <3>3. \/ perSource' = perSource
          \/ perSource' = [perSource EXCEPT ![src] = @ - 1] /\ perSource[src] # 0
      BY <2>10, <3>2 DEF Unregister
    <3>4. perSource \in [Sources -> Nat] /\ perSource[src] \in Nat
      BY <3>1
    <3>5. perSource[src] # 0 => perSource[src] - 1 \in Nat
      BY ONLY <3>4
    <3>6. perSource' \in [Sources -> Nat]
      BY ONLY <3>1, <3>3, <3>4, <3>5
    <3> QED BY <2>10, <3>6 DEF Unregister
  <2>11. CASE CountInactive(f)
    <3>1. f \in ActiveIn(gen[f])
      BY <2>11 DEF CountInactive, ActiveIn
    <3>2. IsFiniteSet(ActiveIn(gen[f])) /\ stats[gen[f]].active = Cardinality(ActiveIn(gen[f]))
      BY FlowsAssumption, FS_Subset DEF ActiveIn, ActiveExact
    <3>3. stats[gen[f]].active # 0
      BY <3>1, <3>2, FS_EmptySet
    <3>4. stats \in [Generations -> [total : Nat, active : Nat]] /\ gen[f] \in Generations
      OBVIOUS
    <3>5. stats' = [stats EXCEPT ![gen[f]].active = @ - 1]
      BY <2>11 DEF CountInactive
    <3>6. stats[gen[f]].active \in Nat
      BY ONLY <3>4
    <3>7. stats[gen[f]].active - 1 \in Nat
      BY ONLY <3>3, <3>6
    <3>8. stats' \in [Generations -> [total : Nat, active : Nat]]
      BY ONLY <3>4, <3>5, <3>7
    <3> QED BY <2>11, <3>8 DEF CountInactive
  <2> QED BY <1>1, <2>1, <2>2, <2>3, <2>4, <2>5, <2>6, <2>7, <2>8, <2>9, <2>10, <2>11
          DEF FlowStep, RunFlow
<1>2. CASE Commit
  <2>1. current \in Generations /\ retired \in SUBSET Generations
    OBVIOUS
  <2>2. current' \in Generations
    BY <1>2, <2>1, GenerationsAssumption, SMT DEF Commit, Generations
  <2>3. retired' \in SUBSET Generations
    BY <1>2, <2>1 DEF Commit
  <2> QED BY <1>2, <2>2, <2>3 DEF Commit
<1>3. CASE Poll
    BY <1>3 DEF Poll
<1>4. CASE PruneFold
  <2>1. scan.idle \in Generations /\ stats[scan.idle] \in [total : Nat, active : Nat]
        /\ base \in [total : Nat, active : Nat]
    BY <1>4 DEF PruneFold
  <2>2. base' = [total |-> base.total + stats[scan.idle].total,
                 active |-> base.active + stats[scan.idle].active]
    BY <1>4 DEF PruneFold
  <2>3. base' \in [total : Nat, active : Nat]
    BY ONLY <2>1, <2>2
  <2>4. scan' \in [busy : BOOLEAN, todo : SUBSET Generations, idle : Generations \cup {Nil}]
    BY <1>4 DEF PruneFold
  <2> QED BY <1>4, <2>3, <2>4 DEF PruneFold
<1>5. ASSUME NEW g \in Generations, PruneCheck(g) PROVE PlaneTypeOK'
  <2>1. scan' \in [busy : BOOLEAN, todo : SUBSET Generations, idle : Generations \cup {Nil}]
    BY <1>5 DEF PruneCheck
  <2> QED BY <1>5, <2>1 DEF PruneCheck
<1>7. CASE PruneDone
    BY <1>7 DEF PruneDone, Idle
<1>6. CASE UNCHANGED vars
    BY <1>6 DEF vars
<1> QED BY <1>1, <1>2, <1>3, <1>4, <1>5, <1>6, <1>7 DEF PlaneNext, Prune

\* PlaneInv holds of a plane with its first generation and no flow.
LEMMA PlaneInvInit == PlaneInit => PlaneInv
<1> SUFFICES ASSUME PlaneInit PROVE PlaneInv
    OBVIOUS
<1>1. PlaneTypeOK
    BY GenerationsAssumption
    DEF PlaneInit, PlaneTypeOK, Generations, Stats, Idle, FlowSteps, Holding
<1>2. RefsExact
  <2>1. \A g \in Generations : Holders(g) = {}
    BY DEF PlaneInit, Holders, Holding
  <2> QED BY <2>1, FS_EmptySet DEF RefsExact, PlaneInit
<1>3. ActiveExact
  <2>1. \A g \in Generations : ActiveIn(g) = {}
    BY DEF PlaneInit, ActiveIn
  <2> QED BY <2>1, FS_EmptySet DEF ActiveExact, PlaneInit
<1>4. \A f \in UDPFlows : ~Registered(f)
    BY FlowsAssumption DEF PlaneInit, Registered
<1>5. RegistryExact
  <2>1. \A s \in Sources : {k \in sessions : SourceOf[k] = s} = {}
    BY DEF PlaneInit
  <2> QED BY <1>4, <2>1, FS_EmptySet DEF RegistryExact, PlaneInit
<1>6. LimiterBound
    BY FS_EmptySet, LimitsAssumption DEF LimiterBound, PlaneInit
<1>7. ScanSound
    BY DEF PlaneInit, ScanSound, Idle
<1>8. InUseRetained
    BY DEF PlaneInit, InUseRetained, Handling, Holding
<1> QED BY <1>1, <1>2, <1>3, <1>5, <1>6, <1>7, <1>8 DEF PlaneInv

\* PlaneInv is an invariant of the data plane.
LEMMA PlaneInvHolds == PlaneSpec => []PlaneInv
<1>1. PlaneInv /\ [PlaneNext]_vars => PlaneInv'
    BY TypeStep, RefsStep, ActiveStep, RegistryStep, ScanStep, RetainedStep DEF PlaneInv
<1> QED BY PlaneInvInit, <1>1, PTL DEF PlaneSpec

-----------------------------------------------------------------------------
\* No counter of the data plane is ever taken below zero.
THEOREM PlaneTypeCorrect == PlaneSpec => []PlaneTypeOK
BY PlaneInvHolds, PTL DEF PlaneInv

\* generation.refs is exact in every reachable state.
THEOREM PlaneRefsExact == PlaneSpec => []RefsExact
BY PlaneInvHolds, PTL DEF PlaneInv

\* The lock-free swap is sound: the scan never folds a generation that handles a flow.
THEOREM PlaneInUseRetained == PlaneSpec => []InUseRetained
BY PlaneInvHolds, PTL DEF PlaneInv

\* The limiter's registry is exactly the open UDP sessions.
THEOREM PlaneRegistryExact == PlaneSpec => []RegistryExact
BY PlaneInvHolds, PTL DEF PlaneInv

\* Flows with distinct keys in a registry bounded by n are at most n.
LEMMA InjectiveBound ==
    ASSUME NEW S \in SUBSET UDPFlows, NEW T \in SUBSET Keys,
           \A f \in S : KeyOf[f] \in T,
           \A f, g \in S : KeyOf[f] = KeyOf[g] => f = g
    PROVE  /\ Cardinality(S) \in Nat /\ Cardinality(T) \in Nat
           /\ Cardinality(S) <= Cardinality(T)
<1> DEFINE key == [f \in S |-> KeyOf[f]]
<1>1. key \in Injection(S, T)
    BY DEF Injection, IsInjective
<1>2. IsFiniteSet(T) /\ IsFiniteSet(S)
    BY FS_Subset, KeysAssumption, FlowsAssumption
<1> QED BY <1>1, <1>2, FS_Injection, FS_CardinalityType

\* The UDP sessions of all generations together respect both limits.
THEOREM PlaneWithinCapacity == PlaneSpec => []WithinCapacity
<1>1. PlaneInv => WithinCapacity
  <2> SUFFICES ASSUME PlaneInv PROVE WithinCapacity
    OBVIOUS
  <2> USE DEF PlaneInv, RegistryExact, LimiterBound, PlaneTypeOK
  <2> DEFINE Open == {f \in UDPFlows : Registered(f)}
  <2>1. /\ \A f \in Open : KeyOf[f] \in sessions
        /\ \A f, g \in Open : KeyOf[f] = KeyOf[g] => f = g
    OBVIOUS
  <2>2. Cardinality(Open) <= MaxSessions
    <3>1. /\ Cardinality(Open) \in Nat /\ Cardinality(sessions) \in Nat
          /\ Cardinality(Open) <= Cardinality(sessions)
      BY <2>1, InjectiveBound
    <3> QED BY <3>1, LimitsAssumption
  <2>3. ASSUME NEW s \in Sources
        PROVE  Cardinality({f \in UDPFlows : Registered(f) /\ SourceOf[KeyOf[f]] = s})
               <= MaxPerSource
    <3> DEFINE S == {f \in UDPFlows : Registered(f) /\ SourceOf[KeyOf[f]] = s}
    <3>1. /\ S \in SUBSET UDPFlows /\ OpenKeys(s) \in SUBSET Keys
          /\ \A f \in S : KeyOf[f] \in OpenKeys(s)
          /\ \A f, g \in S : KeyOf[f] = KeyOf[g] => f = g
      BY <2>1 DEF OpenKeys
    <3>2. /\ Cardinality(S) \in Nat /\ Cardinality(OpenKeys(s)) \in Nat
          /\ Cardinality(S) <= Cardinality(OpenKeys(s))
      BY <3>1, InjectiveBound
    <3>3. Cardinality(OpenKeys(s)) <= MaxPerSource
      BY DEF OpenKeys
    <3> QED BY <3>2, <3>3, LimitsAssumption
  <2> QED BY <2>2, <2>3 DEF WithinCapacity
<1> QED BY <1>1, PlaneInvHolds, PTL

\* The statistics of a folded generation are final.
THEOREM PlaneFoldedFrozen == PlaneSpec => FoldedFrozen
<1>1. ASSUME PlaneInv, [PlaneNext]_vars, NEW g \in Generations,
             g \notin retired \cup {current}
      PROVE  stats'[g] = stats[g]
  <2> USE DEF PlaneInv, PlaneTypeOK
  <2>1. CASE Commit \/ Poll \/ Prune \/ UNCHANGED vars
    BY <2>1, FlowsStay
  <2>2. ASSUME NEW f \in Flows, FlowStep(f) PROVE stats'[g] = stats[g]
    <3>1. CASE CountTotal(f) \/ CountActive(f) \/ CountInactive(f)
      <4>1. fpc[f] \in Handling
        BY <3>1 DEF CountTotal, CountActive, CountInactive, Handling, Holding
      <4>2. gen[f] # g /\ gen[f] \in Generations
        BY <1>1, <4>1 DEF InUseRetained
      <4> QED BY <1>1, <3>1, <4>2 DEF CountTotal, CountActive, CountInactive
    <3>2. CASE ~(CountTotal(f) \/ CountActive(f) \/ CountInactive(f))
      BY <2>2, <3>2 DEF FlowStep, RunFlow, Load, CountIn, Recheck, CountOut, Register,
                        Refuse, EndFlow, Unregister, planeVars
    <3> QED BY <3>1, <3>2
  <2> QED BY <1>1, <2>1, <2>2 DEF PlaneNext
<1>2. PlaneInv /\ [PlaneNext]_vars =>
        [\A g \in Generations : g \notin retired \cup {current} \cup retired' \cup {current'}
                                => stats'[g] = stats[g]]_vars
    BY <1>1
<1> QED BY <1>2, PlaneInvHolds, PTL DEF PlaneSpec, FoldedFrozen

-----------------------------------------------------------------------------
(* The statistics *)

\* The flows that entered Handle, and those that have not left it
Begun == {f \in Flows : fpc[f] \in
            {"total", "active", "closing", "unregistered", "leaving", "done"}}
Serving == {f \in Flows : fpc[f] \in {"active", "closing", "unregistered"}}

\* A set of flows is counted exactly: each generation has the flows that loaded it, and the
\* base those of the generations that were folded.
CountedExactly(flows, counter, inBase) ==
    /\ \A g \in Generations : counter[g] = Cardinality(Within(flows, gen, {g}))
    /\ inBase = Cardinality(flows \ Within(flows, gen, Counted))

Totals == [g \in Generations |-> stats[g].total]
Actives == [g \in Generations |-> stats[g].active]

\* No flow loads a generation before it is current.
LoadedOnce == \A f \in Flows : gen[f] <= current

StatsInv ==
    /\ LoadedOnce
    /\ CountedExactly(Begun, Totals, base.total)
    /\ CountedExactly(Serving, Actives, base.active)

\* Any set of flows is finite, and so are its classes.
LEMMA FlowSetsFinite ==
    ASSUME NEW F \in SUBSET Flows
    PROVE  IsFiniteSet(F) /\ Cardinality(F) \in Nat
BY FlowsAssumption, FS_Subset, FS_CardinalityType

\* What the plane adds up is the number of flows in the set.
LEMMA SumIsExact ==
    ASSUME PlaneTypeOK, NEW F \in SUBSET Flows, NEW counter, NEW inBase,
           CountedExactly(F, counter, inBase)
    PROVE  inBase + SumFunctionOnSet(counter, Counted) = Cardinality(F)
<1> DEFINE In == Within(F, gen, Counted)
           Out == F \ In
<1>1. IsFiniteSet(Counted) /\ Counted \subseteq Generations
  <2>1. Counted \subseteq Generations
    BY DEF Counted, PlaneTypeOK
  <2>2. IsFiniteSet(Generations)
    BY FS_Interval, GenerationsAssumption DEF Generations
  <2> QED BY <2>1, <2>2, FS_Subset
<1>2. IsFiniteSet(F)
  BY FlowSetsFinite
<1>3. SumFunctionOnSet(counter, Counted) = Cardinality(In)
  <2>1. \A g \in Counted : counter[g] = Cardinality(Within(F, gen, {g}))
    BY <1>1 DEF CountedExactly
  <2> QED BY <1>1, <1>2, <2>1, SumOfSizes
<1>4. Cardinality(F) = Cardinality(In) + Cardinality(Out)
  <2>1. In \cup Out = F /\ In \cap Out = {} /\ In \in SUBSET Flows /\ Out \in SUBSET Flows
    BY DEF Within
  <2>2. /\ IsFiniteSet(In) /\ IsFiniteSet(Out)
        /\ Cardinality(In) \in Nat /\ Cardinality(Out) \in Nat
    BY <2>1, FlowSetsFinite
  <2> HIDE DEF In, Out
  <2>3. Cardinality(In \cup Out)
          = Cardinality(In) + Cardinality(Out) - Cardinality(In \cap Out)
    BY <2>2, FS_Union
  <2>4. Cardinality(In \cap Out) = 0
    BY <2>1, FS_EmptySet
  <2>5. Cardinality(F) = Cardinality(In \cup Out)
    BY <2>1, Zenon
  <2> QED BY <2>2, <2>3, <2>4, <2>5
<1>5. inBase = Cardinality(Out) /\ Cardinality(In) \in Nat /\ Cardinality(Out) \in Nat
  BY FlowSetsFinite DEF CountedExactly, Within
<1> QED BY <1>3, <1>4, <1>5

LEMMA StatsInvInit == PlaneInit => StatsInv
<1> SUFFICES ASSUME PlaneInit PROVE StatsInv
  OBVIOUS
<1>1. LoadedOnce
  BY DEF PlaneInit, LoadedOnce
<1>2. Begun = {} /\ Serving = {}
  BY DEF PlaneInit, Begun, Serving
<1>3. \A g \in Generations : Totals[g] = 0 /\ Actives[g] = 0
  BY DEF PlaneInit, Totals, Actives
<1>4. \A S : Within({}, gen, S) = {} /\ {} \ Within({}, gen, S) = {}
  BY DEF Within
<1>5. base.total = 0 /\ base.active = 0
  BY DEF PlaneInit
<1> QED BY <1>1, <1>2, <1>3, <1>4, <1>5, FS_EmptySet DEF StatsInv, CountedExactly

\* Flow f, and no other, is in one of F and G and not in the other; the counters m of F and n
\* of G differ accordingly.
Moves(f, F, G, m, n) ==
    /\ \A h \in Flows \ {f} : h \in F <=> h \in G
    /\ \A g \in Generations \ {gen[f]} : n[g] = m[g]
    /\ \/ f \notin F /\ f \in G /\ n[gen[f]] = m[gen[f]] + 1
       \/ f \in F /\ f \notin G /\ n[gen[f]] = m[gen[f]] - 1

\* A flow that joins or leaves a set of flows is counted by its own generation alone.
LEMMA CountMoves ==
    ASSUME NEW F \in SUBSET Flows, NEW G \in SUBSET Flows, NEW f \in Flows,
           gen[f] \in Counted, gen' = gen, Counted' = Counted,
           NEW m \in [Generations -> Nat], NEW n \in [Generations -> Nat], NEW b,
           CountedExactly(F, m, b), Moves(f, F, G, m, n)
    PROVE  /\ \A g \in Generations : n[g] = Cardinality(Within(G, gen', {g}))
           /\ b = Cardinality(G \ Within(G, gen', Counted'))
<1> USE DEF Moves
<1>1. ASSUME NEW g \in Generations PROVE n[g] = Cardinality(Within(G, gen, {g}))
  <2> DEFINE P == Within(F, gen, {g})
             Q == Within(G, gen, {g})
  <2>1. /\ P \in SUBSET Flows /\ Q \in SUBSET Flows
        /\ \A h \in Flows \ {f} : h \in P <=> h \in Q
        /\ f \in P <=> f \in F /\ gen[f] = g
        /\ f \in Q <=> f \in G /\ gen[f] = g
    BY DEF Within
  <2>2. m[g] = Cardinality(P)
    BY DEF CountedExactly
  <2> SUFFICES n[g] = Cardinality(Q)
    OBVIOUS
  <2> HIDE DEF P, Q
  <2>3. /\ Cardinality(P) \in Nat /\ Cardinality(Q) \in Nat
        /\ (f \in P <=> f \in Q) => Cardinality(Q) = Cardinality(P)
        /\ (f \notin P /\ f \in Q) => Cardinality(Q) = Cardinality(P) + 1
        /\ (f \in P /\ f \notin Q) => Cardinality(P) = Cardinality(Q) + 1
    BY <2>1, FlowsAssumption, OneElement
  <2>4. CASE g = gen[f]
    BY <2>1, <2>2, <2>3, <2>4
  <2>5. CASE g # gen[f]
    BY <2>1, <2>2, <2>3, <2>5
  <2> QED BY <2>4, <2>5
<1>2. F \ Within(F, gen, Counted) = G \ Within(G, gen, Counted)
  BY DEF Within
<1>3. b = Cardinality(G \ Within(G, gen, Counted))
  BY <1>2 DEF CountedExactly
<1> QED BY <1>1, <1>3

\* A step of a flow that neither joins nor leaves a set counts nothing.
LEMMA CountStays ==
    ASSUME NEW F \in SUBSET Flows, \A f \in F : gen'[f] = gen[f], Counted' = Counted,
           NEW m, NEW b, CountedExactly(F, m, b)
    PROVE  /\ \A g \in Generations : m[g] = Cardinality(Within(F, gen', {g}))
           /\ b = Cardinality(F \ Within(F, gen', Counted'))
<1>1. \A S : Within(F, gen', S) = Within(F, gen, S)
  BY DEF Within
<1> QED BY <1>1 DEF CountedExactly

\* A step of a flow keeps both statistics exact.
LEMMA StatsFlowStep ==
    ASSUME PlaneInv, PlaneInv', StatsInv, NEW f \in Flows, FlowStep(f)
    PROVE  StatsInv'
<1> USE DEF PlaneInv, PlaneTypeOK
<1>1. /\ Counted' = Counted /\ base' = base /\ current' = current
      /\ \A h \in Flows \ {f} : fpc'[h] = fpc[h] /\ gen'[h] = gen[h]
  BY PlaneStays, OthersStay DEF Counted
<1>2. LoadedOnce'
  <2>1. gen'[f] <= current
    BY DEF FlowStep, RunFlow, Load, CountIn, Recheck, CountOut, Register, Refuse, CountTotal,
           CountActive, EndFlow, Unregister, CountInactive, StatsInv, LoadedOnce, Generations
  <2> QED BY <1>1, <2>1 DEF StatsInv, LoadedOnce
<1>3. /\ Begun \in SUBSET Flows /\ Serving \in SUBSET Flows
      /\ Begun' \in SUBSET Flows /\ Serving' \in SUBSET Flows
      /\ \A h \in Flows \ {f} : h \in Begun <=> h \in Begun'
      /\ \A h \in Flows \ {f} : h \in Serving <=> h \in Serving'
  BY <1>1 DEF Begun, Serving
<1>4. /\ Totals \in [Generations -> Nat] /\ Totals' \in [Generations -> Nat]
      /\ Actives \in [Generations -> Nat] /\ Actives' \in [Generations -> Nat]
  BY DEF Totals, Actives, Stats
<1>5. /\ CountedExactly(Begun, Totals, base.total)
      /\ CountedExactly(Serving, Actives, base.active)
  BY DEF StatsInv
<1>6. CASE CountTotal(f)
  <2>1. /\ gen' = gen /\ gen[f] \in Counted /\ Serving' = Serving /\ Actives' = Actives
        /\ f \notin Begun /\ f \in Begun'
        /\ Totals'[gen[f]] = Totals[gen[f]] + 1
        /\ \A g \in Generations \ {gen[f]} : Totals'[g] = Totals[g]
    BY <1>6 DEF CountTotal, GotoFlow, InUseRetained, Counted, Begun, Serving, Totals, Actives,
                Stats, Handling, Holding
  <2>2. CountedExactly(Begun, Totals, base.total)'
    <3>1. /\ \A g \in Generations : Totals'[g] = Cardinality(Within(Begun', gen', {g}))
          /\ base.total = Cardinality(Begun' \ Within(Begun', gen', Counted'))
      <4>1. Moves(f, Begun, Begun', Totals, Totals')
        BY <1>3, <2>1 DEF Moves
      <4> HIDE DEF PlaneInv, PlaneTypeOK
      <4> QED BY <1>1, <1>3, <1>4, <1>5, <2>1, <4>1, CountMoves
    <3> QED BY <1>1, <3>1 DEF CountedExactly
  <2>3. CountedExactly(Serving, Actives, base.active)'
    <3>1. /\ \A g \in Generations : Actives[g] = Cardinality(Within(Serving, gen', {g}))
          /\ base.active = Cardinality(Serving \ Within(Serving, gen', Counted'))
      BY <1>1, <1>3, <1>5, <2>1, CountStays
    <3> QED BY <1>1, <2>1, <3>1 DEF CountedExactly
  <2> QED BY <1>2, <2>2, <2>3 DEF StatsInv
<1>7. CASE CountActive(f)
  <2>1. /\ gen' = gen /\ gen[f] \in Counted /\ Begun' = Begun /\ Totals' = Totals
        /\ f \notin Serving /\ f \in Serving'
        /\ Actives'[gen[f]] = Actives[gen[f]] + 1
        /\ \A g \in Generations \ {gen[f]} : Actives'[g] = Actives[g]
    BY <1>7 DEF CountActive, GotoFlow, InUseRetained, Counted, Begun, Serving, Totals, Actives,
                Stats, Handling, Holding
  <2>2. CountedExactly(Serving, Actives, base.active)'
    <3>1. /\ \A g \in Generations : Actives'[g] = Cardinality(Within(Serving', gen', {g}))
          /\ base.active = Cardinality(Serving' \ Within(Serving', gen', Counted'))
      <4>1. Moves(f, Serving, Serving', Actives, Actives')
        BY <1>3, <2>1 DEF Moves
      <4> HIDE DEF PlaneInv, PlaneTypeOK
      <4> QED BY <1>1, <1>3, <1>4, <1>5, <2>1, <4>1, CountMoves
    <3> QED BY <1>1, <3>1 DEF CountedExactly
  <2>3. CountedExactly(Begun, Totals, base.total)'
    <3>1. /\ \A g \in Generations : Totals[g] = Cardinality(Within(Begun, gen', {g}))
          /\ base.total = Cardinality(Begun \ Within(Begun, gen', Counted'))
      BY <1>1, <1>3, <1>5, <2>1, CountStays
    <3> QED BY <1>1, <2>1, <3>1 DEF CountedExactly
  <2> QED BY <1>2, <2>2, <2>3 DEF StatsInv
<1>8. CASE CountInactive(f)
  <2>1. /\ gen' = gen /\ gen[f] \in Counted /\ Begun' = Begun /\ Totals' = Totals
        /\ f \in Serving /\ f \notin Serving'
        /\ Actives'[gen[f]] = Actives[gen[f]] - 1
        /\ \A g \in Generations \ {gen[f]} : Actives'[g] = Actives[g]
    BY <1>8 DEF CountInactive, GotoFlow, InUseRetained, Counted, Begun, Serving, Totals, Actives,
                Stats, Handling, Holding
  <2>2. CountedExactly(Serving, Actives, base.active)'
    <3>1. /\ \A g \in Generations : Actives'[g] = Cardinality(Within(Serving', gen', {g}))
          /\ base.active = Cardinality(Serving' \ Within(Serving', gen', Counted'))
      <4>1. Moves(f, Serving, Serving', Actives, Actives')
        BY <1>3, <2>1 DEF Moves
      <4> HIDE DEF PlaneInv, PlaneTypeOK
      <4> QED BY <1>1, <1>3, <1>4, <1>5, <2>1, <4>1, CountMoves
    <3> QED BY <1>1, <3>1 DEF CountedExactly
  <2>3. CountedExactly(Begun, Totals, base.total)'
    <3>1. /\ \A g \in Generations : Totals[g] = Cardinality(Within(Begun, gen', {g}))
          /\ base.total = Cardinality(Begun \ Within(Begun, gen', Counted'))
      BY <1>1, <1>3, <1>5, <2>1, CountStays
    <3> QED BY <1>1, <2>1, <3>1 DEF CountedExactly
  <2> QED BY <1>2, <2>2, <2>3 DEF StatsInv
<1>9. CASE ~(CountTotal(f) \/ CountActive(f) \/ CountInactive(f))
  <2>1. /\ Begun' = Begun /\ Serving' = Serving /\ Totals' = Totals /\ Actives' = Actives
        /\ \A h \in Begun : gen'[h] = gen[h]
        /\ \A h \in Serving : gen'[h] = gen[h]
    <3>1. /\ stats' = stats
          /\ fpc[f] = "new" \/ gen'[f] = gen[f]
          /\ f \in Begun <=> f \in Begun'
          /\ f \in Serving <=> f \in Serving'
      BY <1>9 DEF FlowStep, RunFlow, Load, CountIn, Recheck, CountOut, Register, Refuse,
                  EndFlow, Unregister, planeVars, GotoFlow, Begun, Serving
    <3> QED BY <1>1, <1>3, <3>1 DEF Totals, Actives, Begun, Serving
  <2>2. CountedExactly(Begun, Totals, base.total)'
    <3>1. /\ \A g \in Generations : Totals[g] = Cardinality(Within(Begun, gen', {g}))
          /\ base.total = Cardinality(Begun \ Within(Begun, gen', Counted'))
      BY <1>1, <1>3, <1>5, <2>1, CountStays
    <3> QED BY <1>1, <2>1, <3>1 DEF CountedExactly
  <2>3. CountedExactly(Serving, Actives, base.active)'
    <3>1. /\ \A g \in Generations : Actives[g] = Cardinality(Within(Serving, gen', {g}))
          /\ base.active = Cardinality(Serving \ Within(Serving, gen', Counted'))
      BY <1>1, <1>3, <1>5, <2>1, CountStays
    <3> QED BY <1>1, <2>1, <3>1 DEF CountedExactly
  <2> QED BY <1>2, <2>2, <2>3 DEF StatsInv
<1> QED BY <1>6, <1>7, <1>8, <1>9

\* Folding a generation moves its flows to the base.
LEMMA FoldMoves ==
    ASSUME PlaneTypeOK, NEW F \in SUBSET Flows, NEW m, NEW b, NEW i \in Generations,
           CountedExactly(F, m, b), gen' = gen, i \in Counted, Counted' = Counted \ {i}
    PROVE  /\ \A g \in Generations : m[g] = Cardinality(Within(F, gen', {g}))
           /\ b + m[i] = Cardinality(F \ Within(F, gen', Counted'))
<1> DEFINE Out == F \ Within(F, gen, Counted)
           Its == Within(F, gen, {i})
           New == F \ Within(F, gen', Counted')
<1>1. Out \cup Its = New /\ Out \cap Its = {}
  BY DEF Within
<1>2. Out \in SUBSET Flows /\ Its \in SUBSET Flows
  BY DEF Within
<1>3. b = Cardinality(Out) /\ m[i] = Cardinality(Its)
  BY DEF CountedExactly
<1>4. \A g \in Generations : m[g] = Cardinality(Within(F, gen', {g}))
  BY DEF CountedExactly
<1> SUFFICES b + m[i] = Cardinality(New)
  BY <1>4
<1> HIDE DEF Out, Its, New
<1>5. /\ IsFiniteSet(Out) /\ IsFiniteSet(Its)
      /\ Cardinality(Out) \in Nat /\ Cardinality(Its) \in Nat
  BY <1>2, FlowSetsFinite
<1>6. Cardinality(Out \cup Its)
        = Cardinality(Out) + Cardinality(Its) - Cardinality(Out \cap Its)
  BY <1>5, FS_Union
<1>7. Cardinality(Out \cap Its) = 0
  BY <1>1, FS_EmptySet
<1>8. Cardinality(New) = Cardinality(Out \cup Its)
  BY <1>1, Zenon
<1> QED BY <1>3, <1>5, <1>6, <1>7, <1>8

\* A reload counts a generation in that no flow has loaded.
LEMMA CommitCounts ==
    ASSUME PlaneTypeOK, NEW F \in SUBSET Flows, NEW m, NEW b, LoadedOnce, CountedExactly(F, m, b),
           gen' = gen, Counted' = Counted \cup {current + 1}
    PROVE  /\ \A g \in Generations : m[g] = Cardinality(Within(F, gen', {g}))
           /\ b = Cardinality(F \ Within(F, gen', Counted'))
<1>1. \A f \in F : gen[f] # current + 1
  BY DEF LoadedOnce, PlaneTypeOK, Generations
<1>2. F \ Within(F, gen', Counted') = F \ Within(F, gen, Counted)
  BY <1>1 DEF Within
<1> QED BY <1>2 DEF CountedExactly

LEMMA StatsInvStep == PlaneInv /\ PlaneInv' /\ StatsInv /\ [PlaneNext]_vars => StatsInv'
<1> SUFFICES ASSUME PlaneInv, PlaneInv', StatsInv, [PlaneNext]_vars PROVE StatsInv'
  OBVIOUS
<1>1. CASE \E f \in Flows : FlowStep(f)
  BY <1>1, StatsFlowStep
<1>2. ASSUME Commit \/ Poll \/ Prune \/ UNCHANGED vars
      PROVE  /\ gen' = gen /\ Begun' = Begun /\ Serving' = Serving
             /\ Totals' = Totals /\ Actives' = Actives
             /\ Begun \in SUBSET Flows /\ Serving \in SUBSET Flows
             /\ CountedExactly(Begun, Totals, base.total)
             /\ CountedExactly(Serving, Actives, base.active)
             /\ LoadedOnce /\ PlaneTypeOK
  BY <1>2, FlowsStay DEF Begun, Serving, Totals, Actives, StatsInv, PlaneInv
<1>3. CASE Commit
  <2>1. base' = base /\ Counted' = Counted \cup {current + 1} /\ current' = current + 1
    BY <1>3 DEF Commit, Counted
  <2>2. LoadedOnce'
    BY <1>2, <1>3, <2>1 DEF LoadedOnce, PlaneTypeOK, Generations
  <2>3. /\ \A g \in Generations : Totals[g] = Cardinality(Within(Begun, gen', {g}))
        /\ base.total = Cardinality(Begun \ Within(Begun, gen', Counted'))
    BY <1>2, <1>3, <2>1, CommitCounts
  <2>4. /\ \A g \in Generations : Actives[g] = Cardinality(Within(Serving, gen', {g}))
        /\ base.active = Cardinality(Serving \ Within(Serving, gen', Counted'))
    BY <1>2, <1>3, <2>1, CommitCounts
  <2> QED BY <1>2, <1>3, <2>1, <2>2, <2>3, <2>4 DEF StatsInv, CountedExactly
<1>4. CASE PruneFold
  <2>0. /\ PlaneTypeOK /\ gen' = gen /\ Begun \in SUBSET Flows /\ Serving \in SUBSET Flows
        /\ CountedExactly(Begun, Totals, base.total)
        /\ CountedExactly(Serving, Actives, base.active)
    BY <1>2, <1>4 DEF Prune
  <2>1. /\ current' = current /\ scan.idle \in Generations /\ scan.idle \in Counted
        /\ Counted' = Counted \ {scan.idle}
        /\ base'.total = base.total + Totals[scan.idle]
        /\ base'.active = base.active + Actives[scan.idle]
    BY <1>4 DEF PruneFold, Counted, Totals, Actives, PlaneInv, PlaneTypeOK, ScanSound, Generations
  <2>2. LoadedOnce'
    BY <1>2, <1>4, <2>1 DEF LoadedOnce, Prune
  <2>3. /\ \A g \in Generations : Totals[g] = Cardinality(Within(Begun, gen', {g}))
        /\ base'.total = Cardinality(Begun \ Within(Begun, gen', Counted'))
    BY <2>0, <2>1, FoldMoves
  <2>4. /\ \A g \in Generations : Actives[g] = Cardinality(Within(Serving, gen', {g}))
        /\ base'.active = Cardinality(Serving \ Within(Serving, gen', Counted'))
    BY <2>0, <2>1, FoldMoves
  <2> QED BY <1>2, <1>4, <2>1, <2>2, <2>3, <2>4 DEF StatsInv, CountedExactly, Prune
<1>5. CASE Poll \/ (\E g \in Generations : PruneCheck(g)) \/ PruneDone \/ UNCHANGED vars
  <2>1. base' = base /\ Counted' = Counted /\ current' = current
    BY <1>5 DEF Poll, PruneCheck, PruneDone, Counted, vars, planeVars
  <2>2. Poll \/ Prune \/ UNCHANGED vars
    BY <1>5 DEF Prune
  <2> QED BY <1>2, <2>1, <2>2 DEF StatsInv, CountedExactly, LoadedOnce
<1> QED BY <1>1, <1>3, <1>4, <1>5 DEF PlaneNext, Prune

\* What stats() reports has every flow exactly once across any number of reloads, although
\* generations are folded into the base while flows start and end.
THEOREM PlaneStatsExact == PlaneSpec => []StatsExact
<1>1. PlaneInv /\ StatsInv => StatsExact
  <2> SUFFICES ASSUME PlaneInv, StatsInv PROVE StatsExact
    OBVIOUS
  <2>1. base.total + SumFunctionOnSet(Totals, Counted) = Cardinality(Begun)
    BY SumIsExact DEF PlaneInv, StatsInv, Begun
  <2>2. base.active + SumFunctionOnSet(Actives, Counted) = Cardinality(Serving)
    BY SumIsExact DEF PlaneInv, StatsInv, Serving
  <2> QED BY <2>1, <2>2 DEF StatsExact, Total, Active, Totals, Actives, Begun, Serving
<1> QED BY <1>1, PlaneInvHolds, StatsInvInit, StatsInvStep, PTL DEF PlaneSpec
===========================================================================
