------------------------------ MODULE DataPlane ------------------------------
(***************************************************************************)
(* The data plane of internal/app/dataplane_darwin.go and the session      *)
(* handlers it dispatches to (internal/session/tcp.go, udp.go).            *)
(*                                                                         *)
(* A reload or a network change builds a new generation of handlers and    *)
(* swaps it in without a lock: a new flow loads the current generation,    *)
(* counts itself in, and looks again whether it is still current.  A       *)
(* generation that was replaced stays in `retired' until a scan under the  *)
(* plane's mutex finds its count at zero and folds its statistics into the *)
(* base.  Every atomic operation and every critical section is one step.   *)
(*                                                                         *)
(* The UDP handlers of all generations share one limiter.                  *)
(***************************************************************************)
EXTENDS Naturals, FiniteSets, FiniteSetsExt

CONSTANTS
    Flows,           \* flows that the netstack hands to the data plane
    UDPFlows,        \* those that are UDP
    Keys,            \* UDP 4-tuples
    Sources,         \* UDP source addresses
    KeyOf,           \* the 4-tuple of a UDP flow
    SourceOf,        \* the source address of a 4-tuple
    MaxSessions,     \* sessions.max_udp_sessions
    MaxPerSource,    \* sessions.max_udp_sessions_per_source
    MaxGenerations,  \* bound on generations
    Nil

ASSUME FlowsAssumption == IsFiniteSet(Flows) /\ UDPFlows \subseteq Flows
ASSUME KeysAssumption ==
    /\ IsFiniteSet(Keys)
    /\ KeyOf \in [UDPFlows -> Keys]
    /\ SourceOf \in [Keys -> Sources]
\* NewUDPLimiter
ASSUME LimitsAssumption ==
    /\ MaxSessions \in Nat \ {0} /\ MaxPerSource \in Nat \ {0}
    /\ MaxPerSource <= MaxSessions
ASSUME GenerationsAssumption == MaxGenerations \in Nat \ {0}

Generations == 1 .. MaxGenerations
ASSUME NilAssumption == Nil \notin Generations

\* The counters that the properties are about: flows begun, flows under way
Stats == [total : Nat, active : Nat]

VARIABLES
    current,    \* plane.current
    retired,    \* plane.retired
    refs,       \* generation.refs
    stats,      \* generation.tcp.Stats() and generation.udp.Stats()
    base,       \* plane.tcpBase and plane.udpBase
    scan,       \* pruneLocked: generations still to look at, and the one found idle
    sessions,   \* limiter.sessions
    perSource,  \* limiter.perSource
    gen,        \* the generation a flow loaded
    fpc         \* where each flow is

planeVars == <<current, retired, refs, stats, base, scan>>
limiterVars == <<sessions, perSource>>
vars == <<planeVars, limiterVars, gen, fpc>>

Idle == [busy |-> FALSE, todo |-> {}, idle |-> Nil]

\* From refs.Add(1) to refs.Add(-1)
Holding == {"counted", "backoff", "acquired", "registered", "total", "active",
            "closing", "unregistered", "leaving", "refused"}
\* Between acquire's return and the end of Handle
Handling == Holding \ {"counted", "backoff"}
FlowSteps == Holding \cup {"new", "loaded", "done", "rejected"}

\* The plane's data has its types; no count goes below zero.
PlaneTypeOK ==
    /\ current \in Generations
    /\ retired \subseteq Generations
    /\ refs \in [Generations -> Nat]
    /\ stats \in [Generations -> Stats]
    /\ base \in Stats
    /\ scan \in [busy : BOOLEAN, todo : SUBSET Generations, idle : Generations \cup {Nil}]
    /\ sessions \subseteq Keys
    /\ perSource \in [Sources -> Nat]
    /\ gen \in [Flows -> Generations]
    /\ fpc \in [Flows -> FlowSteps]

\* newDataPlane: the first generation is current.
PlaneInit ==
    /\ current = 1
    /\ retired = {}
    /\ refs = [g \in Generations |-> 0]
    /\ stats = [g \in Generations |-> [total |-> 0, active |-> 0]]
    /\ base = [total |-> 0, active |-> 0]
    /\ scan = Idle
    /\ sessions = {}
    /\ perSource = [s \in Sources |-> 0]
    /\ gen = [f \in Flows |-> 1]
    /\ fpc = [f \in Flows |-> "new"]

-----------------------------------------------------------------------------
GotoFlow(f, step) == fpc' = [fpc EXCEPT ![f] = step]

\* acquire: plane.current.Load()
Load(f) ==
    /\ fpc[f] = "new"
    /\ gen' = [gen EXCEPT ![f] = current]
    /\ GotoFlow(f, "loaded")
    /\ UNCHANGED <<planeVars, limiterVars>>

\* acquire: generation.refs.Add(1)
CountIn(f) ==
    /\ fpc[f] = "loaded"
    /\ refs' = [refs EXCEPT ![gen[f]] = @ + 1]
    /\ GotoFlow(f, "counted")
    /\ UNCHANGED <<current, retired, stats, base, scan, limiterVars, gen>>

\* Mutant of Recheck: the generation is used without a second look.
RecheckSkipped(f) ==
    /\ fpc[f] = "counted"
    /\ GotoFlow(f, "acquired")
    /\ UNCHANGED <<planeVars, limiterVars, gen>>

\* acquire: plane.current.Load() == generation
Recheck(f) ==
    /\ fpc[f] = "counted"
    /\ GotoFlow(f, IF current = gen[f] THEN "acquired" ELSE "backoff")
    /\ UNCHANGED <<planeVars, limiterVars, gen>>

\* Mutant of CountOut: the count is kept when the flow turns back.
CountOutForgettingBackoff(f) ==
    /\ \/ fpc[f] = "backoff" /\ GotoFlow(f, "new") /\ refs' = refs
       \/ /\ \/ fpc[f] = "leaving" /\ GotoFlow(f, "done")
             \/ fpc[f] = "refused" /\ GotoFlow(f, "rejected")
          /\ refs' = [refs EXCEPT ![gen[f]] = @ - 1]
    /\ UNCHANGED <<current, retired, stats, base, scan, limiterVars, gen>>

\* Mutant of CountOut: the stale generation is tried again.
CountOutWithoutReload(f) ==
    /\ \/ fpc[f] = "backoff" /\ GotoFlow(f, "loaded")
       \/ fpc[f] = "leaving" /\ GotoFlow(f, "done")
       \/ fpc[f] = "refused" /\ GotoFlow(f, "rejected")
    /\ refs' = [refs EXCEPT ![gen[f]] = @ - 1]
    /\ UNCHANGED <<current, retired, stats, base, scan, limiterVars, gen>>

\* generation.refs.Add(-1): acquire tries again, handleTCP and handleUDP return.
CountOut(f) ==
    /\ \/ fpc[f] = "backoff" /\ GotoFlow(f, "new")
       \/ fpc[f] = "leaving" /\ GotoFlow(f, "done")
       \/ fpc[f] = "refused" /\ GotoFlow(f, "rejected")
    /\ refs' = [refs EXCEPT ![gen[f]] = @ - 1]
    /\ UNCHANGED <<current, retired, stats, base, scan, limiterVars, gen>>

-----------------------------------------------------------------------------
\* UDPLimiter.register

SourceFullOffByOne(k) == perSource[SourceOf[k]] > MaxPerSource

SourceFull(k) == perSource[SourceOf[k]] >= MaxPerSource

Admitted(k) == k \notin sessions /\ Cardinality(sessions) < MaxSessions /\ ~SourceFull(k)

\* UDP.Handle: register succeeds.
Register(f) ==
    /\ f \in UDPFlows /\ fpc[f] = "acquired"
    /\ Admitted(KeyOf[f])
    /\ sessions' = sessions \cup {KeyOf[f]}
    /\ perSource' = [perSource EXCEPT ![SourceOf[KeyOf[f]]] = @ + 1]
    /\ GotoFlow(f, "registered")
    /\ UNCHANGED <<planeVars, gen>>

\* UDP.Handle: register fails, the flow is only counted as rejected.
Refuse(f) ==
    /\ f \in UDPFlows /\ fpc[f] = "acquired"
    /\ ~Admitted(KeyOf[f])
    /\ GotoFlow(f, "refused")
    /\ UNCHANGED <<planeVars, limiterVars, gen>>

\* Handle: totalFlows.Add(1), totalSessions.Add(1)
CountTotal(f) ==
    /\ fpc[f] = IF f \in UDPFlows THEN "registered" ELSE "acquired"
    /\ stats' = [stats EXCEPT ![gen[f]].total = @ + 1]
    /\ GotoFlow(f, "total")
    /\ UNCHANGED <<current, retired, refs, base, scan, limiterVars, gen>>

\* Handle: activeFlows.Add(1), activeSessions.Add(1)
CountActive(f) ==
    /\ fpc[f] = "total"
    /\ stats' = [stats EXCEPT ![gen[f]].active = @ + 1]
    /\ GotoFlow(f, "active")
    /\ UNCHANGED <<current, retired, refs, base, scan, limiterVars, gen>>

\* Handle ends, whatever the decision, the dial and the relay came to.
EndFlow(f) ==
    /\ fpc[f] = "active"
    /\ GotoFlow(f, IF f \in UDPFlows THEN "closing" ELSE "unregistered")
    /\ UNCHANGED <<planeVars, limiterVars, gen>>

\* UDPLimiter.unregister
Unregister(f) ==
    /\ f \in UDPFlows /\ fpc[f] = "closing"
    /\ sessions' = sessions \ {KeyOf[f]}
    /\ perSource' = IF KeyOf[f] \in sessions
                    THEN [perSource EXCEPT ![SourceOf[KeyOf[f]]] = @ - 1] ELSE perSource
    /\ GotoFlow(f, "unregistered")
    /\ UNCHANGED <<planeVars, gen>>

\* The deferred activeFlows.Add(^uint64(0))
CountInactive(f) ==
    /\ fpc[f] = "unregistered"
    /\ stats' = [stats EXCEPT ![gen[f]].active = @ - 1]
    /\ GotoFlow(f, "leaving")
    /\ UNCHANGED <<current, retired, refs, base, scan, limiterVars, gen>>

-----------------------------------------------------------------------------
\* Mutant of Commit: the replaced generation is not kept for its statistics.
CommitForgetting ==
    /\ ~scan.busy
    /\ current < MaxGenerations
    /\ current' = current + 1
    /\ retired' = retired
    /\ scan' = [busy |-> TRUE, todo |-> retired', idle |-> Nil]
    /\ UNCHANGED <<refs, stats, base, limiterVars, gen, fpc>>

\* commit: swap the new generation in, retire the old one, prune.
Commit ==
    /\ ~scan.busy
    /\ current < MaxGenerations
    /\ current' = current + 1
    /\ retired' = retired \cup {current}
    /\ scan' = [busy |-> TRUE, todo |-> retired', idle |-> Nil]
    /\ UNCHANGED <<refs, stats, base, limiterVars, gen, fpc>>

\* stats: prune first.
Poll ==
    /\ ~scan.busy
    /\ scan' = [busy |-> TRUE, todo |-> retired, idle |-> Nil]
    /\ UNCHANGED <<current, retired, refs, stats, base, limiterVars, gen, fpc>>

\* pruneLocked: generation.refs.Load()
PruneCheck(g) ==
    /\ g \in scan.todo /\ scan.idle = Nil
    /\ scan' = [scan EXCEPT !.todo = @ \ {g}, !.idle = IF refs[g] = 0 THEN g ELSE Nil]
    /\ UNCHANGED <<current, retired, refs, stats, base, limiterVars, gen, fpc>>

\* pruneLocked: the statistics of the generation found idle move to the base.
PruneFold ==
    /\ scan.idle # Nil
    /\ base' = [total |-> base.total + stats[scan.idle].total,
                active |-> base.active + stats[scan.idle].active]
    /\ retired' = retired \ {scan.idle}
    /\ scan' = [scan EXCEPT !.idle = Nil]
    /\ UNCHANGED <<current, refs, stats, limiterVars, gen, fpc>>

PruneDone ==
    /\ scan.busy /\ scan.todo = {} /\ scan.idle = Nil
    /\ scan' = Idle
    /\ UNCHANGED <<current, retired, refs, stats, base, limiterVars, gen, fpc>>

\* A flow's own code: what it does without waiting for its peers
RunFlow(f) ==
    \/ Load(f) \/ CountIn(f) \/ Recheck(f) \/ CountOut(f)
    \/ Register(f) \/ Refuse(f) \/ CountTotal(f) \/ CountActive(f)
    \/ Unregister(f) \/ CountInactive(f)

FlowStep(f) == RunFlow(f) \/ EndFlow(f)

Prune == (\E g \in Generations : PruneCheck(g)) \/ PruneFold \/ PruneDone

PlaneNext == (\E f \in Flows : FlowStep(f)) \/ Commit \/ Poll \/ Prune

PlaneSpec == PlaneInit /\ [][PlaneNext]_vars

\* Goroutines run and the scan is a plain loop.  Nothing makes a relay end: that is up
\* to its peers.  Nothing makes anybody ask for statistics.
FairPlaneSpec == PlaneSpec
    /\ \A f \in Flows : WF_vars(RunFlow(f))
    /\ WF_vars(Prune)

-----------------------------------------------------------------------------
Holders(g) == {f \in Flows : fpc[f] \in Holding /\ gen[f] = g}

\* refs is the number of flows between their Add(1) and their Add(-1), the ones that
\* lost the race with a swap and back off included.
RefsExact == \A g \in Generations : refs[g] = Cardinality(Holders(g))

\* A generation that handles a flow is current or retired: the scan never folds it
\* away, although a flow may load it before the swap and count itself in after the
\* scan has seen its count at zero.
InUseRetained == \A f \in Flows : fpc[f] \in Handling => gen[f] \in retired \cup {current}

\* The counters of a generation that was folded into the base never change again.
FoldedFrozen == [][\A g \in Generations :
    g \notin retired \cup {current} \cup retired' \cup {current'} => stats'[g] = stats[g]]_vars

Counted == retired \cup {current}
Total == base.total + SumFunctionOnSet([g \in Generations |-> stats[g].total], Counted)
Active == base.active + SumFunctionOnSet([g \in Generations |-> stats[g].active], Counted)

\* What stats() adds up has every flow once, across any number of reloads: the total
\* is the flows that entered Handle, the active ones are those that have not left it.
StatsExact ==
    /\ Total = Cardinality({f \in Flows : fpc[f] \in
          {"total", "active", "closing", "unregistered", "leaving", "done"}})
    /\ Active = Cardinality({f \in Flows : fpc[f] \in {"active", "closing", "unregistered"}})

\* A UDP flow that is in the limiter's registry
Registered(f) == f \in UDPFlows /\ fpc[f] \in {"registered", "total", "active", "closing"}

\* The registry is exactly the open sessions, each key with one owner: a session that
\* ends never unregisters another one, and perSource is the number of keys per source.
RegistryExact ==
    /\ sessions = {KeyOf[f] : f \in {x \in UDPFlows : Registered(x)}}
    /\ \A f, g \in UDPFlows : Registered(f) /\ Registered(g) /\ KeyOf[f] = KeyOf[g] => f = g
    /\ \A s \in Sources : perSource[s] = Cardinality({k \in sessions : SourceOf[k] = s})

\* UDPLimiter: "Multiple policy generations can share one limiter without multiplying
\* their configured global or per-source capacity".
WithinCapacity ==
    /\ Cardinality({f \in UDPFlows : Registered(f)}) <= MaxSessions
    /\ \A s \in Sources :
          Cardinality({f \in UDPFlows : Registered(f) /\ SourceOf[KeyOf[f]] = s}) <= MaxPerSource

\* acquire's loop ends and the flow is served or refused, although a reload may swap
\* the generation between its load and its second look.
FlowsServed == \A f \in Flows : fpc[f] = "loaded" ~> fpc[f] \in {"active", "rejected"}

InUse(g) == \E f \in Flows : fpc[f] \in Handling /\ gen[f] = g

\* As long as somebody asks for the status now and then, a replaced generation that
\* handles no flow is let go, although flows that lost the race with the swap may still
\* count themselves in and out of it.  Without queries only the next reload scans.
RetiredFreed == []<><<Poll>>_vars =>
    \A g \in Generations : (g \in retired /\ ~InUse(g)) ~> g \notin retired

=============================================================================
