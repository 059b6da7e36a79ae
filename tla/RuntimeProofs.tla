---------------------------- MODULE RuntimeProofs ----------------------------
(***************************************************************************)
(* What holds of a running instance for any number of queries, buffers,    *)
(* configurations and changes of the network.  The inductive invariant     *)
(* RuntimeInv says, for every place the select loop can be in, which of    *)
(* the DNS server, the data plane, the digest and the loop's own copy      *)
(* already have the new configuration.                                     *)
(***************************************************************************)
EXTENDS Runtime, TLAPS

Configs == UNION {s.bound.configs : s \in Scenarios}
Nets == UNION {s.bound.nets : s \in Scenarios}
Servers == {c.dns : c \in Configs} \cup {n.dns : n \in Nets}
Prints == {<<>>} \cup {Fingerprint(n, c, l) : n \in Nets, c \in Configs, l \in Servers}
Plans == {Plan(n, c, l, {}) : n \in Nets, c \in Configs, l \in Servers}

Shutdown == {"finish", "serving", "device", "pump", "output", "stack", "returned"}
Switching == {"plan", "build", "write", "dns", "swap"}
Places == {"select", "compare", "discover", "reset"} \cup Switching \cup Shutdown

Policy == [cfg : Configs, by : Servers]

\* A query has a snapshot of the DNS server's configuration once it has loaded one.
Loaded == {"decide", "forward", "answer"}
QueryType(at) ==
    [at : {"idle", "load", "refused"} \cup Loaded, dom : Domain \cup {None},
     snap : IF at \in Loaded THEN Policy ELSE {None}, calm : BOOLEAN, faked : BOOLEAN]
QueryShape ==
    /\ query = [q \in Query |-> query[q]]
    /\ \A q \in Query : query[q] \in QueryType(query[q].at)

LoopType ==
    [at : Places, why : {None, "refresh", "reload"}, cfg : Configs, next : Configs,
     servers : Servers \cup {<<>>}, fp : Prints, routes : Plans,
     consumed : SUBSET {"pump", "output"}, late : BOOLEAN]

\* The shape of the state that the select loop and the queries share.
RuntimeTypeOK ==
    /\ bound.configs \subseteq Configs /\ bound.nets \subseteq Nets
    /\ file \in Configs
    /\ net \in Nets
    /\ loop \in LoopType
    /\ plane \in Policy /\ dns \in Policy
    /\ digest \in [memory : Configs, disk : Configs, unsure : BOOLEAN]
    /\ QueryShape
    /\ part \in [Part -> {"alive", "ended", "taken"}]

\* What the locals of a case of the select are for: a refresh keeps the configuration,
\* only a reload writes the digest and adopts, and new servers are known before a plan.
LocalsAgree ==
    /\ loop.at = "compare" => loop.why = "refresh"
    /\ loop.at \in {"discover", "write", "reset"} => loop.why = "reload"
    /\ loop.at \in Switching => loop.why \in {"refresh", "reload"}
    /\ loop.at \in Switching \cup {"compare"} => loop.servers \in Servers
    /\ loop.why = "refresh" => loop.next = loop.cfg

\* The DNS server is ahead of the data plane between the two stores and never else; the loop
\* and the reported digest follow the data plane.
HalvesInStep ==
    /\ loop.cfg = plane.cfg /\ loop.cfg = digest.memory
    /\ loop.at # "swap" => dns = plane
    /\ loop.at = "swap" => dns = [cfg |-> loop.next, by |-> loop.servers]

\* A reload that wrote the state file goes on to switch.
DiskInStep ==
    ~digest.unsure =>
        digest.disk = IF loop.at \in {"dns", "swap"} THEN loop.next ELSE loop.cfg

\* Until it is decided, a calm query has the exclusions of the generation that will decide it.
CalmSnapshot ==
    \A q \in Query : query[q].at = "decide" /\ query[q].calm => query[q].snap.cfg = plane.cfg

\* A calm query that was decided was decided by one configuration.
CalmDecided ==
    \A q \in Query : query[q].at \in {"forward", "answer"} /\ query[q].calm =>
        query[q].faked = Fakes(query[q].snap.cfg.exclude, query[q].snap.cfg.rules, query[q].dom)

RuntimeInv == RuntimeTypeOK /\ LocalsAgree /\ HalvesInStep /\ DiskInStep /\ CalmSnapshot /\ CalmDecided

\* The result of a pump is taken once: finish has not waited for it, or Leave has recorded it.
TakenOnce ==
    /\ ~loop.late
    /\ \A p \in {"pump", "output"} : part[p] = "taken" =>
          \/ p \in loop.consumed
          \/ p = "pump" /\ loop.at \in {"output", "stack", "returned"}
          \/ p = "output" /\ loop.at \in {"stack", "returned"}

\* Every buffer is in the pool or with one of the two pumps.
Held(where, places) == IF where \in places THEN 1 ELSE 0
BuffersKept ==
    /\ reader \in {"get", "read", "handle", "over"} /\ writer \in {"wait", "get", "write", "over"}
    /\ pool \in Nat
    /\ pool + Held(reader, {"read", "handle"}) + Held(writer, {"write"}) = Buffers

----------------------------------------------------------------------------
\* The steps of the pumps and of the environment leave the control state alone.
Aside ==
    /\ UNCHANGED <<bound, loop, plane, dns, digest, query>>
    /\ file' \in Configs
    /\ net' \in Nets
    /\ part' \in [Part -> {"alive", "ended", "taken"}]

LEMMA AsideSteps ==
    ASSUME RuntimeTypeOK,
           \/ NetworkChanges \/ EditConfig \/ Stop
           \/ ReaderStep \/ ReaderReads \/ WriterStep \/ WriterReads
           \/ \E s \in Server : ServerFails(s)
    PROVE  Aside
<1> USE DEF RuntimeTypeOK, Aside, Part, Server
<1>1. CASE NetworkChanges
  BY <1>1 DEF NetworkChanges, EnvOnly
<1>2. CASE EditConfig
  BY <1>2 DEF EditConfig, EnvOnly
<1>3. CASE Stop
  BY <1>3 DEF Stop, EnvOnly
<1>4. CASE ReaderStep \/ ReaderReads
  BY <1>4 DEF ReaderStep, ReaderReads, ReaderGets, ReaderHandles, ReaderStops, PumpOnly, Ends, control
<1>5. CASE WriterStep \/ WriterReads
  BY <1>5 DEF WriterStep, WriterReads, WriterGets, WriterWrites, WriterStops, PumpOnly, Ends, control
<1>6. CASE \E s \in Server : ServerFails(s)
  BY <1>6 DEF ServerFails, PumpOnly, Ends, control
<1> QED
  BY <1>1, <1>2, <1>3, <1>4, <1>5, <1>6

\* Leaving the loop, and the shutdown, touch no configuration.
Departing ==
    /\ UNCHANGED <<bound, file, net, plane, dns, digest, query>>
    /\ loop.at \in {"select"} \cup Shutdown
    /\ loop'.at \in Shutdown /\ loop'.why = loop.why
    /\ loop'.cfg = loop.cfg /\ loop'.next = loop.next /\ loop'.servers = loop.servers
    /\ loop' \in LoopType
    /\ part' \in [Part -> {"alive", "ended", "taken"}]

LEMMA DepartingSteps ==
    ASSUME RuntimeTypeOK, Leave \/ Finish
    PROVE  Departing
<1>0. loop \in LoopType /\ part \in [Part -> {"alive", "ended", "taken"}]
  BY DEF RuntimeTypeOK
<1> USE DEF Departing, Part, Server, Shutdown, Places, LoopType
<1>1. CASE Leave
  <2>1. CASE UNCHANGED part /\ LeaveLoop(loop)
    BY <1>0, <1>1, <2>1 DEF Leave, LeaveLoop, At
  <2>2. ASSUME NEW p \in {"pump", "output"}, LeaveLoop(Consume(p)), part' = [part EXCEPT ![p] = "taken"]
        PROVE  Departing
    BY <1>0, <1>1, <2>2 DEF Leave, LeaveLoop, Consume, At
  <2> QED
    BY <1>1, <2>1, <2>2 DEF Leave
<1>2. CASE CloseDNS
  BY <1>0, <1>2 DEF CloseDNS, Finishing, Goto, Ends, At
<1>3. CASE CloseDevice
  BY <1>0, <1>3 DEF CloseDevice, Finishing, Goto, At
<1>4. CASE AwaitResult("pump", "output")
  <2>1. CASE Goto("output") /\ part' \in [Part -> {"alive", "ended", "taken"}]
    BY <1>0, <1>4, <2>1 DEF AwaitResult, Finishing, Goto, At
  <2>2. CASE UNCHANGED part /\ loop' = [loop EXCEPT !.at = "output", !.late = TRUE]
    BY <1>0, <1>4, <2>2 DEF AwaitResult, Finishing, At
  <2> QED
    BY <1>0, <1>4, <2>1, <2>2 DEF AwaitResult, DeadlineEnds
<1>5. CASE AwaitResult("output", "stack")
  <2>1. CASE Goto("stack") /\ part' \in [Part -> {"alive", "ended", "taken"}]
    BY <1>0, <1>5, <2>1 DEF AwaitResult, Finishing, Goto, At
  <2>2. CASE UNCHANGED part /\ loop' = [loop EXCEPT !.at = "stack", !.late = TRUE]
    BY <1>0, <1>5, <2>2 DEF AwaitResult, Finishing, At
  <2> QED
    BY <1>0, <1>5, <2>1, <2>2 DEF AwaitResult, DeadlineEnds
<1>6. CASE CloseStack
  BY <1>0, <1>6 DEF CloseStack, Finishing, Goto, At
<1> QED
  BY <1>1, <1>2, <1>3, <1>4, <1>5, <1>6 DEF Finish

\* The servers that a case of the select works with are servers, the network's state a print.
LEMMA EffectiveType ==
    ASSUME NEW c \in Configs, NEW n \in Nets, NEW found \in {<<>>, n.dns}
    PROVE  Effective(c, found) \in Servers
BY DEF Effective, Servers

LEMMA FingerprintType ==
    ASSUME NEW n \in Nets, NEW c \in Configs, NEW s \in Servers
    PROVE  Fingerprint(n, c, s) \in Prints
BY DEF Prints

\* The part of the invariant about the select loop.
LoopInv == loop \in LoopType /\ LocalsAgree /\ HalvesInStep /\ DiskInStep

\* Back in the select the locals of the case are gone.
LEMMA WaitType ==
    ASSUME loop \in LoopType, Wait
    PROVE  loop'.at = "select" /\ loop'.why = None /\ loop'.cfg = loop.cfg /\ loop' \in LoopType
<1>1. <<>> \in Prints
  BY DEF Prints
<1> QED
  BY <1>1 DEF LoopType, Wait, Waiting, Places

\* Back in the select everything agrees if it did, provided that the case has not switched.
LEMMA WaitKeeps ==
    ASSUME RuntimeInv, Wait, UNCHANGED <<plane, dns>>, loop.at \notin {"swap"},
           digest'.memory = digest.memory,
           ~digest'.unsure => digest'.disk = loop.cfg
    PROVE  LoopInv'
<1>0. loop \in LoopType /\ LocalsAgree /\ HalvesInStep
  BY DEF RuntimeInv, RuntimeTypeOK
<1> QED
  BY <1>0, WaitType DEF LoopInv, LocalsAgree, HalvesInStep, DiskInStep, Switching, None

\* The cases of the select that go on, or give up before they write or switch anything.
LEMMA EarlyStep ==
    ASSUME RuntimeInv,
           Discover \/ Compare \/ Reload \/ DiscoverReloaded \/ PlanRoutes \/ Build \/ Reset
    PROVE  LoopInv'
<1>0. /\ loop \in LoopType /\ LocalsAgree /\ HalvesInStep /\ DiskInStep
      /\ file \in Configs /\ net \in Nets
      /\ RuntimeTypeOK
  BY DEF RuntimeInv, RuntimeTypeOK
<1> USE DEF LoopInv, LoopType, Places, At
<1>1. CASE Discover
  <2>1. CASE UNCHANGED loop
    BY <1>0, <1>1, <2>1 DEF Discover, LocalsAgree, HalvesInStep, DiskInStep
  <2>2. CASE loop' = [loop EXCEPT !.at = "compare", !.why = "refresh", !.next = loop.cfg,
                                  !.servers = Effective(loop.cfg, net.dns)]
    <3>1. Effective(loop.cfg, net.dns) \in Servers
      BY <1>0, EffectiveType
    <3>2. loop' \in LoopType
      BY <1>0, <2>2, <3>1
    <3>3. /\ loop'.at = "compare" /\ loop'.why = "refresh" /\ loop'.next = loop.cfg
          /\ loop'.cfg = loop.cfg /\ loop'.servers \in Servers
      BY <1>0, <2>2, <3>1
    <3> QED
      BY <1>0, <1>1, <3>2, <3>3 DEF Discover, LocalsAgree, HalvesInStep, DiskInStep, Switching
  <2> QED
    BY <1>1, <2>1, <2>2 DEF Discover
<1>2. CASE Compare
  <2>1. CASE Wait
    BY <1>0, <1>2, <2>1, WaitKeeps DEF Compare, DiskInStep
  <2>2. CASE loop' = [loop EXCEPT !.fp = Fingerprint(net, loop.cfg, loop.servers), !.at = "plan"]
    <3>a. Fingerprint(net, loop.cfg, loop.servers) \in Prints
      BY <1>0, <1>2, FingerprintType DEF Compare, LocalsAgree
    <3>1. loop' \in LoopType
      BY <1>0, <2>2, <3>a DEF Switching
    <3>2. /\ loop'.at = "plan" /\ loop'.why = loop.why /\ loop'.next = loop.next
          /\ loop'.cfg = loop.cfg /\ loop'.servers = loop.servers
      BY <1>0, <2>2
    <3> QED
      BY <1>0, <1>2, <3>1, <3>2 DEF Compare, LocalsAgree, HalvesInStep, DiskInStep, Switching
  <2> QED
    BY <1>2, <2>1, <2>2 DEF Compare, Wait
<1>3. CASE Reload
  <2>1. CASE UNCHANGED loop
    BY <1>0, <1>3, <2>1 DEF Reload, LocalsAgree, HalvesInStep, DiskInStep
  <2>2. CASE loop' = [loop EXCEPT !.at = "discover", !.why = "reload", !.next = file]
    <3>1. loop' \in LoopType
      BY <1>0, <2>2
    <3>2. loop'.at = "discover" /\ loop'.why = "reload" /\ loop'.cfg = loop.cfg
      BY <1>0, <2>2
    <3> QED
      BY <1>0, <1>3, <3>1, <3>2 DEF Reload, LocalsAgree, HalvesInStep, DiskInStep, Switching
  <2> QED
    BY <1>3, <2>1, <2>2 DEF Reload
<1>4. CASE DiscoverReloaded
  <2>1. CASE Wait
    BY <1>0, <1>4, <2>1, WaitKeeps DEF DiscoverReloaded, DiskInStep
  <2>2. CASE loop' = [loop EXCEPT !.at = "plan", !.servers = Effective(loop.next, net.dns)]
    <3>1. Effective(loop.next, net.dns) \in Servers
      BY <1>0, EffectiveType
    <3>2. loop' \in LoopType
      BY <1>0, <2>2, <3>1 DEF Switching
    <3>3. /\ loop'.at = "plan" /\ loop'.why = loop.why /\ loop'.next = loop.next
          /\ loop'.cfg = loop.cfg /\ loop'.servers \in Servers
      BY <1>0, <2>2, <3>1
    <3> QED
      BY <1>0, <1>4, <3>2, <3>3 DEF DiscoverReloaded, LocalsAgree, HalvesInStep, DiskInStep, Switching
  <2> QED
    BY <1>4, <2>1, <2>2 DEF DiscoverReloaded, RejectReload
<1>5. CASE PlanRoutes
  <2>1. CASE Wait
    BY <1>0, <1>5, <2>1, WaitKeeps DEF PlanRoutes, DiskInStep
  <2>2. ASSUME NEW l \in {"build", "finish"}, Goto(l)
        PROVE  LoopInv'
    <3>1. loop' \in LoopType
      BY <1>0, <2>2 DEF Goto, Switching, Shutdown
    <3>2. /\ loop'.at = l /\ loop'.why = loop.why /\ loop'.next = loop.next
          /\ loop'.cfg = loop.cfg /\ loop'.servers = loop.servers
      BY <1>0, <2>2 DEF Goto
    <3> QED
      BY <1>0, <1>5, <3>1, <3>2 DEF PlanRoutes, LocalsAgree, HalvesInStep, DiskInStep, Switching
  <2> QED
    BY <1>5, <2>1, <2>2 DEF PlanRoutes, LeaveLoop, Goto
<1>6. CASE Build
  <2>1. CASE Wait
    BY <1>0, <1>6, <2>1, WaitKeeps DEF Build, DiskInStep
  <2>2. CASE Goto(IF loop.why = "reload" THEN "write" ELSE "dns")
    <3>1. loop' \in LoopType
      BY <1>0, <2>2 DEF Goto, Switching
    <3>2. /\ loop'.at = (IF loop.why = "reload" THEN "write" ELSE "dns")
          /\ loop'.why = loop.why /\ loop'.next = loop.next
          /\ loop'.cfg = loop.cfg /\ loop'.servers = loop.servers
      BY <1>0, <2>2 DEF Goto
    <3> QED
      BY <1>0, <1>6, <3>1, <3>2 DEF Build, LocalsAgree, HalvesInStep, DiskInStep, Switching
  <2> QED
    BY <1>6, <2>1, <2>2 DEF Build, RejectReload
<1>7. CASE Reset
  BY <1>0, <1>7, WaitKeeps DEF Reset, DiskInStep
<1> QED
  BY <1>1, <1>2, <1>3, <1>4, <1>5, <1>6, <1>7

\* Writing the digest and storing the two halves, one after the other.
LEMMA SwitchStep ==
    ASSUME RuntimeInv, WriteDigest \/ SwapDNS \/ SwapPlane
    PROVE  LoopInv' /\ digest' \in [memory : Configs, disk : Configs, unsure : BOOLEAN]
           /\ plane' \in Policy /\ dns' \in Policy
<1>0. /\ loop \in LoopType /\ LocalsAgree /\ HalvesInStep /\ DiskInStep
      /\ plane \in Policy /\ dns \in Policy
      /\ digest \in [memory : Configs, disk : Configs, unsure : BOOLEAN]
  BY DEF RuntimeInv, RuntimeTypeOK
<1> USE DEF LoopInv, LoopType, Places, At
<1>1. CASE WriteDigest
  <2>1. ASSUME Wait, NEW onDisk \in {digest.disk, loop.next},
               digest' = [digest EXCEPT !.disk = onDisk, !.unsure = TRUE]
        PROVE  LoopInv' /\ digest' \in [memory : Configs, disk : Configs, unsure : BOOLEAN]
    <3>1. digest' \in [memory : Configs, disk : Configs, unsure : BOOLEAN]
      BY <1>0, <2>1
    <3>2. digest'.memory = digest.memory /\ digest'.unsure
      BY <1>0, <2>1
    <3> QED
      <4>1. UNCHANGED <<plane, dns>> /\ loop.at # "swap"
        BY <1>1 DEF WriteDigest
      <4>2. LoopInv'
        BY <2>1, <3>2, <4>1, WaitKeeps
      <4> QED
        BY <3>1, <4>2
  <2>2. CASE Goto("dns") /\ digest' = [digest EXCEPT !.disk = loop.next, !.unsure = FALSE]
    <3>1. loop' \in LoopType
      BY <1>0, <2>2 DEF Goto, Switching
    <3>2. /\ loop'.at = "dns" /\ loop'.why = loop.why /\ loop'.next = loop.next
          /\ loop'.cfg = loop.cfg /\ loop'.servers = loop.servers
      BY <1>0, <2>2 DEF Goto
    <3>3. /\ digest'.memory = digest.memory /\ digest'.disk = loop.next
          /\ digest' \in [memory : Configs, disk : Configs, unsure : BOOLEAN]
      BY <1>0, <2>2
    <3> QED
      BY <1>0, <1>1, <3>1, <3>2, <3>3 DEF WriteDigest, LocalsAgree, HalvesInStep, DiskInStep, Switching
  <2> QED
    BY <1>0, <1>1, <2>1, <2>2 DEF WriteDigest, RejectReload
<1>2. CASE SwapDNS
  <2>1. loop' \in LoopType
    BY <1>0, <1>2 DEF SwapDNS, Goto, Switching
  <2>2. /\ loop'.at = "swap" /\ loop'.why = loop.why /\ loop'.next = loop.next
        /\ loop'.cfg = loop.cfg /\ loop'.servers = loop.servers
    BY <1>0, <1>2 DEF SwapDNS, Goto
  <2>3. loop.servers \in Servers
    BY <1>0, <1>2 DEF SwapDNS, LocalsAgree, Switching
  <2> QED
    BY <1>0, <1>2, <2>1, <2>2, <2>3
       DEF SwapDNS, Swapped, Policy, LocalsAgree, HalvesInStep, DiskInStep, Switching
<1>3. CASE SwapPlane
  <2>1. loop.servers \in Servers /\ dns = [cfg |-> loop.next, by |-> loop.servers]
    BY <1>0, <1>3 DEF SwapPlane, LocalsAgree, HalvesInStep, Switching
  <2>2. plane' = dns /\ dns' = dns /\ plane'.cfg = loop.next
    BY <1>3, <2>1 DEF SwapPlane, Swapped
  <2>3. /\ digest' \in [memory : Configs, disk : Configs, unsure : BOOLEAN]
        /\ digest'.memory = loop.next /\ digest'.disk = digest.disk /\ digest'.unsure = digest.unsure
    BY <1>0, <1>3 DEF SwapPlane
  <2>4. CASE loop.why = "reload"
    <3>1. loop' \in LoopType
      BY <1>0, <1>3, <2>4 DEF SwapPlane, Adopt
    <3>2. loop'.at = "reset" /\ loop'.why = "reload" /\ loop'.cfg = loop.next
      BY <1>0, <1>3, <2>4 DEF SwapPlane, Adopt
    <3> QED
      BY <1>0, <1>3, <2>1, <2>2, <2>3, <3>1, <3>2
         DEF SwapPlane, LocalsAgree, HalvesInStep, DiskInStep, Switching
  <2>5. CASE loop.why # "reload"
    <3>1. loop.next = loop.cfg
      BY <1>0, <1>3, <2>5 DEF SwapPlane, LocalsAgree, Switching
    <3>2. loop' \in LoopType
      BY <1>0, <1>3, <2>5, WaitType DEF SwapPlane
    <3>3. loop'.at = "select" /\ loop'.why = None /\ loop'.cfg = loop.cfg
      BY <1>0, <1>3, <2>5, WaitType DEF SwapPlane
    <3> QED
      BY <1>0, <1>3, <2>1, <2>2, <2>3, <3>1, <3>2, <3>3
         DEF SwapPlane, LocalsAgree, HalvesInStep, DiskInStep, Switching, None
  <2> QED
    BY <2>4, <2>5
<1> QED
  BY <1>1, <1>2, <1>3

\* The part of the invariant about the queries.
QueryInv == QueryShape /\ CalmSnapshot /\ CalmDecided

\* A query moves on alone.
LEMMA OwnStep ==
    ASSUME QueryInv, UNCHANGED plane, NEW q \in Query, NEW r,
           r \in QueryType(r.at),
           query' = [query EXCEPT ![q] = r],
           r.at = "decide" /\ r.calm => r.snap.cfg = plane.cfg,
           r.at \in {"forward", "answer"} /\ r.calm =>
               r.faked = Fakes(r.snap.cfg.exclude, r.snap.cfg.rules, r.dom)
    PROVE  QueryInv'
<1>1. /\ query'[q] = r
      /\ \A p \in Query : p # q => query'[p] = query[p]
      /\ query' = [p \in Query |-> query'[p]]
  BY DEF QueryInv, QueryShape
<1>2. QueryShape'
  BY <1>1 DEF QueryInv, QueryShape
<1>3. CalmSnapshot' /\ CalmDecided'
  BY <1>1 DEF QueryInv, CalmSnapshot, CalmDecided
<1> QED
  BY <1>2, <1>3 DEF QueryInv

\* Every step of a query keeps what is known of the queries.
LEMMA QueryOwnStep ==
    ASSUME RuntimeInv, NEW q \in Query, Ask(q) \/ QueryStep(q)
    PROVE  QueryInv'
<1>0. QueryInv /\ query[q] \in QueryType(query[q].at) /\ dns \in Policy
  BY DEF RuntimeInv, RuntimeTypeOK, QueryInv, QueryShape
<1>1. UNCHANGED plane
  BY DEF Ask, QueryStep, Load, Decide, Forward, Answer, SetQuery, control
<1>2. CASE Ask(q)
  <2>1. PICK d \in Domain, a \in {"refused", "load"} :
            query' = [query EXCEPT ![q] = [NoQuery EXCEPT !.dom = d, !.at = a]]
    BY <1>2 DEF Ask, SetQuery
  <2> DEFINE r == [NoQuery EXCEPT !.dom = d, !.at = a]
  <2>2. r \in QueryType(r.at) /\ r.at \in {"refused", "load"}
    BY DEF NoQuery, QueryType, Loaded
  <2> HIDE DEF r
  <2> QED
    BY <1>0, <1>1, <2>1, <2>2, OwnStep DEF r
<1>3. CASE Load(q)
  <2> DEFINE r == [query[q] EXCEPT !.at = "decide", !.snap = dns, !.calm = dns.cfg = plane.cfg]
  <2>1. query' = [query EXCEPT ![q] = r]
    BY <1>3 DEF Load, SetQuery
  <2>2. r \in QueryType(r.at)
    BY <1>0 DEF QueryType, Loaded
  <2>3. r.at = "decide" /\ r.snap = dns /\ (r.calm => dns.cfg = plane.cfg)
    BY <1>0 DEF QueryType
  <2> HIDE DEF r
  <2> QED
    BY <1>0, <1>1, <2>1, <2>2, <2>3, OwnStep
<1>4. CASE Decide(q)
  <2> DEFINE fake == Fakes(query[q].snap.cfg.exclude, plane.cfg.rules, query[q].dom)
             r == [query[q] EXCEPT !.faked = fake, !.at = IF fake THEN "answer" ELSE "forward"]
  <2>1. query' = [query EXCEPT ![q] = r]
    BY <1>4 DEF Decide, SetQuery
  <2>2. fake \in BOOLEAN
    BY DEF Fakes
  <2>3. query[q].calm => fake = Fakes(query[q].snap.cfg.exclude, query[q].snap.cfg.rules, query[q].dom)
    BY <1>0, <1>4 DEF QueryInv, CalmSnapshot, Decide
  <2>4. query[q].at \in Loaded
    BY <1>4 DEF Decide, Loaded
  <2> HIDE DEF fake
  <2>5. r \in QueryType(r.at)
    BY <1>0, <2>2, <2>4 DEF QueryType, Loaded
  <2>6. /\ r.at \in {"answer", "forward"} /\ r.snap = query[q].snap /\ r.calm = query[q].calm
        /\ r.dom = query[q].dom /\ r.faked = fake
    BY <1>0 DEF QueryType
  <2> HIDE DEF r
  <2> QED
    BY <1>0, <1>1, <2>1, <2>3, <2>5, <2>6, OwnStep
<1>5. CASE Forward(q)
  <2> DEFINE r == [query[q] EXCEPT !.at = "answer"]
  <2>1. query' = [query EXCEPT ![q] = r]
    BY <1>5 DEF Forward, SetQuery
  <2>2. r \in QueryType(r.at)
    BY <1>0, <1>5 DEF QueryType, Loaded, Forward
  <2>3. /\ r.at = "answer" /\ r.snap = query[q].snap /\ r.calm = query[q].calm
        /\ r.dom = query[q].dom /\ r.faked = query[q].faked
    BY <1>0 DEF QueryType
  <2> HIDE DEF r
  <2>4. r.calm => r.faked = Fakes(r.snap.cfg.exclude, r.snap.cfg.rules, r.dom)
    BY <1>0, <1>5, <2>3 DEF QueryInv, CalmDecided, Forward
  <2> QED
    BY <1>0, <1>1, <2>1, <2>2, <2>3, <2>4, OwnStep
<1>6. CASE Answer(q)
  <2>1. query' = [query EXCEPT ![q] = NoQuery]
    BY <1>6 DEF Answer, SetQuery
  <2>2. NoQuery \in QueryType(NoQuery.at) /\ NoQuery.at = "idle"
    BY DEF NoQuery, QueryType, Loaded
  <2> QED
    BY <1>0, <1>1, <2>1, <2>2, OwnStep
<1> QED
  BY <1>2, <1>3, <1>4, <1>5, <1>6 DEF QueryStep

\* Storing a new half takes the calm from every query if the configuration changes.
LEMMA DisturbedStep ==
    ASSUME QueryInv, query' = Disturbed, loop.why # "reload" => plane'.cfg = plane.cfg
    PROVE  QueryInv'
<1>1. CASE loop.why = "reload"
  <2>1. /\ query' = [q \in Query |-> [query[q] EXCEPT !.calm = FALSE]]
        /\ \A q \in Query : query[q] \in QueryType(query[q].at)
    BY <1>1 DEF QueryInv, QueryShape, Disturbed
  <2>2. \A q \in Query : ~query'[q].calm /\ query'[q] \in QueryType(query'[q].at)
    <3> TAKE q \in Query
    <3>1. query'[q] = [query[q] EXCEPT !.calm = FALSE] /\ query[q] \in QueryType(query[q].at)
      BY <2>1
    <3> QED
      BY <3>1 DEF QueryType
  <2>3. QueryShape'
    BY <2>1, <2>2 DEF QueryShape
  <2> QED
    BY <2>2, <2>3 DEF QueryInv, CalmSnapshot, CalmDecided
<1>2. CASE loop.why # "reload"
  BY <1>2 DEF QueryInv, QueryShape, CalmSnapshot, CalmDecided, Disturbed
<1> QED
  BY <1>1, <1>2

----------------------------------------------------------------------------
\* The inductive invariant survives every step.
LEMMA RuntimeInvStep == RuntimeInv /\ [RuntimeNext]_vars => RuntimeInv'
<1> SUFFICES ASSUME RuntimeInv, [RuntimeNext]_vars PROVE RuntimeInv'
  OBVIOUS
<1>0. RuntimeTypeOK /\ LoopInv /\ QueryInv
  BY DEF RuntimeInv, RuntimeTypeOK, LoopInv, QueryInv
<1>1. CASE UNCHANGED vars
  BY <1>1 DEF vars, RuntimeInv, RuntimeTypeOK, LocalsAgree, HalvesInStep, DiskInStep, QueryShape,
              CalmSnapshot, CalmDecided
<1>2. CASE Aside
  BY <1>2 DEF Aside, RuntimeInv, RuntimeTypeOK, LocalsAgree, HalvesInStep, DiskInStep, QueryShape,
              CalmSnapshot, CalmDecided
<1>3. CASE Departing
  <2>1. LoopInv'
    BY <1>0, <1>3 DEF Departing, LoopInv, LocalsAgree, HalvesInStep, DiskInStep, Shutdown, Switching
  <2> QED
    BY <1>0, <1>3, <2>1 DEF Departing, RuntimeInv, LoopInv, RuntimeTypeOK, QueryShape, CalmSnapshot, CalmDecided
<1>4. CASE \/ Discover \/ Compare \/ Reload \/ DiscoverReloaded \/ PlanRoutes \/ Build \/ Reset
  <2>1. LoopInv'
    BY <1>4, EarlyStep
  <2>2. UNCHANGED <<bound, file, net, plane, dns, digest, query, part>>
    BY <1>4 DEF Discover, Compare, Reload, DiscoverReloaded, PlanRoutes, Build, Reset, LoopOnly
  <2> QED
    BY <1>0, <2>1, <2>2 DEF RuntimeInv, LoopInv, RuntimeTypeOK, QueryShape, CalmSnapshot, CalmDecided
<1>5. CASE WriteDigest \/ SwapDNS \/ SwapPlane
  <2>1. LoopInv' /\ digest' \in [memory : Configs, disk : Configs, unsure : BOOLEAN]
        /\ plane' \in Policy /\ dns' \in Policy
    BY <1>5, SwitchStep
  <2>2. UNCHANGED <<bound, file, net, part>>
    BY <1>5 DEF WriteDigest, SwapDNS, SwapPlane, LoopOnly
  <2>3. QueryInv'
    <3>1. CASE WriteDigest
      BY <1>0, <3>1 DEF WriteDigest, LoopOnly, QueryInv, QueryShape, CalmSnapshot, CalmDecided
    <3>2. CASE SwapDNS
      BY <1>0, <3>2, DisturbedStep DEF SwapDNS
    <3>3. CASE SwapPlane
      <4>1. loop.why # "reload" => plane'.cfg = plane.cfg
        BY <1>0, <3>3 DEF SwapPlane, Swapped, At, LoopInv, LocalsAgree, HalvesInStep, Switching
      <4> QED
        BY <1>0, <3>3, <4>1, DisturbedStep DEF SwapPlane
    <3> QED
      BY <1>5, <3>1, <3>2, <3>3
  <2> QED
    BY <1>0, <2>1, <2>2, <2>3 DEF RuntimeInv, LoopInv, QueryInv, RuntimeTypeOK
<1>6. ASSUME NEW q \in Query, Ask(q) \/ QueryStep(q)
      PROVE  RuntimeInv'
  <2>1. QueryInv'
    BY <1>6, QueryOwnStep
  <2>2. UNCHANGED <<bound, file, net, loop, plane, dns, digest, part>>
    BY <1>6 DEF Ask, QueryStep, Load, Decide, Forward, Answer, SetQuery, control
  <2> QED
    BY <1>0, <2>1, <2>2
       DEF RuntimeInv, LoopInv, QueryInv, RuntimeTypeOK, LocalsAgree, HalvesInStep, DiskInStep
<1> QED
  BY <1>0, <1>1, <1>2, <1>3, <1>4, <1>5, <1>6, AsideSteps, DepartingSteps DEF RuntimeNext, LoopStep

\* Start gives all parts the same configuration.
LEMMA RuntimeInvInit == RuntimeInit => RuntimeInv
<1> SUFFICES ASSUME RuntimeInit PROVE RuntimeInv
  OBVIOUS
<1>a. PICK s \in Scenarios : \E c \in s.bound.configs, n \in s.bound.nets :
        \E found \in {<<>>, n.dns} : Started(s, c, n, found)
  BY DEF RuntimeInit
<1>d. PICK c \in s.bound.configs, n \in s.bound.nets : \E found \in {<<>>, n.dns} : Started(s, c, n, found)
  BY <1>a
<1>e. PICK found \in {<<>>, n.dns} : Started(s, c, n, found)
  BY <1>d
<1>b. /\ bound = s.bound /\ file = c /\ net = n
      /\ loop = [at |-> "select", why |-> None, cfg |-> c, next |-> c, servers |-> <<>>, fp |-> <<>>,
                 routes |-> Plan(n, c, Effective(c, found), {}), consumed |-> {}, late |-> FALSE]
      /\ plane = [cfg |-> c, by |-> Effective(c, found)]
      /\ dns = [cfg |-> c, by |-> Effective(c, found)]
      /\ digest = [memory |-> c, disk |-> c, unsure |-> FALSE]
      /\ query = [q \in Query |-> NoQuery]
      /\ part = [p \in Part |-> "alive"]
  BY <1>e DEF Started
<1>1. c \in Configs /\ n \in Nets
  BY DEF Configs, Nets
<1>2. bound.configs \subseteq Configs /\ bound.nets \subseteq Nets
  BY <1>b DEF Configs, Nets
<1>3. Effective(c, found) \in Servers
  BY <1>1, EffectiveType
<1>4. Plan(n, c, Effective(c, found), {}) \in Plans /\ <<>> \in Prints
  BY <1>1, <1>3 DEF Prints, Plans
<1>5. loop \in LoopType /\ plane \in Policy /\ dns \in Policy
  BY <1>1, <1>b, <1>3, <1>4 DEF LoopType, Places, Policy
<1>6. QueryShape
  BY <1>b DEF QueryShape, QueryType, NoQuery, Loaded
<1>7. RuntimeTypeOK
  BY <1>1, <1>b, <1>2, <1>5, <1>6 DEF RuntimeTypeOK
<1> QED
  BY <1>b, <1>7 DEF RuntimeInv, LocalsAgree, HalvesInStep, DiskInStep, CalmSnapshot, CalmDecided,
                    NoQuery, Switching, None

\* However reloads are rejected and refreshes fail, whenever Run is back in its select the DNS
\* server, the data plane, the loop and the reported digest have one configuration, and a query
\* that no reload overlaps is decided by one configuration: for any configurations, any number
\* of queries, reloads and changes of the network (Run, reloadRuntime, refreshNetwork, ServeDNS).
THEOREM PolicyAgreement == RuntimeSpec => []PolicyAgrees
<1>1. RuntimeInv => PolicyAgrees
  BY DEF RuntimeInv, PolicyAgrees, HalvesInStep, DiskInStep, CalmDecided, At
<1> QED
  BY <1>1, RuntimeInvInit, RuntimeInvStep, PTL DEF RuntimeSpec

\* A refresh of the network never changes the policy, and a rejected reload changes nothing of
\* it: the configuration of the data plane changes only in the step in which an accepted reload
\* makes the loop adopt it and the digest report it (UpdateRules, runtime = next).
PolicyChangesOnce ==
    [][plane'.cfg # plane.cfg =>
         /\ loop.why = "reload" /\ dns.cfg = plane'.cfg
         /\ loop'.cfg = plane'.cfg /\ digest'.memory = plane'.cfg]_vars

\* Nothing but a reload switches the data plane, and it switches the rest in the same step: a
\* refresh of the network, or a rejected reload, leaves the configuration of queries alone.
THEOREM PolicyChangesByReload == RuntimeSpec => PolicyChangesOnce
<1>1. RuntimeInv /\ RuntimeInv' /\ [RuntimeNext]_vars =>
        [plane'.cfg # plane.cfg =>
           /\ loop.why = "reload" /\ dns.cfg = plane'.cfg
           /\ loop'.cfg = plane'.cfg /\ digest'.memory = plane'.cfg]_vars
  <2> SUFFICES ASSUME RuntimeInv, RuntimeInv', [RuntimeNext]_vars, plane'.cfg # plane.cfg
               PROVE  loop.why = "reload" /\ dns.cfg = plane'.cfg
    BY DEF RuntimeInv, HalvesInStep
  <2>1. SwapPlane
    <3>1. RuntimeTypeOK
      BY DEF RuntimeInv
    <3>2. ~(Aside \/ Departing \/ UNCHANGED vars)
      BY DEF Aside, Departing, vars
    <3>3. ~ \/ Discover \/ Compare \/ Reload \/ DiscoverReloaded \/ PlanRoutes \/ Build \/ Reset
            \/ WriteDigest \/ SwapDNS
      BY DEF Discover, Compare, Reload, DiscoverReloaded, PlanRoutes, Build, Reset, WriteDigest, SwapDNS
    <3>4. \A q \in Query : ~(Ask(q) \/ QueryStep(q))
      BY DEF Ask, QueryStep, Load, Decide, Forward, Answer, SetQuery, control
    <3> QED
      BY <3>1, <3>2, <3>3, <3>4, AsideSteps, DepartingSteps DEF RuntimeNext, LoopStep
  <2> QED
    BY <2>1 DEF SwapPlane, Swapped, At, RuntimeInv, LocalsAgree, HalvesInStep, Switching
<1> QED
  BY <1>1, RuntimeInvInit, RuntimeInvStep, PTL DEF RuntimeSpec, PolicyChangesOnce

----------------------------------------------------------------------------
\* Steps of the select loop before it is left, and of the queries, take no result.
LEMMA BusyTakenOnce ==
    ASSUME RuntimeInv, TakenOnce, UNCHANGED part,
           \/ Discover \/ Compare \/ Reload \/ DiscoverReloaded \/ PlanRoutes \/ Build
           \/ WriteDigest \/ SwapDNS \/ SwapPlane \/ Reset
    PROVE  TakenOnce'
<1>1. loop \in LoopType
  BY DEF RuntimeInv, RuntimeTypeOK
<1>2. loop.at \notin {"output", "stack", "returned"}
  BY DEF Discover, Compare, Reload, DiscoverReloaded, PlanRoutes, Build, WriteDigest, SwapDNS,
         SwapPlane, Reset, At
<1>3. loop'.late = loop.late /\ loop'.consumed = loop.consumed
  <2>1. CASE Discover
    BY <1>1, <2>1 DEF Discover, LoopType
  <2>2. CASE Compare
    BY <1>1, <2>2 DEF Compare, LoopType, Waiting
  <2>3. CASE Reload \/ DiscoverReloaded
    BY <1>1, <2>3 DEF Reload, DiscoverReloaded, RejectReload, Wait, LoopType, Waiting
  <2>4. CASE PlanRoutes
    BY <1>1, <2>4 DEF PlanRoutes, Goto, LeaveLoop, Wait, LoopType, Waiting
  <2>5. CASE Build
    BY <1>1, <2>5 DEF Build, RejectReload, Goto, Wait, LoopType, Waiting
  <2>6. CASE WriteDigest \/ SwapDNS \/ Reset
    BY <1>1, <2>6 DEF WriteDigest, SwapDNS, Reset, RejectReload, Goto, Wait, LoopType, Waiting
  <2>7. CASE SwapPlane
    BY <1>1, <2>7 DEF SwapPlane, Wait, LoopType, Waiting
  <2> QED
    BY <2>1, <2>2, <2>3, <2>4, <2>5, <2>6, <2>7
<1> QED
  BY <1>2, <1>3 DEF TakenOnce

\* The shutdown takes a result where Leave has not.
LEMMA EndTakenOnce ==
    ASSUME RuntimeInv, TakenOnce, Leave \/ Finish
    PROVE  TakenOnce'
<1>1. loop \in LoopType /\ part \in [Part -> {"alive", "ended", "taken"}]
  BY DEF RuntimeInv, RuntimeTypeOK
<1> USE DEF TakenOnce, LoopType, Part, Server, At, Goto
<1>2. CASE Leave
  <2>1. CASE UNCHANGED part /\ LeaveLoop(loop)
    BY <1>1, <1>2, <2>1 DEF Leave, LeaveLoop
  <2>2. ASSUME NEW p \in {"pump", "output"}, LeaveLoop(Consume(p)), part' = [part EXCEPT ![p] = "taken"]
        PROVE  TakenOnce'
    <3>1. loop'.consumed = loop.consumed \cup {p} /\ loop'.late = loop.late
      BY <1>1, <2>2 DEF LeaveLoop, Consume
    <3>2. loop.at = "select"
      BY <1>2 DEF Leave
    <3> QED
      BY <1>1, <2>2, <3>1, <3>2
  <2> QED
    BY <1>2, <2>1, <2>2 DEF Leave
<1>3. CASE CloseDNS
  <2>1. /\ loop.at \notin {"output", "stack", "returned"}
        /\ loop'.late = loop.late /\ loop'.consumed = loop.consumed
    BY <1>1, <1>3 DEF CloseDNS
  <2>2. \A p \in {"pump", "output"} : part'[p] = part[p]
    BY <1>1, <1>3 DEF CloseDNS, Ends
  <2> QED
    BY <2>1, <2>2
<1>4. CASE CloseDevice
  BY <1>1, <1>4 DEF CloseDevice
<1>5. CASE AwaitResult("pump", "output")
  <2>1. ~("pump" \notin loop.consumed /\ part["pump"] = "taken")
    BY <1>5 DEF AwaitResult
  <2>2. /\ loop.at = "pump" /\ loop'.at = "output" /\ loop'.late = loop.late
        /\ loop'.consumed = loop.consumed
    BY <1>1, <1>5, <2>1 DEF AwaitResult, DeadlineEnds
  <2>3. part'["output"] = part["output"]
    BY <1>1, <1>5 DEF AwaitResult
  <2> QED
    BY <2>2, <2>3
<1>6. CASE AwaitResult("output", "stack")
  <2>1. ~("output" \notin loop.consumed /\ part["output"] = "taken")
    BY <1>6 DEF AwaitResult
  <2>2. /\ loop.at = "output" /\ loop'.at = "stack" /\ loop'.late = loop.late
        /\ loop'.consumed = loop.consumed
    BY <1>1, <1>6, <2>1 DEF AwaitResult, DeadlineEnds
  <2> QED
    BY <2>2
<1>7. CASE CloseStack
  BY <1>1, <1>7 DEF CloseStack
<1> QED
  BY <1>2, <1>3, <1>4, <1>5, <1>6, <1>7 DEF Finish

\* The other goroutines end, but take nothing.
LEMMA AsideTakenOnce ==
    ASSUME RuntimeInv, TakenOnce,
           \/ NetworkChanges \/ EditConfig \/ Stop
           \/ ReaderStep \/ ReaderReads \/ WriterStep \/ WriterReads
           \/ \E s \in Server : ServerFails(s)
    PROVE  TakenOnce'
<1>1. part \in [Part -> {"alive", "ended", "taken"}] /\ RuntimeTypeOK
  BY DEF RuntimeInv, RuntimeTypeOK
<1>2. UNCHANGED loop
  BY <1>1, AsideSteps DEF Aside
<1>3. \/ UNCHANGED part
      \/ \E p \in Part : Ends(p)
  BY DEF NetworkChanges, EditConfig, Stop, EnvOnly, ReaderStep, ReaderReads, ReaderGets, ReaderHandles,
         ReaderStops, WriterStep, WriterReads, WriterGets, WriterWrites, WriterStops, ServerFails, Part
<1> QED
  BY <1>1, <1>2, <1>3 DEF TakenOnce, Ends, Part, Server

\* Run never waits for the result of a pump that it has already taken out of its channel, so its
\* shutdown never ends by the deadline for that reason (the flags of finish).
THEOREM NeverLate == RuntimeSpec => []~loop.late
<1>1. RuntimeInit => TakenOnce
  BY DEF RuntimeInit, Started, TakenOnce, Part
<1>2. RuntimeInv /\ TakenOnce /\ [RuntimeNext]_vars => TakenOnce'
  <2> SUFFICES ASSUME RuntimeInv, TakenOnce, [RuntimeNext]_vars PROVE TakenOnce'
    OBVIOUS
  <2>1. CASE UNCHANGED vars
    BY <2>1 DEF vars, TakenOnce
  <2>2. CASE \/ Discover \/ Compare \/ Reload \/ DiscoverReloaded \/ PlanRoutes \/ Build
             \/ WriteDigest \/ SwapDNS \/ SwapPlane \/ Reset
    <3>1. UNCHANGED part
      BY <2>2 DEF Discover, Compare, Reload, DiscoverReloaded, PlanRoutes, Build, WriteDigest, SwapDNS,
                  SwapPlane, Reset, LoopOnly
    <3> QED
      BY <2>2, <3>1, BusyTakenOnce
  <2>3. ASSUME NEW q \in Query, Ask(q) \/ QueryStep(q) PROVE TakenOnce'
    BY <2>3 DEF TakenOnce, Ask, QueryStep, Load, Decide, Forward, Answer, SetQuery, control
  <2> QED
    BY <2>1, <2>2, <2>3, EndTakenOnce, AsideTakenOnce DEF RuntimeNext, LoopStep
<1>3. TakenOnce => ~loop.late
  BY DEF TakenOnce
<1> QED
  BY <1>1, <1>2, <1>3, RuntimeInvInit, RuntimeInvStep, PTL DEF RuntimeSpec

\* No way out of a pump's iteration, a failing one included, loses a buffer or returns it twice
\* (BufferPool.Get and Put in Pump.Run and Pump.Write).
THEOREM BuffersConserved == RuntimeSpec => []BuffersKept
<1>1. RuntimeInit => BuffersKept
  BY RuntimeAssumption DEF RuntimeInit, Started, BuffersKept, Held
<1>2. BuffersKept /\ [RuntimeNext]_vars => BuffersKept'
  <2> SUFFICES ASSUME BuffersKept, [RuntimeNext]_vars PROVE BuffersKept'
    OBVIOUS
  <2> USE RuntimeAssumption DEF BuffersKept, Held, PumpOnly
  <2>1. CASE UNCHANGED pumps
    BY <2>1 DEF pumps
  <2>2. CASE ReaderStep
    BY <2>2 DEF ReaderStep, ReaderGets, ReaderHandles, ReaderStops
  <2>3. CASE ReaderReads
    BY <2>3 DEF ReaderReads, PutInvalid
  <2>4. CASE WriterStep
    BY <2>4 DEF WriterStep, WriterGets, WriterWrites, WriterStops
  <2>5. CASE WriterReads
    BY <2>5 DEF WriterReads
  <2>6. CASE UNCHANGED vars \/ NetworkChanges \/ EditConfig \/ Stop \/ Leave \/ Finish
    BY <2>1, <2>6 DEF vars, pumps, NetworkChanges, EditConfig, Stop, EnvOnly, Leave, Finish, CloseDNS,
                      CloseDevice, AwaitResult, CloseStack, Finishing
  <2>7. CASE \/ Discover \/ Compare \/ Reload \/ DiscoverReloaded \/ PlanRoutes \/ Build
             \/ WriteDigest \/ SwapDNS \/ SwapPlane \/ Reset
    BY <2>1, <2>7 DEF Discover, Compare, Reload, DiscoverReloaded, PlanRoutes, Build, WriteDigest, SwapDNS,
                      SwapPlane, Reset, LoopOnly
  <2>8. CASE \E q \in Query : Ask(q) \/ QueryStep(q)
    BY <2>1, <2>8 DEF Ask, QueryStep, Load, Decide, Forward, Answer, SetQuery
  <2>9. CASE \E s \in Server : ServerFails(s)
    BY <2>1, <2>9 DEF ServerFails
  <2> QED
    BY <2>2, <2>3, <2>4, <2>5, <2>6, <2>7, <2>8, <2>9 DEF RuntimeNext, LoopStep
<1> QED
  BY <1>1, <1>2, PTL DEF RuntimeSpec
=============================================================================
