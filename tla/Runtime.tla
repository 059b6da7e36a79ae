------------------------------ MODULE Runtime ------------------------------
(***************************************************************************)
(* A running instance between start and return: Run's select loop with     *)
(* configuration reloads and network refreshes, the Fake DNS server whose  *)
(* queries overlap them, the two packet pumps on their bounded buffers,    *)
(* and the shutdown that every failing part triggers.                      *)
(*                                                                         *)
(* The loop is one goroutine, cut wherever a query, a pump or the host's   *)
(* network may act in between.  What Run does to the host is in module     *)
(* HostState, what a generation does for flows in DataPlane and Session.   *)
(***************************************************************************)
EXTENDS Rules, FiniteSets, Functions

CONSTANTS
    Query,         \* DNS queries
    Scenarios,     \* configurations on disk, and bounds of the environment
    MaxConcurrent, \* dns.max_concurrent
    Buffers        \* tun.buffer_pool

None == "none"
Gone == "gone"      \* the interface of the outbounds is missing or down

Server == {"udp", "tcp"}
Part == Server \cup {"pump", "output"}

ASSUME RuntimeAssumption ==
    /\ MaxConcurrent \in Nat \ {0}
    /\ Buffers \in Nat \ {0, 1}
    /\ \A s \in Scenarios : \A c \in s.bound.configs : EndsInDefault(c.rules)

VARIABLES
    bound,   \* bounds: [configs, nets, capture, queries, ends, traffic]
    left,    \* bounds: changes of the network, reloads and failing calls that are left
    file,    \* the configuration file: DNS mode and servers of an outbound, the servers of
             \* the outbounds beside it on its interface, exclusions and rules
    net,     \* the host's network: the interface's DNS servers and addresses, its gateway, and
             \* the addresses that the system itself keeps host routes for
    loop,    \* locals of Run
    refresh, \* networkRefreshState; `owed` is history: an attempt failed and none succeeded since
    plane,   \* current generation of the data plane: configuration and DNS servers
    dns,     \* runtimeConfig of the DNS server: configuration and DNS servers
    digest,  \* the digest in memory and in the state file; `unsure` is history
    query,
    part,    \* goroutines: "alive", "ended" (the result is in its channel), "taken"
    closed,  \* the data context is cancelled and the device closed
    stop,    \* the context of Run is cancelled
    reader, writer, pool  \* the two pumps, and the buffers in the pool

control == <<file, net, loop, refresh, plane, dns, digest, stop>>
pumps == <<reader, writer, pool>>
vars == <<bound, left, file, net, loop, refresh, plane, dns, digest, query, part, closed, stop, reader, writer, pool>>

\* runtimeWithInterfaceDNS: found servers replace the configured ones in DHCP mode.
Effective(c, found) == IF c.dhcp /\ found # <<>> THEN found ELSE c.dns

\* All that the outbounds of the interface ask: neither the order of a list nor the outbound
\* that a server belongs to is left of it.
Asked(c, servers) == Range(servers) \cup c.beside

\* networkFingerprint: the interface's state with the DNS servers in use, sorted and compacted.
Fingerprint(n, c, servers) == IF n.link = Gone THEN <<Gone>> ELSE <<n.link, Asked(c, servers)>>

\* planDefaultRouteCaptureOwned: host routes to the gateway and to the servers, but not where
\* the system keeps one; `owned` are the host routes of this instance.
Plan(n, c, servers, owned) ==
    [gw |-> n.gw, hosts |-> ({n.gw} \cup Asked(c, servers)) \ (n.own \ owned)]

\* The interface is there and has a default route.
Provable(n) == n.link # Gone /\ n.gw # None

\* excluded and shouldFake: a query for this name is given a Fake IP.
Fakes(exclude, rules, d) == d \notin exclude /\ RequiresFakeIP(rules, d)

NoQuery == [at |-> "idle", dom |-> None, snap |-> None, calm |-> FALSE, faked |-> FALSE]

\* Run up to its loop, with the servers that were found.
Started(s, c, n, found) ==
    LET servers == Effective(c, found) IN
    /\ Provable(n)
    /\ bound = s.bound /\ left = s.left /\ file = c /\ net = n
    /\ loop = [at |-> "select", why |-> None, cfg |-> c, next |-> c, servers |-> <<>>, fp |-> <<>>,
               routes |-> Plan(n, c, servers, {}), consumed |-> {}, late |-> FALSE]
    /\ refresh = [last |-> Fingerprint(n, c, servers), pending |-> FALSE, owed |-> FALSE]
    /\ plane = [cfg |-> c, by |-> servers]
    /\ dns = [cfg |-> c, by |-> servers]
    /\ digest = [memory |-> c, disk |-> c, unsure |-> FALSE]
    /\ query = [q \in Query |-> NoQuery]
    /\ part = [p \in Part |-> "alive"] /\ closed = FALSE /\ stop = FALSE
    /\ reader = "get" /\ writer = "wait" /\ pool = Buffers

\* Discovery may have failed, which is only a warning.
RuntimeInit ==
    \E s \in Scenarios : \E c \in s.bound.configs, n \in s.bound.nets :
        \E found \in {<<>>, n.dns} : Started(s, c, n, found)

Spend(what) == left[what] > 0 /\ left' = [left EXCEPT ![what] = @ - 1]
Fault == Spend("faults")
At(l) == loop.at = l
Goto(l) == loop' = [loop EXCEPT !.at = l]

LeaveLoop(r) == loop' = [r EXCEPT !.at = "finish"]

\* Back in the select, where the locals of the case are gone.
Waiting(r) == [r EXCEPT !.at = "select", !.why = None, !.next = r.cfg, !.servers = <<>>, !.fp = <<>>]
Wait == loop' = Waiting(loop)

LoopOnly == UNCHANGED <<bound, file, net, query, part, closed, stop, pumps>>
EnvOnly == UNCHANGED <<bound, loop, refresh, plane, dns, digest, query, part, closed, pumps>>

----------------------------------------------------------------------------
\* The environment

NetworkChanges ==
    /\ Spend("changes")
    /\ \E n \in bound.nets \ {net} : net' = n
    /\ UNCHANGED <<file, stop>> /\ EnvOnly

EditConfig ==
    /\ Spend("edits")
    /\ \E c \in bound.configs \ {file} : file' = c
    /\ UNCHANGED <<net, stop>> /\ EnvOnly

Stop ==
    /\ bound.ends /\ ~stop
    /\ stop' = TRUE
    /\ UNCHANGED <<left, file, net>> /\ EnvOnly

----------------------------------------------------------------------------
\* networkRefreshState

ShouldAttempt(fp, woke) == refresh.pending \/ woke \/ fp # refresh.last

\* Mutant of Failed: the refresh does not stay pending.
FailedUnlessNew == refresh' = [refresh EXCEPT !.owed = TRUE]

\* failed: the refresh stays pending even if the old fingerprint comes back.
Failed == refresh' = [refresh EXCEPT !.pending = TRUE, !.owed = TRUE]

Succeeded(fp) == refresh' = [last |-> fp, pending |-> FALSE, owed |-> FALSE]

----------------------------------------------------------------------------
\* The network ticker

Discover ==
    /\ At("select")
    /\ \/ /\ loop' = [loop EXCEPT !.at = "compare", !.why = "refresh", !.next = loop.cfg,
                                  !.servers = Effective(loop.cfg, net.dns)]
          /\ UNCHANGED <<refresh, left>>
       \/ loop.cfg.dhcp /\ Fault /\ Failed /\ UNCHANGED loop
    /\ LoopOnly /\ UNCHANGED <<plane, dns, digest>>

\* `woke`: the tick was late, the host has slept.
Compare ==
    /\ At("compare")
    /\ \E woke \in BOOLEAN :
         LET fp == Fingerprint(net, loop.cfg, loop.servers) IN
         loop' = IF ShouldAttempt(fp, woke) THEN [loop EXCEPT !.fp = fp, !.at = "plan"] ELSE Waiting(loop)
    /\ LoopOnly /\ UNCHANGED <<left, refresh, plane, dns, digest>>

----------------------------------------------------------------------------
\* reloadRuntime

RejectReload == Wait /\ UNCHANGED refresh

Resolvers(c) == <<c.dhcp, c.dns, c.beside>>

\* LoadConfig and PreflightReload; with captured routes the outbounds may not change.
Reload ==
    /\ At("select") /\ Spend("reloads")
    /\ \/ /\ net.link # Gone /\ (bound.capture => Resolvers(file) = Resolvers(loop.cfg))
          /\ loop' = [loop EXCEPT !.at = "discover", !.why = "reload", !.next = file]
       \/ UNCHANGED loop
    /\ LoopOnly /\ UNCHANGED <<refresh, plane, dns, digest>>

DiscoverReloaded ==
    /\ At("discover")
    /\ \/ /\ loop' = [loop EXCEPT !.at = "plan", !.servers = Effective(loop.next, net.dns)]
          /\ UNCHANGED <<left, refresh>>
       \/ loop.next.dhcp /\ Fault /\ RejectReload
    /\ LoopOnly /\ UNCHANGED <<plane, dns, digest>>

----------------------------------------------------------------------------
\* Both go on alike: compare the bypass routes, build the new half, switch to it.

\* A changed topology, or one that no lookup proves, ends the instance, unless it was a
\* reload that asked.
PlanRoutes ==
    /\ At("plan")
    /\ LET same == Provable(net) /\ Plan(net, loop.next, loop.servers, loop.routes.hosts) = loop.routes
           changed == IF loop.why = "reload" THEN Wait ELSE LeaveLoop(loop)
       IN  \/ (bound.capture => same) /\ Goto("build") /\ UNCHANGED left
           \/ bound.capture /\ ~same /\ changed /\ UNCHANGED left
           \/ bound.capture /\ Fault /\ changed
    /\ LoopOnly /\ UNCHANGED <<refresh, plane, dns, digest>>

\* checkInterfaces (a refresh only: a reload has done it), prepare and NewClient.
Build ==
    /\ At("build")
    /\ \/ /\ loop.why = "refresh" => net.link # Gone
          /\ Goto(IF loop.why = "reload" THEN "write" ELSE "dns")
          /\ UNCHANGED <<left, refresh>>
       \/ loop.why = "reload" /\ Fault /\ RejectReload
       \/ loop.why = "refresh" /\ Fault /\ Failed /\ Wait
       \/ loop.why = "refresh" /\ net.link = Gone /\ Failed /\ Wait /\ UNCHANGED left
    /\ LoopOnly /\ UNCHANGED <<plane, dns, digest>>

\* WriteState with the new digest; it can fail before or after its rename.
WriteDigest ==
    /\ At("write")
    /\ \/ /\ Goto("dns") /\ digest' = [digest EXCEPT !.disk = loop.next, !.unsure = FALSE]
          /\ UNCHANGED <<left, refresh>>
       \/ /\ Fault /\ RejectReload
          /\ \E onDisk \in {digest.disk, loop.next} : digest' = [digest EXCEPT !.disk = onDisk, !.unsure = TRUE]
    /\ LoopOnly /\ UNCHANGED <<plane, dns>>

Swapped == [cfg |-> loop.next, by |-> loop.servers]

\* Two pointers, one after the other.  A query under way at a reload may see one old and one new.
Disturbed == IF loop.why = "reload" THEN [q \in Query |-> [query[q] EXCEPT !.calm = FALSE]] ELSE query

\* The argument checks of ReloadPolicy hold for every configuration that was validated.
SwapDNS ==
    /\ At("dns")
    /\ dns' = Swapped /\ query' = Disturbed
    /\ Goto("swap")
    /\ UNCHANGED <<bound, left, file, net, refresh, plane, digest, part, closed, stop, pumps>>

\* Mutant of Adopt: the loop keeps the old configuration.
AdoptNot == loop.cfg

\* runtime = next, after a reload that was not rejected.
Adopt == IF loop.why = "reload" THEN loop.next ELSE loop.cfg

SwapPlane ==
    /\ At("swap")
    /\ plane' = Swapped /\ query' = Disturbed
    /\ digest' = [digest EXCEPT !.memory = loop.next]
    /\ IF loop.why = "reload"
       THEN loop' = [loop EXCEPT !.at = "reset", !.cfg = Adopt] /\ UNCHANGED refresh
       ELSE Wait /\ Succeeded(loop.fp)
    /\ UNCHANGED <<bound, left, file, net, dns, part, closed, stop, pumps>>

\* A reload takes the fingerprint anew.
Reset ==
    /\ At("reset")
    /\ Succeeded(Fingerprint(net, loop.cfg, loop.servers))
    /\ Wait
    /\ LoopOnly /\ UNCHANGED <<left, plane, dns, digest>>

----------------------------------------------------------------------------
\* The DNS server

Active == {q \in Query : query[q].at \in {"load", "decide", "forward"}}
SetQuery(q, r) ==
    /\ query' = [query EXCEPT ![q] = r]
    /\ UNCHANGED <<bound, left, control, part, closed, pumps>>

\* ServeDNS, for an address query: other types are only forwarded, malformed ones refused.
\* At the limit the query is refused at once.
Ask(q) ==
    /\ query[q].at = "idle" /\ q \in bound.queries /\ \A s \in Server : part[s] = "alive"
    /\ \E d \in Domain :
         SetQuery(q, [NoQuery EXCEPT !.dom = d, !.at = IF Cardinality(Active) >= MaxConcurrent THEN "refused" ELSE "load"])

Load(q) ==
    /\ query[q].at = "load"
    /\ SetQuery(q, [query[q] EXCEPT !.at = "decide", !.snap = dns, !.calm = dns.cfg = plane.cfg])

\* shouldFake asks the generation of the moment, the exclusions are those of the snapshot.
Decide(q) ==
    /\ query[q].at = "decide"
    /\ LET r == query[q]
           fake == Fakes(r.snap.cfg.exclude, plane.cfg.rules, r.dom)
       IN  SetQuery(q, [r EXCEPT !.faked = fake, !.at = IF fake THEN "answer" ELSE "forward"])

Forward(q) ==
    /\ query[q].at = "forward"
    /\ SetQuery(q, [query[q] EXCEPT !.at = "answer"])

Answer(q) ==
    /\ query[q].at \in {"answer", "refused"}
    /\ SetQuery(q, NoQuery)

----------------------------------------------------------------------------
\* The pumps

PumpOnly == UNCHANGED <<bound, control, query, closed>>
Ends(p) == part' = [part EXCEPT ![p] = "ended"]

\* Mutant of PutInvalid: the buffer is lost.
PutKeeping == UNCHANGED pool

\* Put after a packet that is not valid.
PutInvalid == pool' = pool + 1

ReaderGets ==
    /\ part["pump"] = "alive" /\ reader = "get" /\ bound.traffic
    /\ pool > 0
    /\ pool' = pool - 1 /\ reader' = "read"
    /\ UNCHANGED <<left, writer, part>> /\ PumpOnly

ReaderReads ==
    /\ part["pump"] = "alive" /\ reader = "read" /\ ~closed
    /\ \/ reader' = "handle" /\ UNCHANGED <<left, pool, part>>
       \/ reader' = "get" /\ PutInvalid /\ UNCHANGED <<left, part>>
       \/ Fault /\ reader' = "over" /\ pool' = pool + 1 /\ Ends("pump")
    /\ UNCHANGED writer /\ PumpOnly

ReaderHandles ==
    /\ part["pump"] = "alive" /\ reader = "handle"
    /\ pool' = pool + 1
    /\ \/ reader' = "get" /\ UNCHANGED <<left, part>>
       \/ Fault /\ reader' = "over" /\ Ends("pump")
    /\ UNCHANGED writer /\ PumpOnly

\* Cancelling the context closes the device, which wakes a blocked read.
ReaderStops ==
    /\ part["pump"] = "alive" /\ reader \in {"get", "read"} /\ closed
    /\ pool' = IF reader = "read" THEN pool + 1 ELSE pool
    /\ reader' = "over" /\ Ends("pump")
    /\ UNCHANGED <<left, writer>> /\ PumpOnly

\* pumpNetstackOutput: the stack has a packet for the device.
WriterReads ==
    /\ part["output"] = "alive" /\ writer = "wait" /\ bound.traffic /\ ~closed
    /\ \/ writer' = "get" /\ UNCHANGED <<left, part>>
       \/ Fault /\ writer' = "over" /\ Ends("output")
    /\ UNCHANGED <<reader, pool>> /\ PumpOnly

WriterGets ==
    /\ part["output"] = "alive" /\ writer = "get"
    /\ pool > 0
    /\ pool' = pool - 1 /\ writer' = "write"
    /\ UNCHANGED <<left, reader, part>> /\ PumpOnly

WriterWrites ==
    /\ part["output"] = "alive" /\ writer = "write"
    /\ pool' = pool + 1
    /\ \/ writer' = "wait" /\ UNCHANGED <<left, part>>
       \/ Fault /\ writer' = "over" /\ Ends("output")
    /\ UNCHANGED reader /\ PumpOnly

WriterStops ==
    /\ part["output"] = "alive" /\ writer \in {"wait", "get"} /\ closed
    /\ writer' = "over" /\ Ends("output")
    /\ UNCHANGED <<left, reader, pool>> /\ PumpOnly

\* A serving loop of the DNS server exits unexpectedly.
ServerFails(s) ==
    /\ bound.ends /\ part[s] = "alive" /\ Fault
    /\ Ends(s)
    /\ UNCHANGED pumps /\ PumpOnly

----------------------------------------------------------------------------
\* The end

ConsumeNot(p) == loop

\* The loop has taken the result of a pump; finish must not wait for it.
Consume(p) == [loop EXCEPT !.consumed = @ \cup {p}]

\* The other cases of the select.
Leave ==
    /\ At("select")
    /\ \/ stop /\ LeaveLoop(loop) /\ UNCHANGED part
       \/ (\E s \in Server : part[s] = "ended") /\ LeaveLoop(loop) /\ UNCHANGED part
       \/ \E p \in {"pump", "output"} :
            part[p] = "ended" /\ LeaveLoop(Consume(p)) /\ part' = [part EXCEPT ![p] = "taken"]
    /\ UNCHANGED <<bound, left, file, net, refresh, plane, dns, digest, query, closed, stop, pumps>>

Finishing == UNCHANGED <<bound, file, net, refresh, plane, dns, digest, query, stop, pumps>>

\* Close of the DNS server shuts both loops down, and waits for them.
CloseDNS ==
    /\ At("finish") \/ At("serving")
    /\ IF \E s \in Server : part[s] = "alive"
       THEN \E s \in Server : part[s] = "alive" /\ Ends(s) /\ Goto("serving")
       ELSE Goto("device") /\ UNCHANGED part
    /\ UNCHANGED <<left, closed>> /\ Finishing

CloseDevice ==
    /\ At("device")
    /\ closed' = TRUE /\ Goto("pump")
    /\ UNCHANGED <<left, part>> /\ Finishing

\* The shutdown's deadline ends the wait for a pump that is slow to stop, and the wait for a
\* result that was taken, which nothing else would end; `late` is history of the second.
DeadlineEnds(p, next) ==
    IF part[p] = "taken"
    THEN loop' = [loop EXCEPT !.at = next, !.late = TRUE] /\ UNCHANGED left
    ELSE Goto(next) /\ Fault

\* The result of a pump, unless it was taken.
AwaitResult(p, next) ==
    /\ At(p)
    /\ \/ p \in loop.consumed /\ Goto(next) /\ UNCHANGED <<left, part>>
       \/ p \notin loop.consumed /\ part[p] = "ended" /\ Goto(next)
          /\ part' = [part EXCEPT ![p] = "taken"] /\ UNCHANGED left
       \/ p \notin loop.consumed /\ DeadlineEnds(p, next) /\ UNCHANGED part
    /\ UNCHANGED closed /\ Finishing

\* closeStack and the rest; that it ends is Session's StackCloses.
CloseStack ==
    /\ At("stack")
    /\ Goto("returned")
    /\ UNCHANGED <<left, part, closed>> /\ Finishing

Finish == CloseDNS \/ CloseDevice \/ AwaitResult("pump", "output") \/ AwaitResult("output", "stack") \/ CloseStack

----------------------------------------------------------------------------
LoopStep ==
    \/ Compare \/ DiscoverReloaded \/ PlanRoutes \/ Build \/ WriteDigest \/ SwapDNS \/ SwapPlane \/ Reset \/ Finish

ReaderStep == ReaderGets \/ ReaderHandles \/ ReaderStops
WriterStep == WriterGets \/ WriterWrites \/ WriterStops
QueryStep(q) == Load(q) \/ Decide(q) \/ Forward(q) \/ Answer(q)

RuntimeNext ==
    \/ NetworkChanges \/ EditConfig \/ Stop
    \/ Discover \/ Reload \/ Leave \/ LoopStep
    \/ \E q \in Query : Ask(q) \/ QueryStep(q)
    \/ ReaderStep \/ ReaderReads \/ WriterStep \/ WriterReads
    \/ \E s \in Server : ServerFails(s)

\* The goroutines run and calls return.  Packets, and the system calls that wait for them,
\* owe nothing.  A select whose cases stay ready picks each of them some time.
Fairness ==
    /\ WF_vars(LoopStep) /\ SF_vars(Discover) /\ SF_vars(Leave)
    /\ WF_vars(ReaderStep) /\ WF_vars(WriterStep)
    /\ \A q \in Query : WF_vars(QueryStep(q))

RuntimeSpec == RuntimeInit /\ [][RuntimeNext]_vars /\ Fairness

----------------------------------------------------------------------------
Ending == loop.at \in {"finish", "serving", "device", "pump", "output", "stack", "returned"}

\* Whenever Run waits in its select, the DNS server, the data plane, the loop and the
\* reported digest have the same configuration and the first two ask the same servers,
\* however reloads were rejected and refreshes failed on the way; so has the state file
\* unless writing it failed.  A query that no reload overlaps is decided by one configuration.
PolicyAgrees ==
    /\ At("select") =>
         /\ loop.cfg = dns.cfg /\ loop.cfg = plane.cfg /\ loop.cfg = digest.memory
         /\ dns.by = plane.by
         /\ ~digest.unsure => digest.disk = loop.cfg
    /\ \A q \in Query : query[q].at \in {"forward", "answer"} /\ query[q].calm =>
         query[q].faked = Fakes(query[q].snap.cfg.exclude, query[q].snap.cfg.rules, query[q].dom)

\* In the end the outbounds of the interface ask, taken together, the servers that they would
\* ask if the instance started now, and no failed refresh is forgotten, whichever fingerprint
\* came back meanwhile (networkFingerprint, networkRefreshState).
NetworkApplied ==
    <>[](\/ Ending \/ net.link = Gone
         \/ Asked(loop.cfg, plane.by) = Asked(loop.cfg, Effective(loop.cfg, net.dns)) /\ ~refresh.owed)

\* Whatever ends first, a cancelled context, a serving loop or a pump, Run returns, all
\* its goroutines are gone, and it never waits for a result that has been taken.
RunEnds ==
    stop \/ (\E p \in Part : part[p] # "alive")
        ~> loop.at = "returned" /\ ~loop.late /\ \A p \in Part : part[p] # "alive"

\* A packet for the device gets a buffer, though the reader keeps one for as long as
\* nothing arrives (BufferPool, Pump.Run, Pump.Write).
OutputFlows == writer = "get" ~> writer # "get"

----------------------------------------------------------------------------
\* What comments and documents say and the code does not do.

\* "A query already in progress keeps the resolver, exclusions, policy, TTL and timeout
\* snapshot it started with" (fakedns/server.go:238-240).  shouldFake is not part of the
\* snapshot, so a query that overlaps a reload can be given a Fake IP by the exclusions of one
\* configuration and the rules of another, which neither of them alone would give.
OnePolicy ==
    \A q \in Query : query[q].at \in {"forward", "answer"} =>
        query[q].faked = Fakes(query[q].snap.cfg.exclude, query[q].snap.cfg.rules, query[q].dom)

\* An outbound in DHCP mode asks the servers of the current lease, in their order
\* (docs/build-and-install.md:265-269).  The fingerprint does not tell a list from the same
\* list in another order, nor from one whose missing server is asked by another outbound.
ServersApplied ==
    <>[](Ending \/ net.link = Gone \/ plane.by = Effective(loop.cfg, net.dns))

\* A changed bypass topology stops the instance (docs/plans/06-rules-outbounds-and-resolvers.md:134).
\* The plan is compared only when the fingerprint changes, and that has no gateway in it.
TopologyWatched ==
    <>[](~bound.capture \/ Ending \/ ~Provable(net)
         \/ Plan(net, loop.cfg, plane.by, loop.routes.hosts) = loop.routes)
=============================================================================
