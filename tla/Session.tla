------------------------------- MODULE Session -------------------------------
(***************************************************************************)
(* The life of a TCP or UDP flow: admission by the network stack, the      *)
(* Fake-IP reference, the policy decision with its DNS lookups, fallback   *)
(* between outbounds, the relay in both directions, and the stack's Close. *)
(*                                                                         *)
(* Every flow is a goroutine with a program counter; the two directions of *)
(* a relay are goroutines of their own.  Lookups and dials take time, so   *)
(* flows meet in the resolvers' caches and limits.  Failures are classes   *)
(* of errors: "recoverable" (the interface is gone, a timeout), "fatal"    *)
(* (refused, cancelled), and for lookups also "business" (a negative       *)
(* answer) and "servfail".                                                 *)
(***************************************************************************)
EXTENDS Rules, FiniteSets

CONSTANTS
    Flow,          \* flows that may arrive
    Scenarios,     \* configurations, each with what its environment may do
    Servers,       \* DNS servers of an outbound
    MaxConcurrent, \* resolver.max_concurrent
    MaxCache,      \* maxCacheEntries
    MaxTCPFlows,   \* slots of the stack
    MaxNow         \* bound: the clock of the DNS caches

None == "none"

ASSUME SessionAssumption ==
    /\ None \notin Outbound
    /\ {Servers, MaxConcurrent, MaxCache, MaxTCPFlows} \subseteq Nat \ {0}
    /\ MaxNow \in Nat
    /\ \A s \in Scenarios :
         /\ s.policy.rules \in Seq(Rule) /\ EndsInDefault(s.policy.rules)
         /\ \A f \in Flow : s.bound.arrive[f] \subseteq BOOLEAN \X (Domain \cup {Literal})
         /\ s.bound.answers \subseteq SUBSET Addr /\ s.bound.ttls \subseteq Nat

VARIABLES
    policy,  \* rules and routes of the generation: [rules, reject, fallback]
    bound,   \* bounds of the environment: who arrives, for where, what the servers answer
             \* and for how long, and how often peers act and calls fail
    flow,    \* locals of each flow's goroutines
    pipe,    \* the two directions of each relay
    cache,   \* per outbound: domain -> addresses and expiry, a partial function
    asking,  \* per outbound: lookups on the wire (the semaphore)
    slots,   \* flows that hold a TCP slot
    refs,    \* flows that hold a Fake-IP reference
    entered, \* flows the stack's WaitGroup counts
    sockets, \* per flow: upstream sockets that are open
    stack,   \* "open", "closing" (Close was called), "closed" (it has returned)
    talk,    \* bound: what the ends of the relays have done
    now, faults

shared == <<cache, asking>>
held == <<slots, refs, entered, sockets>>
vars == <<policy, bound, flow, pipe, cache, asking, slots, refs, entered, sockets, stack, talk, now, faults>>

\* Addresses, with the outbound whose servers answered them (`by` is history).
NoAddrs == [set |-> {}, by |-> None]

\* routeResolution: addresses frozen together with the outbound they were resolved through.
Unprepared == [out |-> None, addrs |-> NoAddrs]

NoFlow == [at |-> "idle", tcp |-> TRUE, dom |-> None, dest |-> None, rule |-> 0, from |-> None, cur |-> None,
           why |-> "decide", prep |-> Unprepared, addrs |-> NoAddrs, soft |-> TRUE, asked |-> FALSE,
           up |-> FALSE, open |-> TRUE, bad |-> FALSE, hard |-> {}, out |-> None]

Quiet == [sent |-> 0, got |-> 0, fin |-> FALSE, st |-> "copy"]

\* validateFallbacks: fallbacks lead to configured outbounds and never round in a circle.
\* The outbounds met from o on are the least set with o that no fallback leaves.
Chain(p, o) ==
    {x \in Outbound : \A S \in SUBSET Outbound :
        o \in S /\ (\A y \in S : p.fallback[y] # None => p.fallback[y] \in S) => x \in S}

ValidFallbacks(p) == \A o \in Outbound :
    /\ p.fallback[o] \in Outbound \cup {None}
    /\ p.fallback[o] # None => o \notin Chain(p, p.fallback[o]) /\ o \notin p.reject

SessionInit ==
    /\ \E s \in Scenarios : ValidFallbacks(s.policy) /\ policy = s.policy /\ bound = s.bound
    /\ flow = [f \in Flow |-> NoFlow]
    /\ pipe = [f \in Flow |-> <<Quiet, Quiet>>]
    /\ cache = [o \in Outbound |-> <<>>]
    /\ asking = [o \in Outbound |-> 0]
    /\ slots = {} /\ refs = {} /\ entered = {}
    /\ sockets = [f \in Flow |-> 0]
    /\ stack = "open" /\ talk = 0 /\ now = 0 /\ faults = 0

----------------------------------------------------------------------------
\* Control of a flow

At(f, l) == flow[f].at = l
Set(f, r) == flow' = [flow EXCEPT ![f] = r]
Goto(f, l) == Set(f, [flow[f] EXCEPT !.at = l])
Still == UNCHANGED <<policy, bound, stack, now, talk>>
OutboundOf(i) == policy.rules[i].outbound

\* An error of its own accord; a cancelled context makes every blocking call fail for free.
Fails == IF stack = "open" THEN faults < bound.faults /\ faults' = faults + 1 ELSE UNCHANGED faults

\* The handler returns; its locals are gone.
Over(r) == [NoFlow EXCEPT !.at = r.at, !.tcp = r.tcp, !.up = r.up, !.open = r.open]
Return(r, out) == [r EXCEPT !.at = "return", !.out = out, !.addrs = NoAddrs, !.prep = Unprepared, !.soft = TRUE]

----------------------------------------------------------------------------
\* The network stack

\* handleTCP takes a slot or refuses the flow; handleUDP goes straight to its endpoint.
\* A closing stack injects nothing.
Arrive(f) ==
    /\ At(f, "idle") /\ stack = "open"
    /\ \E a \in Addr, packet \in bound.arrive[f] :
         LET tcp == packet[1]
             d == packet[2]
         IN  IF tcp /\ Cardinality(slots) >= MaxTCPFlows
             THEN Set(f, [NoFlow EXCEPT !.at = "done", !.out = "refused"]) /\ UNCHANGED slots
             ELSE /\ d # Literal => a = CHOOSE x \in Addr : TRUE
                  /\ Set(f, [NoFlow EXCEPT !.at = "endpoint", !.tcp = tcp, !.dom = d,
                                           !.dest = IF d = Literal THEN a ELSE None])
                  /\ slots' = IF tcp THEN slots \cup {f} ELSE slots
    /\ UNCHANGED <<pipe, shared, refs, entered, sockets, faults>> /\ Still

\* CreateEndpoint, then the handler's goroutine is counted.
Endpoint(f) ==
    /\ At(f, "endpoint")
    /\ \/ Goto(f, "acquire") /\ entered' = entered \cup {f} /\ UNCHANGED <<slots, faults>>
       \/ /\ Fails /\ Set(f, [flow[f] EXCEPT !.at = "done", !.out = "refused"])
          /\ slots' = slots \ {f} /\ UNCHANGED entered
    /\ UNCHANGED <<pipe, shared, refs, sockets>> /\ Still

\* Close: cancel the context, close the endpoints, and wait for the handlers.
Close ==
    /\ stack = "open"
    /\ stack' = "closing"
    /\ UNCHANGED <<policy, bound, flow, pipe, shared, held, talk, now, faults>>

CloseReturns ==
    /\ stack = "closing" /\ entered = {}
    /\ stack' = "closed"
    /\ UNCHANGED <<policy, bound, flow, pipe, shared, held, talk, now, faults>>

----------------------------------------------------------------------------
\* decideFlow

\* Pool.Acquire, and the candidate through which the name is resolved: the conclusive
\* rule's outbound or, if that rejects, the first deferred one that does not.
Acquire(f) ==
    /\ At(f, "acquire")
    /\ LET r == flow[f]
           cand == Candidates(policy.rules, r.dom)
           conclusive == CHOOSE i \in cand : \A j \in cand : j <= i
           open == {i \in cand : OutboundOf(i) \notin policy.reject}
           first == IF OutboundOf(conclusive) \notin policy.reject THEN conclusive ELSE First(open)
       IN  \/ /\ r.dom = Literal
              /\ LET i == MatchResolved(policy.rules, Literal, {r.dest})
                 IN  Set(f, [r EXCEPT !.at = "ready", !.rule = i, !.cur = OutboundOf(i)])
              /\ UNCHANGED <<refs, faults>>
           \/ /\ r.dom # Literal
              /\ Set(f, IF open = {}
                        THEN [r EXCEPT !.at = "ready", !.rule = conclusive, !.cur = OutboundOf(conclusive)]
                        ELSE [r EXCEPT !.at = "lookup", !.why = "decide", !.from = OutboundOf(first),
                                       !.cur = OutboundOf(first)])
              /\ refs' = refs \cup {f} /\ UNCHANGED faults
           \/ /\ r.dom # Literal /\ Fails
              /\ Set(f, Return(r, "failed")) /\ UNCHANGED refs
    /\ UNCHANGED <<pipe, shared, slots, entered, sockets>> /\ Still

\* The addresses of a lookup arrive at the flow that asked.
Resolved(r, A) ==
    LET i == MatchResolved(policy.rules, r.dom, A.set)
        o == OutboundOf(i)
        here == [out |-> r.cur, addrs |-> A]
    IN  CASE r.why = "decide" /\ o \in {r.from, r.cur} ->
               [r EXCEPT !.at = "ready", !.rule = i, !.prep = here]
          [] r.why = "decide" /\ o \in policy.reject \ {r.from, r.cur} ->
               [r EXCEPT !.at = "ready", !.rule = i, !.cur = o]
          [] r.why = "decide" /\ o \notin policy.reject \cup {r.from, r.cur} ->
               [r EXCEPT !.at = "lookup", !.why = "again", !.rule = i, !.cur = o]
          [] r.why = "again" -> [r EXCEPT !.at = "ready", !.prep = here]
          [] r.why = "connect" -> [r EXCEPT !.at = "dial", !.addrs = A, !.soft = TRUE]

\* History: the outbounds that failed in a way another outbound must not paper over.
Blamed(r, class) == [r EXCEPT !.hard = IF class = "recoverable" THEN @ ELSE @ \cup {r.cur}]

\* Mutant of MayFallBack: a server's failure moves on as well.
MayFallBackServfail(class) == class \in {"recoverable", "servfail"}

\* IsBusinessError and IsRecoverable: only a failure to reach the servers may move on.
MayFallBack(class) == class = "recoverable"

\* An outbound failed: go on with its fallback, or give up.
Onward(r, class) ==
    LET next == policy.fallback[r.cur]
        s == Blamed(r, class)
    IN  IF MayFallBack(class) /\ next # None
        THEN [s EXCEPT !.cur = next, !.at = IF r.why = "connect" THEN "connect" ELSE "lookup"]
        ELSE Return(s, "failed")

----------------------------------------------------------------------------
\* The resolver of an outbound

Fresh(o, d) == d \in DOMAIN cache[o] /\ now < cache[o][d].until

\* Exchange asks the servers in turn: the first conclusive reply wins, else a SERVFAIL, else
\* the failure is recoverable only if every server's was.  A truncated reply counts as what
\* the retry over TCP returns.
Reply == {"answer", "business", "servfail", "recoverable", "fatal"}

Exchange(replies) ==
    LET all == {replies[i] : i \in DOMAIN replies}
        conclusive == {i \in DOMAIN replies : replies[i] \in {"answer", "business"}}
    IN  CASE conclusive # {} -> replies[First(conclusive)]
          [] conclusive = {} /\ "servfail" \in all -> "servfail"
          [] all = {"recoverable"} -> "recoverable"
          [] OTHER -> "fatal"

\* lookupAddresses: a rejecting outbound has no resolver; a fresh entry answers at once;
\* over the limit the lookup fails.
Lookup(f) ==
    /\ At(f, "lookup")
    /\ LET r == flow[f] IN
         CASE r.cur \in policy.reject ->
                Set(f, Return(r, "rejected")) /\ UNCHANGED asking
           [] r.cur \notin policy.reject /\ Fresh(r.cur, r.dom) ->
                Set(f, Resolved([r EXCEPT !.asked = TRUE], cache[r.cur][r.dom].addrs)) /\ UNCHANGED asking
           [] r.cur \notin policy.reject /\ ~Fresh(r.cur, r.dom) /\ asking[r.cur] >= MaxConcurrent ->
                Set(f, Onward(r, "fatal")) /\ UNCHANGED asking
           [] OTHER ->
                /\ Set(f, [r EXCEPT !.at = "asking", !.asked = TRUE])
                /\ asking' = [asking EXCEPT ![r.cur] = @ + 1]
    /\ cache' = [cache EXCEPT ![flow[f].cur] =
                   [d \in {d \in DOMAIN @ : d = flow[f].dom => now < @[d].until} |-> @[d]]]
    /\ UNCHANGED <<pipe, held, faults>> /\ Still

\* store: at the limit the entry that expires first makes room.
Stored(c, d, entry) ==
    LET full == Cardinality(DOMAIN c) >= MaxCache
        oldest == CHOOSE x \in DOMAIN c : \A y \in DOMAIN c : c[x].until <= c[y].until
        kept == IF full THEN DOMAIN c \ {oldest} ELSE DOMAIN c
    IN  [x \in kept \cup {d} |-> IF x = d THEN entry ELSE c[x]]

Answered(f) ==
    /\ At(f, "asking")
    /\ LET r == flow[f] IN
         \/ \E A \in bound.answers, ttl \in bound.ttls :
              /\ LET answer == [set |-> A, by |-> r.cur] IN
                   /\ Set(f, Resolved(r, answer))
                   /\ cache' = IF ttl = 0 THEN cache
                               ELSE [cache EXCEPT ![r.cur] =
                                       Stored(@, r.dom, [addrs |-> answer, until |-> now + ttl])]
              /\ UNCHANGED faults
         \/ \E replies \in [1 .. Servers -> Reply \ {"answer"}] :
              /\ Fails
              /\ Set(f, Onward(r, IF stack = "open" THEN Exchange(replies) ELSE "fatal"))
              /\ UNCHANGED cache
         /\ asking' = [asking EXCEPT ![r.cur] = @ - 1]
    /\ UNCHANGED <<pipe, held>> /\ Still

Tick ==
    /\ now < MaxNow /\ \E o \in Outbound : cache[o] # <<>>
    /\ now' = now + 1
    /\ UNCHANGED <<policy, bound, flow, pipe, shared, held, talk, stack, faults>>

----------------------------------------------------------------------------
\* connectPrepared and connectAndSendPrepared

\* The decision is made.  A UDP session first reads its datagram, which may not come.
Ready(f) ==
    /\ At(f, "ready")
    /\ LET r == flow[f]
           go == [r EXCEPT !.at = "connect", !.why = "connect",
                           !.cur = IF r.prep.out # None THEN r.prep.out ELSE OutboundOf(r.rule)]
       IN  \/ Set(f, go) /\ UNCHANGED faults
           \/ ~flow[f].tcp /\ Fails /\ \E o \in {"expired", "failed"} : Set(f, Return(r, o))
    /\ UNCHANGED <<pipe, shared, held>> /\ Still

Connect(f) ==
    /\ At(f, "connect")
    /\ LET r == flow[f] IN
         Set(f, CASE r.cur \in policy.reject -> Return(r, "rejected")
                  [] r.cur \notin policy.reject /\ r.prep.out = r.cur ->
                       [r EXCEPT !.at = "dial", !.addrs = r.prep.addrs, !.prep = Unprepared, !.soft = TRUE]
                  [] r.cur \notin policy.reject /\ r.prep.out # r.cur /\ r.dom = Literal ->
                       [r EXCEPT !.at = "dial", !.addrs = [set |-> {r.dest}, by |-> r.cur], !.soft = TRUE]
                  [] OTHER -> [r EXCEPT !.at = "lookup"])
    /\ UNCHANGED <<pipe, shared, held, faults>> /\ Still

\* One address after the other.  All of them failed: fall back only if every failure was
\* recoverable.
NextAddress(r, a, class) ==
    LET s == [Blamed(r, class) EXCEPT !.addrs.set = @ \ {a}, !.soft = @ /\ MayFallBack(class)]
    IN  IF s.addrs.set # {} THEN [s EXCEPT !.at = "dial"]
        ELSE Onward(s, IF s.soft THEN "recoverable" ELSE "fatal")

\* connectedTCP, connectedUDP: of the attempt only its outbound is left.
Connected(r) == [r EXCEPT !.at = "relay", !.addrs = NoAddrs, !.prep = Unprepared, !.soft = TRUE, !.dest = None]

Dial(f) ==
    /\ At(f, "dial")
    /\ LET r == flow[f] IN
         \E a \in r.addrs.set :
           \/ /\ Set(f, IF r.tcp THEN Connected([r EXCEPT !.up = TRUE])
                        ELSE [r EXCEPT !.at = "send", !.up = TRUE, !.dest = a])
              /\ sockets' = [sockets EXCEPT ![f] = @ + 1]
              /\ UNCHANGED faults
           \/ /\ Fails /\ UNCHANGED sockets
              /\ \E class \in {"recoverable", "fatal"} :
                   Set(f, NextAddress(r, a, IF stack = "open" THEN class ELSE "fatal"))
    /\ UNCHANGED <<pipe, shared, slots, refs, entered>> /\ Still

\* Mutant of Discard: the socket stays open.
DiscardNot(f) == UNCHANGED sockets

\* The socket whose first write failed is closed before the next attempt.
Discard(f) == sockets' = [sockets EXCEPT ![f] = @ - 1]

\* UDP: the first datagram is written before the outbound counts as connected.
Send(f) ==
    /\ At(f, "send")
    /\ LET r == flow[f] IN
         \/ /\ Set(f, Connected(r))
            /\ UNCHANGED <<sockets, faults>>
         \/ /\ Fails
            /\ Discard(f)
            /\ \E class \in {"recoverable", "fatal"} :
                 Set(f, NextAddress([r EXCEPT !.up = FALSE], r.dest, class))
    /\ UNCHANGED <<pipe, shared, slots, refs, entered>> /\ Still

----------------------------------------------------------------------------
\* The relays

Relaying(f) == flow[f].at \in {"relay", "drain", "second", "last"}

\* The two ends send a little and may close their side.
PeerSends(f, k) ==
    /\ Relaying(f) /\ flow[f].open /\ ~pipe[f][k].fin /\ talk < bound.talk
    /\ talk' = talk + 1
    /\ \/ pipe[f][k].sent < 1 /\ pipe' = [pipe EXCEPT ![f][k].sent = @ + 1]
       \/ flow[f].tcp /\ pipe' = [pipe EXCEPT ![f][k].fin = TRUE]
    /\ UNCHANGED <<policy, bound, stack, now, flow, shared, held, faults>>

\* A copying goroutine: a chunk, the end of the stream, an error, or a connection that
\* closeBoth has closed.
Copy(f, k) ==
    /\ pipe[f][k].st = "copy"
    /\ LET p == pipe[f][k] IN
         \/ /\ Relaying(f) /\ flow[f].open /\ p.got < p.sent
            /\ pipe' = [pipe EXCEPT ![f][k].got = @ + 1] /\ UNCHANGED faults
         \/ /\ Relaying(f) /\ flow[f].open /\ p.got = p.sent /\ p.fin
            /\ pipe' = [pipe EXCEPT ![f][k].st = "clean"] /\ UNCHANGED faults
         \/ /\ Relaying(f) /\ flow[f].open /\ Fails
            /\ pipe' = [pipe EXCEPT ![f][k].st = "error"]
         \/ /\ ~flow[f].open
            /\ pipe' = [pipe EXCEPT ![f][k].st = "closed"] /\ UNCHANGED faults
    /\ UNCHANGED <<flow, shared, held>> /\ Still

\* closeBoth: the flow's connections are closed, once.
CloseBoth(f, r) ==
    /\ Set(f, [r EXCEPT !.open = FALSE, !.up = FALSE])
    /\ sockets' = [sockets EXCEPT ![f] = IF flow[f].up THEN @ - 1 ELSE @]

Taken(f, k) == pipe' = [pipe EXCEPT ![f][k].st = "taken"]
Results(f) == {k \in 1 .. 2 : pipe[f][k].st \in {"clean", "error", "closed"}}

\* Mutant of Settle: the error is dropped.
SettleLenient(f, l, bad) == [flow[f] EXCEPT !.at = l]

\* The errors that Relay collects decide how the flow is reported.
Settle(f, l, bad) == [flow[f] EXCEPT !.at = l, !.bad = @ \/ bad]

\* Mutant of Cancelled: only the copies are waited for.
CancelledNot(f) == FALSE

\* The case of a cancelled context in the first select.
Cancelled(f) ==
    /\ stack # "open"
    /\ CloseBoth(f, Settle(f, "drain", TRUE)) /\ UNCHANGED pipe

\* Relay's first select: a direction is over, or the context is cancelled.
RelayFirst(f) ==
    /\ At(f, "relay") /\ flow[f].tcp
    /\ \/ \E k \in Results(f) :
            /\ Taken(f, k)
            /\ IF pipe[f][k].st = "clean" THEN Goto(f, "second") /\ UNCHANGED sockets
               ELSE CloseBoth(f, Settle(f, "second", TRUE))
       \/ Cancelled(f)
    /\ UNCHANGED <<shared, slots, refs, entered, faults>> /\ Still

RelayDrain(f) ==
    /\ At(f, "drain") /\ flow[f].tcp
    /\ \E k \in Results(f) : Taken(f, k)
    /\ Goto(f, "second")
    /\ UNCHANGED <<shared, held, faults>> /\ Still

\* Relay's second select: the other direction, cancellation, or the grace timer, after which
\* it still waits for the direction.  net.ErrClosed is no error here.
RelaySecond(f) ==
    /\ flow[f].at \in {"second", "last"} /\ flow[f].tcp
    /\ \/ \E k \in Results(f) :
            /\ Taken(f, k)
            /\ CloseBoth(f, LET r == Settle(f, "return", pipe[f][k].st = "error")
                            IN  [r EXCEPT !.out = IF r.bad THEN "failed" ELSE "completed"])
       \/ At(f, "second") /\ CloseBoth(f, Settle(f, "last", TRUE)) /\ UNCHANGED pipe
    /\ UNCHANGED <<shared, slots, refs, entered, faults>> /\ Still

\* relayUDP: a direction failed, the idle timer fired, or the context was cancelled.
RelayUDP(f) ==
    /\ At(f, "relay") /\ ~flow[f].tcp
    /\ \/ \E k \in Results(f) :
            Taken(f, k) /\ CloseBoth(f, [flow[f] EXCEPT !.at = "drain", !.out = "failed"])
       \/ CloseBoth(f, [flow[f] EXCEPT !.at = "drain", !.out = "expired"]) /\ UNCHANGED pipe
       \/ /\ stack # "open" /\ UNCHANGED pipe
          /\ CloseBoth(f, [flow[f] EXCEPT !.at = "drain", !.out = "failed"])
    /\ UNCHANGED <<shared, slots, refs, entered, faults>> /\ Still

\* It waits a second for each goroutine that is left.
DrainUDP(f) ==
    /\ At(f, "drain") /\ ~flow[f].tcp
    /\ \/ /\ \E k \in Results(f) : Taken(f, k)
          /\ IF \E k \in 1 .. 2 : pipe[f][k].st = "taken" THEN Goto(f, "return") ELSE UNCHANGED flow
       \/ Results(f) = {} /\ Goto(f, "return") /\ UNCHANGED pipe
    /\ UNCHANGED <<shared, held, faults>> /\ Still

----------------------------------------------------------------------------
\* The handler's deferred functions: the upstream socket and the Fake-IP reference.
HandlerReturns(f) ==
    /\ At(f, "return")
    /\ Set(f, [Over(flow[f]) EXCEPT !.at = "leave", !.up = FALSE])
    /\ sockets' = [sockets EXCEPT ![f] = IF flow[f].up THEN @ - 1 ELSE @]
    /\ refs' = refs \ {f}
    /\ UNCHANGED <<pipe, shared, slots, entered, faults>> /\ Still

\* The stack's deferred functions.
Leave(f) ==
    /\ At(f, "leave")
    /\ Set(f, [flow[f] EXCEPT !.at = "done", !.open = FALSE])
    /\ entered' = entered \ {f} /\ slots' = slots \ {f}
    /\ pipe' = [pipe EXCEPT ![f] = <<Quiet, Quiet>>]
    /\ UNCHANGED <<shared, refs, sockets, faults>> /\ Still

FlowStep(f) ==
    \/ Endpoint(f) \/ Acquire(f) \/ Lookup(f) \/ Answered(f) \/ Ready(f) \/ Connect(f) \/ Dial(f)
    \/ Send(f) \/ RelayFirst(f) \/ RelayDrain(f) \/ RelaySecond(f) \/ RelayUDP(f) \/ DrainUDP(f)
    \/ HandlerReturns(f) \/ Leave(f)

SessionNext ==
    \/ \E f \in Flow : Arrive(f) \/ FlowStep(f) \/ \E k \in 1 .. 2 : PeerSends(f, k) \/ Copy(f, k)
    \/ Close \/ CloseReturns \/ Tick

\* The goroutines run, calls return (each has a timeout or honours the context), timers fire.
Fairness ==
    /\ \A f \in Flow : WF_vars(FlowStep(f)) /\ \A k \in 1 .. 2 : WF_vars(~flow[f].open /\ Copy(f, k))
    /\ WF_vars(CloseReturns)

SessionSpec == SessionInit /\ [][SessionNext]_vars /\ Fairness

----------------------------------------------------------------------------
\* A flow only ever dials what its decision allows: outbounds on the fallback chain of the
\* rule that decided, none of which rejects or failed for good.
ChainKept(f) ==
    flow[f].at \in {"dial", "send", "relay"} =>
        /\ flow[f].cur \in Chain(policy, OutboundOf(flow[f].rule)) \ policy.reject
        /\ flow[f].hard \subseteq {flow[f].cur}

\* The addresses were answered to the outbound they are dialled through.
OwnAnswers(f) ==
    flow[f].at = "dial" => flow[f].addrs.by = flow[f].cur

\* A flow is rejected unseen only if no answer could have saved it.
RejectSound(f) ==
    flow[f].out = "rejected" /\ flow[f].dom # Literal /\ ~flow[f].asked =>
        \A A \in SUBSET Addr \ {{}} : OutboundOf(MatchResolved(policy.rules, flow[f].dom, A)) \in policy.reject

\* The policy is kept across lookups that fall back, a decision that changes outbound after
\* the first answer, and dials that fall back again (decideFlow, connectPrepared,
\* connectAndSendPrepared).
RouteHonoured == \A f \in Flow : ChainKept(f) /\ OwnAnswers(f) /\ RejectSound(f)

\* A TCP flow that is reported as completed has delivered, in both directions, all that was
\* sent before the end of the stream (Relay's half-close).
CompletedDelivered ==
    \A f \in Flow : flow[f].out = "completed" => \A k \in 1 .. 2 : pipe[f][k].fin /\ pipe[f][k].got = pipe[f][k].sent

\* Nothing leaks on any path out of a flow: sockets, Fake-IP references, TCP slots, the
\* WaitGroup and the resolvers' semaphores are exactly what the flows in progress hold.
NothingLeaks ==
    /\ \A f \in Flow :
         /\ sockets[f] = IF flow[f].up THEN 1 ELSE 0
         /\ flow[f].at = "done" => ~flow[f].up /\ f \notin slots \cup refs \cup entered
    /\ \A o \in Outbound : asking[o] = Cardinality({f \in Flow : flow[f].at = "asking" /\ flow[f].cur = o})
    /\ \A o \in Outbound : asking[o] <= MaxConcurrent /\ Cardinality(DOMAIN cache[o]) <= MaxCache
    /\ Cardinality(slots) <= MaxTCPFlows

\* Once Close is called every flow ends, whatever it is waiting for, and Close returns.
StackCloses == stack = "closing" ~> (stack = "closed" /\ \A f \in Flow : flow[f].at \in {"idle", "done"})
=============================================================================
