---------------------------- MODULE SessionProofs ----------------------------
(***************************************************************************)
(* Proofs about Session, for any rules, fallbacks, numbers of flows and    *)
(* limits.  The inductive invariant says what a flow's decision allows at  *)
(* each of its steps (Routed, on a flow's locals alone), what it holds     *)
(* (Held), what its relay has delivered (Relayed), and what the resolvers' *)
(* caches and limits and the stack's slots contain (Cached, Counted,       *)
(* Slotted).                                                               *)
(***************************************************************************)
EXTENDS Session, FiniteSetTheorems, WellFoundedInduction, TLAPS

Places == {"idle", "endpoint", "acquire", "lookup", "asking", "ready", "connect", "dial", "send", "relay",
           "drain", "second", "last", "return", "leave", "done"}

AddrsType == [set : SUBSET (Addr \cup {None}), by : Outbound \cup {None}]
PrepType == [out : Outbound \cup {None}, addrs : AddrsType]

\* The locals of a flow's goroutines
Locals == [at : Places, tcp : BOOLEAN, dom : Domain \cup {Literal, None}, dest : Addr \cup {None}, rule : Nat,
           from : Outbound \cup {None}, cur : Outbound \cup {None}, why : {"decide", "again", "connect"},
           prep : PrepType, addrs : AddrsType, soft : BOOLEAN, asked : BOOLEAN, up : BOOLEAN,
           open : BOOLEAN, bad : BOOLEAN, hard : SUBSET (Outbound \cup {None}),
           out : {None, "refused", "failed", "rejected", "expired", "completed"}]

Direction == [sent : Nat, got : Nat, fin : BOOLEAN, st : {"copy", "clean", "error", "closed", "taken"}]

\* What New has checked of the rules and of the fallbacks
PolicyOK ==
    /\ policy.rules \in Seq(Rule) /\ EndsInDefault(policy.rules)
    /\ \A o \in Outbound : policy.fallback[o] \in Outbound \cup {None}

BoundOK ==
    /\ \A f \in Flow : bound.arrive[f] \subseteq BOOLEAN \X (Domain \cup {Literal})
    /\ bound.answers \subseteq SUBSET Addr /\ bound.ttls \subseteq Nat

SessionTypes ==
    /\ PolicyOK /\ BoundOK
    /\ flow \in [Flow -> Locals]
    /\ pipe \in [Flow -> [1 .. 2 -> Direction]]
    /\ slots \subseteq Flow /\ refs \subseteq Flow /\ entered \subseteq Flow
    /\ sockets \in [Flow -> Nat]
    /\ now \in Nat

----------------------------------------------------------------------------
\* The decision

\* The rule that decided leads to this outbound, directly or by fallbacks.
Allowed(p, r, o) == r.rule \in DOMAIN p.rules /\ o \in Chain(p, p.rules[r.rule].outbound)

\* No answer to a lookup would have saved the flow.
Doomed(p, d) ==
    \A A \in SUBSET Addr \ {{}} : p.rules[MatchResolved(p.rules, d, A)].outbound \in p.reject

\* A named flow none of whose lookups has been answered or sent
Unseen(r) == r.dom # Literal /\ ~r.asked

Looking(r) == r.at \in {"lookup", "asking"}
Dialling(r) == r.at \in {"dial", "send"}

\* Prepared addresses belong to an outbound the decision allows; there are none before it.
Prepared(p, r) ==
    /\ r.prep.out # None => Allowed(p, r, r.prep.out) /\ r.prep.addrs.by = r.prep.out
    /\ r.at \in {"idle", "endpoint", "acquire"} \/ (Looking(r) /\ r.why # "connect") => r.prep.out = None

\* Where the flow is going
Heading(p, r) ==
    /\ Looking(r) /\ r.why = "decide" => r.from \in Outbound /\ r.cur \in Chain(p, r.from)
    /\ Looking(r) /\ r.why # "decide" => Allowed(p, r, r.cur)
    /\ r.at = "asking" => r.cur \notin p.reject
    /\ r.at = "ready" => r.rule \in DOMAIN p.rules
    /\ r.at \in {"connect", "dial", "send", "relay"} => r.why = "connect" /\ Allowed(p, r, r.cur)
    /\ r.at \in {"dial", "send", "relay"} => r.cur \notin p.reject
    /\ Dialling(r) => r.addrs.by = r.cur

\* Failures that must not be papered over: of the present outbound at most, and then for good.
Blame(r) ==
    /\ r.at \in {"idle", "endpoint", "acquire", "lookup", "asking", "ready", "connect"} => r.hard = {}
    /\ Dialling(r) => r.hard \subseteq {r.cur} /\ (r.soft => r.hard = {})
    /\ r.at = "relay" => r.hard \subseteq {r.cur}

\* A flow that nobody asked a server about is on its way to a rejection nothing could avert.
Sight(p, r) ==
    /\ r.at = "asking" => r.asked
    /\ Unseen(r) =>
         /\ ~Dialling(r) /\ r.at # "relay"
         /\ r.at = "lookup" => r.cur \notin p.reject
         /\ r.at \in {"ready", "connect"} => Doomed(p, r.dom) /\ r.prep.out = None
         /\ r.at = "ready" => p.rules[r.rule].outbound \in p.reject
         /\ r.at = "connect" => r.cur \in p.reject
    /\ r.out = "rejected" => r.at = "return" /\ (Unseen(r) => Doomed(p, r.dom))

Routed(p, r) == Prepared(p, r) /\ Heading(p, r) /\ Blame(r) /\ Sight(p, r)

----------------------------------------------------------------------------
\* What a flow holds

Held(f) ==
    /\ sockets[f] = IF flow[f].up THEN 1 ELSE 0
    /\ flow[f].up => flow[f].at \in {"send", "relay", "drain", "second", "last", "return"}
    /\ flow[f].at = "send" => flow[f].up
    /\ f \in slots => flow[f].at \notin {"idle", "done"}
    /\ f \in refs => flow[f].at \notin {"idle", "endpoint", "acquire", "leave", "done"}
    /\ f \in entered => flow[f].at \notin {"idle", "endpoint", "done"}

\* All that was sent before the end of the stream has arrived.
Delivered(d) == d.fin /\ d.got = d.sent

\* A relay that has noted no error has closed nothing, and what it took was whole.
Relayed(f) ==
    /\ \A k \in 1 .. 2 : pipe[f][k].st = "clean" => Delivered(pipe[f][k])
    /\ flow[f].open => \A k \in 1 .. 2 : pipe[f][k].st # "closed"
    /\ flow[f].at = "second" /\ flow[f].tcp /\ ~flow[f].bad =>
         flow[f].open /\ \E k \in 1 .. 2 : pipe[f][k].st = "taken" /\ Delivered(pipe[f][k])
    /\ flow[f].at \notin {"drain", "second", "last", "return", "leave", "done"} => flow[f].open
    /\ flow[f].at = "last" \/ (flow[f].at = "drain" /\ flow[f].tcp) => flow[f].bad
    /\ flow[f].out = "completed" => flow[f].at = "return" /\ \A k \in 1 .. 2 : Delivered(pipe[f][k])

\* The flows whose lookup through an outbound is on the wire
Askers(o) == {f \in Flow : flow[f].at = "asking" /\ flow[f].cur = o}

Entry == [addrs : AddrsType, until : Nat]

\* The cache of an outbound: at most so many entries, all answered to itself
CacheOK(o, c) ==
    /\ IsFiniteSet(DOMAIN c) /\ Cardinality(DOMAIN c) <= MaxCache
    /\ \A d \in DOMAIN c : c[d] \in Entry /\ c[d].addrs.by = o

Cached == cache = [o \in Outbound |-> cache[o]] /\ \A o \in Outbound : CacheOK(o, cache[o])

Counted ==
    /\ asking \in [Outbound -> Nat]
    /\ \A o \in Outbound : /\ IsFiniteSet(Askers(o)) /\ asking[o] = Cardinality(Askers(o))
                           /\ asking[o] <= MaxConcurrent

Slotted == IsFiniteSet(slots) /\ Cardinality(slots) <= MaxTCPFlows

SessionInv ==
    /\ SessionTypes
    /\ \A f \in Flow : Routed(policy, flow[f]) /\ Held(f) /\ Relayed(f)
    /\ Cached /\ Counted /\ Slotted

----------------------------------------------------------------------------
(* Rules *)

LEMMA Smallest ==
    ASSUME NEW S \in SUBSET Nat, S # {}
    PROVE  \E i \in S : \A j \in S : i <= j
<1> DEFINE R == OpToRel(<, Nat)
<1>1. IsWellFoundedOn(R, Nat)
  BY NatLessThanWellFounded
<1>2. \A x, y \in Nat : <<y, x>> \in R <=> y < x
  BY DEF OpToRel
<1> HIDE DEF R
<1>3. PICK i \in S : \A j \in S : ~(<<j, i>> \in R)
  BY <1>1, WFMin
<1>4. ASSUME NEW j \in S PROVE i <= j
  <2>1. ~(j < i)
    BY <1>2, <1>3
  <2> QED
    BY <2>1
<1> QED
  BY <1>4

LEMMA FirstLeast ==
    ASSUME NEW S \in SUBSET Nat, S # {}
    PROVE  First(S) \in S /\ \A j \in S : First(S) <= j
BY Smallest DEF First

\* The default rule matches everything.
LEMMA DefaultMatches ==
    ASSUME NEW rules \in Seq(Rule), EndsInDefault(rules)
    PROVE  /\ Len(rules) \in DOMAIN rules /\ DOMAIN rules \subseteq Nat
           /\ rules[Len(rules)].anyName /\ rules[Len(rules)].anyAddr
           /\ \A i \in DOMAIN rules : i <= Len(rules) /\ rules[i].outbound \in Outbound
<1>1. rules # <<>> /\ Len(rules) \in Nat /\ DOMAIN rules = 1 .. Len(rules)
  BY DEF EndsInDefault
<1>2. Len(rules) # 0
  BY <1>1
<1>3. \A i \in DOMAIN rules : rules[i] \in Rule
  OBVIOUS
<1> QED
  BY <1>1, <1>2, <1>3 DEF EndsInDefault, Rule

\* MatchResolved always finds a rule, among the candidates for the name.
LEMMA MatchFound ==
    ASSUME NEW rules \in Seq(Rule), EndsInDefault(rules), NEW d, NEW A
    PROVE  /\ MatchResolved(rules, d, A) \in DOMAIN rules
           /\ MatchResolved(rules, d, A) \in Candidates(rules, d)
<1> DEFINE match == {i \in DOMAIN rules : MatchesBase(rules[i], d) /\ MatchesAnyCIDR(rules[i], A)}
           all == {i \in {i \in DOMAIN rules : MatchesBase(rules[i], d)} : rules[i].anyAddr}
<1>1. match \in SUBSET Nat /\ match # {} /\ all \in SUBSET Nat /\ all # {}
  BY DefaultMatches DEF MatchesBase, MatchesAnyCIDR
<1>2. MatchResolved(rules, d, A) = First(match)
  BY DEF MatchResolved
<1>3. First(match) \in match /\ \A j \in match : First(match) <= j
  BY <1>1, FirstLeast
<1>4. First(all) \in all
  BY <1>1, FirstLeast
<1>5. all \subseteq match
  BY DEF MatchesAnyCIDR
<1>6. First(match) <= First(all)
  BY <1>3, <1>4, <1>5
<1>7. Candidates(rules, d) = {i \in {i \in DOMAIN rules : MatchesBase(rules[i], d)} : i <= First(all)}
  BY DEF Candidates
<1> HIDE DEF all
<1> QED
  BY <1>2, <1>3, <1>6, <1>7

\* The last candidate does not look at addresses.
LEMMA LastCandidate ==
    ASSUME NEW rules \in Seq(Rule), EndsInDefault(rules), NEW d
    PROVE  /\ Candidates(rules, d) \subseteq DOMAIN rules
           /\ \E i \in Candidates(rules, d) : \A j \in Candidates(rules, d) : j <= i
<1> DEFINE all == {i \in {i \in DOMAIN rules : MatchesBase(rules[i], d)} : rules[i].anyAddr}
<1>1. all \in SUBSET Nat /\ all # {}
  BY DefaultMatches DEF MatchesBase
<1>2. First(all) \in all
  BY <1>1, FirstLeast
<1>3. Candidates(rules, d) = {i \in {i \in DOMAIN rules : MatchesBase(rules[i], d)} : i <= First(all)}
  BY DEF Candidates
<1>4. First(all) \in Candidates(rules, d)
  BY <1>1, <1>2, <1>3
<1> HIDE DEF all
<1> QED
  BY <1>3, <1>4

----------------------------------------------------------------------------
(* Fallbacks *)

\* The chain of an outbound has the outbound and is closed under fallback.
LEMMA ChainStarts ==
    ASSUME NEW p, NEW o \in Outbound
    PROVE  o \in Chain(p, o) /\ Chain(p, o) \subseteq Outbound
BY DEF Chain

LEMMA ChainClosed ==
    ASSUME NEW p, NEW o \in Outbound, NEW x \in Chain(p, o), p.fallback[x] # None, p.fallback[x] \in Outbound
    PROVE  p.fallback[x] \in Chain(p, o)
BY DEF Chain

----------------------------------------------------------------------------
(* The operators on a flow's locals *)

Outcomes == {None, "refused", "failed", "rejected", "expired", "completed"}

LEMMA NoFlowTyped == NoFlow \in Locals
BY DEF NoFlow, Locals, Places, PrepType, AddrsType, Unprepared, NoAddrs

LEMMA EmptyTyped == NoAddrs \in AddrsType /\ Unprepared \in PrepType /\ Unprepared.out = None
BY DEF PrepType, AddrsType, Unprepared, NoAddrs

LEMMA ReturnFields ==
    ASSUME NEW r \in Locals, NEW out \in Outcomes
    PROVE  LET s == Return(r, out) IN
           /\ s \in Locals /\ s.at = "return" /\ s.out = out /\ s.prep = Unprepared
           /\ s.dom = r.dom /\ s.asked = r.asked /\ s.tcp = r.tcp /\ s.up = r.up /\ s.open = r.open
           /\ s.bad = r.bad
<1> DEFINE s == Return(r, out)
<1>1. PICK A \in AddrsType, P \in PrepType : A = NoAddrs /\ P = Unprepared
  BY EmptyTyped
<1>2. s = [r EXCEPT !.at = "return", !.out = out, !.addrs = A, !.prep = P, !.soft = TRUE]
  BY <1>1 DEF Return
<1>3. "return" \in Places
  BY DEF Places
<1> HIDE DEF s
<1>4. s \in Locals
  BY <1>2, <1>3 DEF Locals, Outcomes
<1>5. /\ s.at = "return" /\ s.out = out /\ s.prep = Unprepared
      /\ s.dom = r.dom /\ s.asked = r.asked /\ s.tcp = r.tcp /\ s.up = r.up /\ s.open = r.open
      /\ s.bad = r.bad
  BY <1>1, <1>2 DEF Locals
<1> QED
  BY <1>4, <1>5 DEF s

LEMMA BlamedFields ==
    ASSUME NEW r \in Locals, NEW class
    PROVE  LET s == Blamed(r, class) IN
           /\ s \in Locals /\ s = [r EXCEPT !.hard = s.hard] /\ s.hard \subseteq r.hard \cup {r.cur}
           /\ class = "recoverable" => s.hard = r.hard
<1>1. PICK h : h = IF class = "recoverable" THEN r.hard ELSE r.hard \cup {r.cur}
  OBVIOUS
<1>2. h \in SUBSET (Outbound \cup {None})
  BY <1>1 DEF Locals
<1>3. Blamed(r, class) = [r EXCEPT !.hard = h]
  BY <1>1 DEF Blamed
<1> QED
  BY <1>1, <1>2, <1>3 DEF Locals

\* What an action of a flow asks of the rest of the invariant
Kept(r, s) == s.dom = r.dom /\ s.asked = r.asked /\ s.tcp = r.tcp /\ s.up = r.up /\ s.open = r.open /\ s.bad = r.bad

LEMMA OnwardFields ==
    ASSUME PolicyOK, NEW r \in Locals, r.cur \in Outbound, NEW class
    PROVE  LET s == Onward(r, class) IN
           /\ s \in Locals /\ Kept(r, s)
           /\ \/ s.at = "return" /\ s.out = "failed" /\ s.prep = Unprepared
              \/ /\ class = "recoverable"
                 /\ s.at = IF r.why = "connect" THEN "connect" ELSE "lookup"
                 /\ s.cur = policy.fallback[r.cur] /\ s.cur \in Outbound
                 /\ s.hard = r.hard /\ s.prep = r.prep /\ s.rule = r.rule /\ s.from = r.from
                 /\ s.why = r.why /\ s.out = r.out
<1>1. PICK b \in Locals : b = Blamed(r, class)
  BY BlamedFields
<1>2. /\ b = [r EXCEPT !.hard = b.hard]
      /\ class = "recoverable" => b.hard = r.hard
  BY <1>1, BlamedFields
<1>3. /\ Kept(r, b) /\ b.prep = r.prep /\ b.rule = r.rule /\ b.from = r.from /\ b.why = r.why /\ b.out = r.out
  BY <1>2 DEF Locals, Kept
<1>4. CASE MayFallBack(class) /\ policy.fallback[r.cur] # None
  <2>1. PICK next \in Outbound : next = policy.fallback[r.cur]
    BY <1>4 DEF PolicyOK
  <2>2. PICK place \in {"connect", "lookup"} : place = IF r.why = "connect" THEN "connect" ELSE "lookup"
    OBVIOUS
  <2>3. PICK s : s = [b EXCEPT !.cur = next, !.at = place]
    OBVIOUS
  <2>4. Onward(r, class) = s
    BY <1>1, <1>4, <2>1, <2>2, <2>3 DEF Onward
  <2>5. place \in Places
    BY DEF Places
  <2>6. s \in Locals
    BY <2>3, <2>5 DEF Locals
  <2>7. /\ Kept(b, s) /\ s.at = place /\ s.cur = next /\ s.hard = b.hard /\ s.prep = b.prep /\ s.rule = b.rule
        /\ s.from = b.from /\ s.why = b.why /\ s.out = b.out
    BY <2>3 DEF Locals, Kept
  <2> QED
    BY <1>2, <1>3, <1>4, <2>1, <2>2, <2>4, <2>6, <2>7 DEF Kept, MayFallBack
<1>5. CASE ~(MayFallBack(class) /\ policy.fallback[r.cur] # None)
  <2>1. Onward(r, class) = Return(b, "failed")
    BY <1>1, <1>5 DEF Onward
  <2>2. PICK s : s = Return(b, "failed")
    OBVIOUS
  <2>3. s \in Locals /\ s.at = "return" /\ s.out = "failed" /\ s.prep = Unprepared /\ Kept(b, s)
    BY <2>2, ReturnFields DEF Kept, Outcomes
  <2> QED
    BY <1>3, <2>1, <2>2, <2>3 DEF Kept
<1> QED
  BY <1>4, <1>5

LEMMA OnwardRouted ==
    ASSUME PolicyOK, NEW r \in Locals, r.cur \in Outbound, NEW class,
           Prepared(policy, r), Heading(policy, r), Sight(policy, r), Looking(r) \/ Dialling(r),
           class = "recoverable" => r.hard = {} /\ ~Unseen(r)
    PROVE  Routed(policy, Onward(r, class))
<1>1. PICK s : s = Onward(r, class)
  OBVIOUS
<1>2. s \in Locals /\ Kept(r, s)
  BY <1>1, OnwardFields
<1>3. CASE s.at = "return" /\ s.out = "failed" /\ s.prep = Unprepared
  BY <1>1, <1>2, <1>3, EmptyTyped DEF Routed, Prepared, Heading, Blame, Sight, Looking, Dialling
<1>4. CASE /\ class = "recoverable"
           /\ s.at = IF r.why = "connect" THEN "connect" ELSE "lookup"
           /\ s.cur = policy.fallback[r.cur] /\ s.cur \in Outbound
           /\ s.hard = r.hard /\ s.prep = r.prep /\ s.rule = r.rule /\ s.from = r.from
           /\ s.why = r.why /\ s.out = r.out
  <2>1. ~Unseen(s) /\ s.hard = {} /\ s.out # "rejected"
    BY <1>2, <1>4 DEF Unseen, Kept, Sight, Looking, Dialling
  <2>2. CASE r.why = "connect"
    <3>1. Allowed(policy, r, r.cur)
      BY <2>2 DEF Heading, Looking, Dialling
    <3>2. policy.rules[r.rule].outbound \in Outbound
      BY <3>1, DefaultMatches DEF PolicyOK, Allowed
    <3>3. Allowed(policy, s, s.cur) /\ (s.prep.out # None => Allowed(policy, s, s.prep.out) /\ s.prep.addrs.by = s.prep.out)
      BY <1>4, <3>1, <3>2, ChainClosed, SessionAssumption DEF Allowed, Prepared
    <3>4. s.at = "connect" /\ s.why = "connect"
      BY <1>4, <2>2
    <3> QED
      BY <1>1, <2>1, <3>3, <3>4 DEF Routed, Prepared, Heading, Blame, Sight, Looking, Dialling
  <2>3. CASE r.why # "connect"
    <3>1. Looking(r) /\ s.at = "lookup"
      BY <1>4, <2>3 DEF Heading, Dialling
    <3>2. s.prep.out = None
      BY <1>4, <2>3, <3>1 DEF Prepared
    <3>3. CASE r.why = "decide"
      <4>1. s.from \in Outbound /\ s.cur \in Chain(policy, s.from)
        BY <1>4, <3>1, <3>3, ChainClosed, SessionAssumption DEF Heading
      <4> QED
        BY <1>1, <1>4, <2>1, <2>3, <3>1, <3>2, <3>3, <4>1 DEF Routed, Prepared, Heading, Blame, Sight, Looking, Dialling
    <3>4. CASE r.why # "decide"
      <4>1. Allowed(policy, r, r.cur)
        BY <3>1, <3>4 DEF Heading
      <4>2. policy.rules[r.rule].outbound \in Outbound
        BY <4>1, DefaultMatches DEF PolicyOK, Allowed
      <4>3. Allowed(policy, s, s.cur)
        BY <1>4, <4>1, <4>2, ChainClosed, SessionAssumption DEF Allowed
      <4> QED
        BY <1>1, <1>4, <2>1, <2>3, <3>1, <3>2, <3>4, <4>3 DEF Routed, Prepared, Heading, Blame, Sight, Looking, Dialling
    <3> QED
      BY <3>3, <3>4
  <2> QED
    BY <2>2, <2>3
<1> QED
  BY <1>1, <1>3, <1>4, OnwardFields

LEMMA NextAddressRouted ==
    ASSUME PolicyOK, NEW r \in Locals, Dialling(r), Routed(policy, r), NEW a, NEW class
    PROVE  LET s == NextAddress(r, a, class) IN
           /\ s \in Locals /\ Kept(r, s) /\ Routed(policy, s)
           /\ s.at \in {"dial", "connect", "return"} /\ s.out \in {r.out, "failed"}
<1>1. PICK b \in Locals : b = Blamed(r, class)
  BY BlamedFields
<1>2. /\ b = [r EXCEPT !.hard = b.hard] /\ b.hard \subseteq r.hard \cup {r.cur}
      /\ class = "recoverable" => b.hard = r.hard
  BY <1>1, BlamedFields
<1>3. /\ Kept(r, b) /\ b.prep = r.prep /\ b.rule = r.rule /\ b.why = r.why /\ b.out = r.out /\ b.at = r.at
      /\ b.addrs = r.addrs /\ b.soft = r.soft /\ b.cur = r.cur
  BY <1>2 DEF Locals, Kept
<1>4. PICK A \in AddrsType : A = [b.addrs EXCEPT !.set = @ \ {a}] /\ A.by = r.addrs.by
  <2>1. PICK B \in AddrsType : B = b.addrs /\ B.by = r.addrs.by
    BY <1>3 DEF Locals
  <2>2. [B EXCEPT !.set = @ \ {a}] \in AddrsType /\ [B EXCEPT !.set = @ \ {a}].by = B.by
    BY DEF AddrsType
  <2> QED
    BY <2>1, <2>2
<1>5. PICK soft \in BOOLEAN : soft <=> b.soft /\ MayFallBack(class)
  OBVIOUS
<1>6. PICK s : s = [b EXCEPT !.addrs = A, !.soft = soft]
  OBVIOUS
<1>7. s = [b EXCEPT !.addrs.set = @ \ {a}, !.soft = @ /\ MayFallBack(class)]
  <2>1. b.soft \in BOOLEAN /\ (b.soft /\ MayFallBack(class)) \in BOOLEAN
    BY DEF Locals
  <2>2. soft = (b.soft /\ MayFallBack(class))
    BY <1>5, <2>1
  <2> QED
    BY <1>4, <1>6, <2>2
<1>8. /\ s \in Locals /\ Kept(b, s) /\ s.prep = b.prep /\ s.rule = b.rule /\ s.why = b.why /\ s.out = b.out
      /\ s.at = b.at /\ s.addrs = A /\ s.soft = soft /\ s.cur = b.cur /\ s.hard = b.hard
  BY <1>6 DEF Locals, Kept
<1>9. /\ Kept(r, s) /\ s.prep = r.prep /\ s.rule = r.rule /\ s.why = r.why /\ s.out = r.out
      /\ s.at = r.at /\ s.addrs.by = r.addrs.by /\ s.cur = r.cur
  BY <1>3, <1>4, <1>8 DEF Kept
<1>10. s.hard \subseteq {s.cur} /\ (s.soft => s.hard = {})
  BY <1>2, <1>3, <1>5, <1>8, <1>9 DEF Routed, Blame, MayFallBack
<1>11. Prepared(policy, s) /\ Heading(policy, s) /\ Sight(policy, s) /\ Dialling(s)
  BY <1>9 DEF Routed, Prepared, Heading, Sight, Kept, Looking, Dialling, Unseen, Allowed
<1>12. s.cur \in Outbound /\ s.why = "connect" /\ ~Unseen(s)
  <2>1. Allowed(policy, s, s.cur) /\ s.why = "connect" /\ ~Unseen(s)
    BY <1>11 DEF Heading, Sight, Dialling
  <2>2. policy.rules[s.rule].outbound \in Outbound
    BY <2>1, DefaultMatches DEF PolicyOK, Allowed
  <2> QED
    BY <2>1, <2>2, ChainStarts DEF Allowed
<1>13. CASE s.addrs.set # {}
  <2>1. PICK t : t = [s EXCEPT !.at = "dial"]
    OBVIOUS
  <2>2. NextAddress(r, a, class) = t
    BY <1>1, <1>7, <1>13, <2>1 DEF NextAddress
  <2>3. "dial" \in Places
    BY DEF Places
  <2>4. /\ t \in Locals /\ Kept(s, t) /\ t.prep = s.prep /\ t.rule = s.rule /\ t.why = s.why /\ t.out = s.out
        /\ t.at = "dial" /\ t.addrs = s.addrs /\ t.soft = s.soft /\ t.cur = s.cur /\ t.hard = s.hard
    BY <1>8, <2>1, <2>3 DEF Locals, Kept
  <2>5. Routed(policy, t)
    BY <1>10, <1>11, <1>12, <2>4 DEF Routed, Prepared, Heading, Blame, Sight, Kept, Looking, Dialling, Unseen, Allowed
  <2>6. Kept(r, t) /\ t.out = r.out
    BY <1>9, <2>4 DEF Kept
  <2> QED
    BY <2>2, <2>4, <2>5, <2>6
<1>14. CASE s.addrs.set = {}
  <2>1. PICK c : c = IF s.soft THEN "recoverable" ELSE "fatal"
    OBVIOUS
  <2>2. NextAddress(r, a, class) = Onward(s, c)
    BY <1>1, <1>7, <1>14, <2>1 DEF NextAddress
  <2>3. c = "recoverable" => s.hard = {} /\ ~Unseen(s)
    BY <1>10, <1>12, <2>1
  <2>4. PICK t : t = Onward(s, c)
    OBVIOUS
  <2>5. Routed(policy, t)
    BY <1>8, <1>11, <1>12, <2>3, <2>4, OnwardRouted
  <2>6. t \in Locals /\ Kept(s, t) /\ t.at \in {"connect", "return"} /\ t.out \in {s.out, "failed"}
    BY <1>8, <1>12, <2>4, OnwardFields
  <2>7. Kept(r, t) /\ t.out \in {r.out, "failed"}
    BY <1>9, <2>6 DEF Kept
  <2> QED
    BY <2>2, <2>4, <2>5, <2>6, <2>7
<1> QED
  BY <1>13, <1>14

LEMMA UpRouted ==
    ASSUME NEW r \in Locals, Routed(policy, r), NEW up \in BOOLEAN
    PROVE  LET u == [r EXCEPT !.up = up] IN
           /\ u \in Locals /\ Routed(policy, u) /\ u.at = r.at /\ u.out = r.out /\ u.up = up /\ u.open = r.open
           /\ u.bad = r.bad /\ u.tcp = r.tcp
<1>1. PICK u : u = [r EXCEPT !.up = up]
  OBVIOUS
<1>2. u \in Locals
  BY <1>1 DEF Locals
<1>3. /\ u.at = r.at /\ u.out = r.out /\ u.up = up /\ u.open = r.open /\ u.bad = r.bad /\ u.tcp = r.tcp
      /\ u.prep = r.prep /\ u.rule = r.rule /\ u.from = r.from /\ u.why = r.why /\ u.cur = r.cur
      /\ u.addrs = r.addrs /\ u.soft = r.soft /\ u.hard = r.hard /\ u.dom = r.dom /\ u.asked = r.asked
  BY <1>1 DEF Locals
<1>4. Routed(policy, u)
  BY <1>3 DEF Routed, Prepared, Heading, Blame, Sight, Looking, Dialling, Unseen, Allowed
<1> QED
  BY <1>1, <1>2, <1>3, <1>4

LEMMA ConnectedRouted ==
    ASSUME PolicyOK, NEW r \in Locals, Dialling(r), Routed(policy, r)
    PROVE  LET s == Connected(r) IN
           /\ s \in Locals /\ Routed(policy, s) /\ s.at = "relay" /\ s.out = r.out
           /\ s.up = r.up /\ s.open = r.open /\ s.bad = r.bad /\ s.tcp = r.tcp
<1>1. PICK A \in AddrsType, P \in PrepType : A = NoAddrs /\ P = Unprepared /\ P.out = None
  BY EmptyTyped
<1>2. PICK s : s = [r EXCEPT !.at = "relay", !.addrs = A, !.prep = P, !.soft = TRUE, !.dest = None]
  OBVIOUS
<1>3. s = Connected(r)
  BY <1>1, <1>2 DEF Connected
<1>4. "relay" \in Places
  BY DEF Places
<1>5. s \in Locals
  BY <1>2, <1>4 DEF Locals
<1>6. /\ s.rule = r.rule /\ s.why = r.why /\ s.out = r.out /\ s.up = r.up /\ s.cur = r.cur /\ s.at = "relay"
      /\ s.hard = r.hard /\ s.open = r.open /\ s.bad = r.bad /\ s.tcp = r.tcp /\ s.dom = r.dom /\ s.asked = r.asked
      /\ s.prep = P
  BY <1>2 DEF Locals
<1>7. Routed(policy, s)
  BY <1>1, <1>6 DEF Routed, Prepared, Heading, Blame, Sight, Looking, Dialling, Unseen, Allowed
<1> QED
  BY <1>3, <1>5, <1>6, <1>7

LEMMA ResolvedRouted ==
    ASSUME PolicyOK, NEW r \in Locals, Looking(r), Prepared(policy, r), Heading(policy, r), Blame(r),
           r.asked, r.out # "rejected", r.cur \in Outbound, r.cur \notin policy.reject,
           NEW A \in AddrsType, A.by = r.cur
    PROVE  LET s == Resolved(r, A) IN
           /\ s \in Locals /\ Kept(r, s) /\ Routed(policy, s)
           /\ s.at \in {"ready", "lookup", "dial"} /\ s.out = r.out
<1>1. PICK i : i = MatchResolved(policy.rules, r.dom, A.set)
  OBVIOUS
<1>2. i \in DOMAIN policy.rules /\ i \in Nat /\ policy.rules[i].outbound \in Outbound
  BY <1>1, MatchFound, DefaultMatches DEF PolicyOK
<1>3. PICK o \in Outbound : o = policy.rules[i].outbound
  BY <1>2
<1>4. PICK here \in PrepType : here = [out |-> r.cur, addrs |-> A] /\ here.out = r.cur /\ here.addrs.by = r.cur
  <2>1. [out |-> r.cur, addrs |-> A] \in PrepType
    BY DEF PrepType
  <2> QED
    BY <2>1
<1>5. {"ready", "lookup", "dial"} \subseteq Places
  BY DEF Places
<1>6. OutboundOf(i) = o
  BY <1>3 DEF OutboundOf
<1>7. r.hard = {}
  BY DEF Blame, Looking
<1>8. CASE r.why = "decide" /\ o \in {r.from, r.cur}
  <2>1. PICK s : s = [r EXCEPT !.at = "ready", !.rule = i, !.prep = here]
    OBVIOUS
  <2>2. Resolved(r, A) = s
    BY <1>1, <1>4, <1>6, <1>8, <2>1 DEF Resolved
  <2>3. s \in Locals
    BY <1>2, <1>5, <2>1 DEF Locals
  <2>4. Kept(r, s) /\ s.at = "ready" /\ s.rule = i /\ s.prep = here /\ s.hard = r.hard /\ s.out = r.out
    BY <2>1 DEF Locals, Kept
  <2>5. r.cur \in Chain(policy, o)
    BY <1>8, ChainStarts DEF Heading
  <2>6. Routed(policy, s)
    BY <1>2, <1>3, <1>4, <1>7, <2>4, <2>5 DEF Routed, Prepared, Heading, Blame, Sight, Kept, Looking, Dialling, Unseen, Allowed
  <2> QED
    BY <2>2, <2>3, <2>4, <2>6
<1>9. CASE r.why = "decide" /\ o \notin {r.from, r.cur} /\ o \in policy.reject
  <2>1. PICK s : s = [r EXCEPT !.at = "ready", !.rule = i, !.cur = o]
    OBVIOUS
  <2>2. Resolved(r, A) = s
    BY <1>1, <1>6, <1>9, <2>1 DEF Resolved
  <2>3. s \in Locals
    BY <1>2, <1>5, <2>1 DEF Locals
  <2>4. Kept(r, s) /\ s.at = "ready" /\ s.rule = i /\ s.prep = r.prep /\ s.hard = r.hard /\ s.out = r.out
    BY <2>1 DEF Locals, Kept
  <2>5. s.prep.out = None
    BY <1>9, <2>4 DEF Prepared
  <2>6. Routed(policy, s)
    BY <1>2, <1>7, <2>4, <2>5 DEF Routed, Prepared, Heading, Blame, Sight, Kept, Looking, Dialling, Unseen, Allowed
  <2> QED
    BY <2>2, <2>3, <2>4, <2>6
<1>10. CASE r.why = "decide" /\ o \notin {r.from, r.cur} /\ o \notin policy.reject
  <2>1. PICK s : s = [r EXCEPT !.at = "lookup", !.why = "again", !.rule = i, !.cur = o]
    OBVIOUS
  <2>2. Resolved(r, A) = s
    BY <1>1, <1>6, <1>10, <2>1 DEF Resolved
  <2>3. s \in Locals
    BY <1>2, <1>5, <2>1 DEF Locals
  <2>4. /\ Kept(r, s) /\ s.at = "lookup" /\ s.why = "again" /\ s.rule = i /\ s.cur = o /\ s.prep = r.prep
        /\ s.hard = r.hard /\ s.out = r.out
    BY <2>1 DEF Locals, Kept
  <2>5. s.prep.out = None /\ Allowed(policy, s, s.cur)
    BY <1>2, <1>3, <1>10, <2>4, ChainStarts DEF Prepared, Allowed
  <2>6. Routed(policy, s)
    BY <1>7, <2>4, <2>5 DEF Routed, Prepared, Heading, Blame, Sight, Kept, Looking, Dialling, Unseen
  <2> QED
    BY <2>2, <2>3, <2>4, <2>6
<1>11. CASE r.why = "again"
  <2>1. PICK s : s = [r EXCEPT !.at = "ready", !.prep = here]
    OBVIOUS
  <2>2. Resolved(r, A) = s
    BY <1>4, <1>11, <2>1 DEF Resolved
  <2>3. s \in Locals
    BY <1>5, <2>1 DEF Locals
  <2>4. Kept(r, s) /\ s.at = "ready" /\ s.rule = r.rule /\ s.prep = here /\ s.hard = r.hard /\ s.out = r.out
    BY <2>1 DEF Locals, Kept
  <2>5. Allowed(policy, r, r.cur)
    BY <1>11 DEF Heading
  <2>6. Routed(policy, s)
    BY <1>4, <1>7, <2>4, <2>5 DEF Routed, Prepared, Heading, Blame, Sight, Kept, Looking, Dialling, Unseen, Allowed
  <2> QED
    BY <2>2, <2>3, <2>4, <2>6
<1>12. CASE r.why = "connect"
  <2>1. PICK s : s = [r EXCEPT !.at = "dial", !.addrs = A, !.soft = TRUE]
    OBVIOUS
  <2>2. Resolved(r, A) = s
    BY <1>12, <2>1 DEF Resolved
  <2>3. s \in Locals
    BY <1>5, <2>1 DEF Locals
  <2>4. /\ Kept(r, s) /\ s.at = "dial" /\ s.rule = r.rule /\ s.why = r.why /\ s.cur = r.cur /\ s.prep = r.prep
        /\ s.hard = r.hard /\ s.out = r.out /\ s.addrs = A
    BY <2>1 DEF Locals, Kept
  <2>5. Allowed(policy, r, r.cur)
    BY <1>12 DEF Heading
  <2>6. Routed(policy, s)
    BY <1>7, <1>12, <2>4, <2>5 DEF Routed, Prepared, Heading, Blame, Sight, Kept, Looking, Dialling, Unseen, Allowed
  <2> QED
    BY <2>2, <2>3, <2>4, <2>6
<1>13. r.why \in {"decide", "again", "connect"}
  BY DEF Locals
<1> QED
  BY <1>8, <1>9, <1>10, <1>11, <1>12, <1>13

----------------------------------------------------------------------------
(* Steps of one flow *)

\* A step of flow f leaves the policy and every other flow alone.
Local(f) ==
    /\ UNCHANGED <<policy, bound>>
    /\ \A g \in Flow \ {f} :
         /\ flow'[g] = flow[g] /\ pipe'[g] = pipe[g] /\ sockets'[g] = sockets[g]
         /\ (g \in slots' <=> g \in slots) /\ (g \in refs' <=> g \in refs) /\ (g \in entered' <=> g \in entered)

\* What a step of flow f has to establish, the shared state aside
Sound(f) == SessionTypes' /\ Local(f) /\ Routed(policy, flow'[f]) /\ Held(f)' /\ Relayed(f)'

LEMMA InvNow ==
    ASSUME SessionInv, NEW f \in Flow
    PROVE  /\ PolicyOK /\ BoundOK /\ flow \in [Flow -> Locals] /\ flow[f] \in Locals
           /\ pipe \in [Flow -> [1 .. 2 -> Direction]] /\ pipe[f] \in [1 .. 2 -> Direction]
           /\ slots \subseteq Flow /\ refs \subseteq Flow /\ entered \subseteq Flow
           /\ sockets \in [Flow -> Nat] /\ now \in Nat
           /\ Routed(policy, flow[f]) /\ Held(f) /\ Relayed(f)
           /\ Cached /\ Counted /\ Slotted
BY DEF SessionInv, SessionTypes

LEMMA SetFacts ==
    ASSUME NEW f \in Flow, flow \in [Flow -> Locals], NEW s \in Locals, Set(f, s)
    PROVE  flow' \in [Flow -> Locals] /\ flow'[f] = s /\ \A g \in Flow \ {f} : flow'[g] = flow[g]
BY DEF Set

\* The outbound of a rule, and every outbound a decision allows, is one.
LEMMA RuleOutbound ==
    ASSUME PolicyOK
    PROVE  /\ \A i \in DOMAIN policy.rules : i \in Nat /\ OutboundOf(i) \in Outbound
           /\ \A r, o : Allowed(policy, r, o) => o \in Outbound
BY DefaultMatches, ChainStarts DEF PolicyOK, OutboundOf, Allowed

\* Before the relay a step changes only locals and perhaps the reference.
LEMMA BeforeRelay ==
    ASSUME SessionInv, NEW f \in Flow, NEW s \in Locals, Set(f, s), Routed(policy, s),
           flow[f].at \in {"acquire", "lookup", "asking", "ready", "connect", "dial"},
           s.at \in {"lookup", "asking", "ready", "connect", "dial", "return"},
           s.tcp = flow[f].tcp, s.up = flow[f].up, s.open = flow[f].open, s.bad = flow[f].bad,
           s.out \in {flow[f].out, "failed", "rejected", "expired"},
           UNCHANGED <<policy, bound, pipe, slots, sockets, entered, now>>, refs' \in {refs, refs \cup {f}}
    PROVE  Sound(f)
<1>1. flow' \in [Flow -> Locals] /\ flow'[f] = s /\ \A g \in Flow \ {f} : flow'[g] = flow[g]
  BY InvNow, SetFacts
<1>2. SessionTypes'
  BY <1>1, InvNow DEF SessionTypes, PolicyOK, BoundOK
<1>3. Local(f)
  BY <1>1 DEF Local
<1>4. Held(f)'
  BY <1>1, InvNow DEF Held
<1>5. Relayed(f)'
  BY <1>1, InvNow DEF Relayed
<1> QED
  BY <1>1, <1>2, <1>3, <1>4, <1>5 DEF Sound

LEMMA SoundAcquire ==
    ASSUME SessionInv, NEW f \in Flow, Acquire(f)
    PROVE  Sound(f) /\ flow[f].at = "acquire" /\ flow'[f].at # "asking"
<1> DEFINE r == flow[f]
           cand == Candidates(policy.rules, r.dom)
           conclusive == CHOOSE i \in cand : \A j \in cand : j <= i
           open == {i \in cand : OutboundOf(i) \notin policy.reject}
           first == IF OutboundOf(conclusive) \notin policy.reject THEN conclusive ELSE First(open)
<1>0. /\ r \in Locals /\ r.at = "acquire" /\ Routed(policy, r) /\ PolicyOK
      /\ UNCHANGED <<policy, bound, pipe, slots, sockets, entered, now>>
  BY InvNow DEF Acquire, At, Still
<1>1. /\ r.hard = {} /\ r.prep.out = None /\ r.out # "rejected"
  BY <1>0 DEF Routed, Blame, Prepared, Sight
<1>2. cand \subseteq DOMAIN policy.rules /\ conclusive \in cand /\ (\A j \in cand : j <= conclusive)
  BY <1>0, LastCandidate DEF PolicyOK
<1>3. {"ready", "lookup"} \subseteq Places
  BY DEF Places
<1>4. CASE /\ r.dom = Literal /\ UNCHANGED refs
           /\ LET i == MatchResolved(policy.rules, Literal, {r.dest})
              IN  Set(f, [r EXCEPT !.at = "ready", !.rule = i, !.cur = OutboundOf(i)])
  <2>1. PICK i : i = MatchResolved(policy.rules, Literal, {r.dest})
    OBVIOUS
  <2>2. i \in DOMAIN policy.rules /\ i \in Nat
    BY <1>0, <2>1, MatchFound, DefaultMatches DEF PolicyOK
  <2>3. PICK o \in Outbound : o = OutboundOf(i)
    BY <1>0, <2>2, RuleOutbound
  <2>4. PICK s : s = [r EXCEPT !.at = "ready", !.rule = i, !.cur = o]
    OBVIOUS
  <2>5. s \in Locals
    BY <1>0, <1>3, <2>2, <2>4 DEF Locals
  <2>6. /\ s.at = "ready" /\ s.rule = i /\ s.hard = r.hard /\ s.prep = r.prep /\ s.dom = r.dom /\ s.out = r.out
        /\ s.tcp = r.tcp /\ s.up = r.up /\ s.open = r.open /\ s.bad = r.bad
    BY <1>0, <2>4 DEF Locals
  <2>7. Routed(policy, s)
    BY <1>1, <1>4, <2>2, <2>6 DEF Routed, Prepared, Heading, Blame, Sight, Looking, Dialling, Unseen
  <2>8. Set(f, s)
    BY <1>4, <2>1, <2>3, <2>4
  <2>9. flow'[f] = s
    BY <2>5, <2>8, InvNow, SetFacts
  <2> QED
    BY <1>0, <1>4, <2>5, <2>6, <2>7, <2>8, <2>9, BeforeRelay
<1>5. CASE /\ r.dom # Literal /\ open = {} /\ refs' = refs \cup {f}
           /\ Set(f, [r EXCEPT !.at = "ready", !.rule = conclusive, !.cur = OutboundOf(conclusive)])
  <2>1. PICK i \in DOMAIN policy.rules : i = conclusive /\ i \in Nat /\ i \in cand
    BY <1>0, <1>2, RuleOutbound
  <2>2. PICK o \in Outbound : o = OutboundOf(i)
    BY <1>0, <2>1, RuleOutbound
  <2>3. PICK s : s = [r EXCEPT !.at = "ready", !.rule = i, !.cur = o]
    OBVIOUS
  <2>4. s \in Locals
    BY <1>0, <1>3, <2>1, <2>3 DEF Locals
  <2>5. /\ s.at = "ready" /\ s.rule = i /\ s.hard = r.hard /\ s.prep = r.prep /\ s.dom = r.dom /\ s.out = r.out
        /\ s.tcp = r.tcp /\ s.up = r.up /\ s.open = r.open /\ s.bad = r.bad
    BY <1>0, <2>3 DEF Locals
  <2>6. \A j \in cand : policy.rules[j].outbound \in policy.reject
    BY <1>5 DEF OutboundOf
  <2>7. Doomed(policy, r.dom)
    BY <1>0, <2>6, MatchFound DEF Doomed, PolicyOK
  <2>8. Routed(policy, s)
    BY <1>1, <2>1, <2>5, <2>6, <2>7 DEF Routed, Prepared, Heading, Blame, Sight, Looking, Dialling, Unseen
  <2>9. Set(f, s)
    BY <1>5, <2>1, <2>2, <2>3
  <2>10. flow'[f] = s
    BY <2>4, <2>9, InvNow, SetFacts
  <2> QED
    BY <1>0, <1>5, <2>4, <2>5, <2>8, <2>9, <2>10, BeforeRelay
<1>6. CASE /\ r.dom # Literal /\ open # {} /\ refs' = refs \cup {f}
           /\ Set(f, [r EXCEPT !.at = "lookup", !.why = "decide", !.from = OutboundOf(first),
                               !.cur = OutboundOf(first)])
  <2>1. open \in SUBSET Nat
    BY <1>0, <1>2, RuleOutbound
  <2>2. First(open) \in open
    BY <1>6, <2>1, FirstLeast
  <2>3. PICK i \in cand : i = first /\ OutboundOf(i) \notin policy.reject
    BY <1>2, <2>2
  <2>4. PICK o \in Outbound : o = OutboundOf(i) /\ o \notin policy.reject
    BY <1>0, <1>2, <2>3, RuleOutbound
  <2>5. PICK s : s = [r EXCEPT !.at = "lookup", !.why = "decide", !.from = o, !.cur = o]
    OBVIOUS
  <2>6. s \in Locals
    BY <1>0, <1>3, <2>5 DEF Locals
  <2>7. /\ s.at = "lookup" /\ s.why = "decide" /\ s.from = o /\ s.cur = o /\ s.rule = r.rule
        /\ s.hard = r.hard /\ s.prep = r.prep /\ s.out = r.out
        /\ s.tcp = r.tcp /\ s.up = r.up /\ s.open = r.open /\ s.bad = r.bad
    BY <1>0, <2>5 DEF Locals
  <2>8. Routed(policy, s)
    BY <1>1, <2>4, <2>7, ChainStarts DEF Routed, Prepared, Heading, Blame, Sight, Looking, Dialling
  <2>9. Set(f, s)
    BY <1>6, <2>3, <2>4, <2>5
  <2>10. flow'[f] = s
    BY <2>6, <2>9, InvNow, SetFacts
  <2> QED
    BY <1>0, <1>6, <2>6, <2>7, <2>8, <2>9, <2>10, BeforeRelay
<1>7. CASE Set(f, Return(r, "failed")) /\ UNCHANGED refs
  <2>1. PICK s : s = Return(r, "failed")
    OBVIOUS
  <2>2. s \in Locals /\ s.at = "return" /\ s.out = "failed" /\ s.prep.out = None /\ Kept(r, s)
    BY <1>0, <2>1, ReturnFields, EmptyTyped DEF Outcomes, Kept
  <2>3. Routed(policy, s)
    BY <2>2 DEF Routed, Prepared, Heading, Blame, Sight, Looking, Dialling
  <2>4. Set(f, s)
    BY <1>7, <2>1
  <2>5. flow'[f] = s
    BY <2>2, <2>4, InvNow, SetFacts
  <2> QED
    BY <1>0, <1>7, <2>2, <2>3, <2>4, <2>5, BeforeRelay DEF Kept
<1> QED
  BY <1>0, <1>4, <1>5, <1>6, <1>7 DEF Acquire

LEMMA ReturnRouted ==
    ASSUME NEW r \in Locals, NEW out \in {"failed", "rejected", "expired"},
           out = "rejected" /\ Unseen(r) => Doomed(policy, r.dom)
    PROVE  LET s == Return(r, out) IN
           s \in Locals /\ s.at = "return" /\ s.out = out /\ Kept(r, s) /\ Routed(policy, s)
<1>1. PICK s : s = Return(r, out)
  OBVIOUS
<1>2. s \in Locals /\ s.at = "return" /\ s.out = out /\ s.prep.out = None /\ Kept(r, s)
  BY <1>1, ReturnFields, EmptyTyped DEF Outcomes, Kept
<1>3. Routed(policy, s)
  BY <1>2 DEF Routed, Prepared, Heading, Blame, Sight, Looking, Dialling, Unseen, Kept
<1> QED
  BY <1>1, <1>2, <1>3

\* The outbound of a lookup is one.
LEMMA LookingAt ==
    ASSUME PolicyOK, NEW r, Looking(r), Heading(policy, r)
    PROVE  r.cur \in Outbound
BY RuleOutbound, ChainStarts DEF Heading

LEMMA SoundLookup ==
    ASSUME SessionInv, NEW f \in Flow, Lookup(f)
    PROVE  /\ Sound(f) /\ flow[f].at = "lookup" /\ flow[f].cur \in Outbound
           /\ \/ flow'[f].at # "asking" /\ asking' = asking
              \/ /\ flow'[f].at = "asking" /\ flow'[f].cur = flow[f].cur /\ ~(asking[flow[f].cur] >= MaxConcurrent)
                 /\ asking' = [asking EXCEPT ![flow[f].cur] = @ + 1]
<1> DEFINE r == flow[f]
<1>0. /\ r \in Locals /\ r.at = "lookup" /\ Routed(policy, r) /\ PolicyOK
      /\ UNCHANGED <<policy, bound, pipe, slots, refs, sockets, entered, now>>
  BY InvNow DEF Lookup, At, Still, held
<1>1. Looking(r) /\ r.hard = {} /\ r.out # "rejected" /\ r.cur \in Outbound
  BY <1>0, LookingAt DEF Routed, Blame, Sight, Looking
<1>2. "asking" \in Places
  BY DEF Places
<1>3. CASE r.cur \in policy.reject /\ Set(f, Return(r, "rejected")) /\ UNCHANGED asking
  <2>1. ~Unseen(r)
    BY <1>0, <1>3 DEF Routed, Sight
  <2>2. PICK s : s = Return(r, "rejected")
    OBVIOUS
  <2>3. s \in Locals /\ s.at = "return" /\ s.out = "rejected" /\ Kept(r, s) /\ Routed(policy, s)
    BY <1>0, <2>1, <2>2, ReturnRouted
  <2>4. Set(f, s)
    BY <1>3, <2>2
  <2>5. flow'[f] = s
    BY <2>3, <2>4, InvNow, SetFacts
  <2> QED
    BY <1>0, <1>1, <1>3, <2>3, <2>4, <2>5, BeforeRelay DEF Kept
<1>4. CASE /\ r.cur \notin policy.reject /\ Fresh(r.cur, r.dom)
           /\ Set(f, Resolved([r EXCEPT !.asked = TRUE], cache[r.cur][r.dom].addrs)) /\ UNCHANGED asking
  <2>1. PICK A \in AddrsType : A = cache[r.cur][r.dom].addrs /\ A.by = r.cur
    BY <1>1, <1>4, InvNow DEF Fresh, Cached, CacheOK, Entry
  <2>2. PICK u : u = [r EXCEPT !.asked = TRUE]
    OBVIOUS
  <2>3. u \in Locals
    BY <1>0, <2>2 DEF Locals
  <2>4. /\ u.at = "lookup" /\ u.asked /\ u.hard = r.hard /\ u.prep = r.prep /\ u.out = r.out /\ u.cur = r.cur
        /\ u.from = r.from /\ u.why = r.why /\ u.rule = r.rule
        /\ u.tcp = r.tcp /\ u.up = r.up /\ u.open = r.open /\ u.bad = r.bad
    BY <1>0, <2>2 DEF Locals
  <2>5. Looking(u) /\ Prepared(policy, u) /\ Heading(policy, u) /\ Blame(u)
    BY <1>0, <2>4 DEF Routed, Prepared, Heading, Blame, Looking, Dialling, Allowed
  <2>6. PICK s : s = Resolved(u, A)
    OBVIOUS
  <2>7. s \in Locals /\ Kept(u, s) /\ Routed(policy, s) /\ s.at \in {"ready", "lookup", "dial"} /\ s.out = r.out
    <3>1. /\ PolicyOK /\ u.asked /\ u.out # "rejected" /\ u.cur \in Outbound /\ u.cur \notin policy.reject
          /\ A.by = u.cur
      BY <1>0, <1>1, <1>4, <2>1, <2>4
    <3> QED
      BY <2>3, <2>4, <2>5, <2>6, <3>1, ResolvedRouted
  <2>8. Set(f, s)
    BY <1>4, <2>1, <2>2, <2>6
  <2>9. flow'[f] = s
    BY <2>7, <2>8, InvNow, SetFacts
  <2> QED
    BY <1>0, <1>1, <1>4, <2>4, <2>7, <2>8, <2>9, BeforeRelay DEF Kept
<1>5. CASE Set(f, Onward(r, "fatal")) /\ UNCHANGED asking
  <2>1. PICK s : s = Onward(r, "fatal")
    OBVIOUS
  <2>2. s \in Locals /\ Kept(r, s) /\ s.at = "return" /\ s.out = "failed"
    BY <1>0, <1>1, <2>1, OnwardFields
  <2>3. Routed(policy, s)
    BY <1>0, <1>1, <2>1, OnwardRouted DEF Routed
  <2>4. Set(f, s)
    BY <1>5, <2>1
  <2>5. flow'[f] = s
    BY <2>2, <2>4, InvNow, SetFacts
  <2> QED
    BY <1>0, <1>1, <1>5, <2>2, <2>3, <2>4, <2>5, BeforeRelay DEF Kept
<1>6. CASE /\ r.cur \notin policy.reject /\ ~(asking[r.cur] >= MaxConcurrent)
           /\ Set(f, [r EXCEPT !.at = "asking", !.asked = TRUE])
           /\ asking' = [asking EXCEPT ![r.cur] = @ + 1]
  <2>1. PICK s : s = [r EXCEPT !.at = "asking", !.asked = TRUE]
    OBVIOUS
  <2>2. s \in Locals
    BY <1>0, <1>2, <2>1 DEF Locals
  <2>3. /\ s.at = "asking" /\ s.asked /\ s.hard = r.hard /\ s.prep = r.prep /\ s.out = r.out /\ s.cur = r.cur
        /\ s.from = r.from /\ s.why = r.why /\ s.rule = r.rule
        /\ s.tcp = r.tcp /\ s.up = r.up /\ s.open = r.open /\ s.bad = r.bad
    BY <1>0, <2>1 DEF Locals
  <2>4. Routed(policy, s)
    BY <1>0, <1>1, <1>6, <2>3 DEF Routed, Prepared, Heading, Blame, Sight, Looking, Dialling, Allowed, Unseen
  <2>5. Set(f, s)
    BY <1>6, <2>1
  <2>6. flow'[f] = s
    BY <2>2, <2>5, InvNow, SetFacts
  <2> QED
    BY <1>0, <1>1, <1>6, <2>2, <2>3, <2>4, <2>5, <2>6, BeforeRelay
<1> QED
  BY <1>0, <1>1, <1>3, <1>4, <1>5, <1>6 DEF Lookup

LEMMA SoundAnswered ==
    ASSUME SessionInv, NEW f \in Flow, Answered(f)
    PROVE  /\ Sound(f) /\ flow[f].at = "asking" /\ flow[f].cur \in Outbound /\ flow'[f].at # "asking"
           /\ asking' = [asking EXCEPT ![flow[f].cur] = @ - 1]
<1> DEFINE r == flow[f]
<1>0. /\ r \in Locals /\ r.at = "asking" /\ Routed(policy, r) /\ PolicyOK /\ BoundOK
      /\ UNCHANGED <<policy, bound, pipe, slots, refs, sockets, entered, now>>
      /\ asking' = [asking EXCEPT ![r.cur] = @ - 1]
  BY InvNow DEF Answered, At, Still, held
<1>1. Looking(r) /\ r.hard = {} /\ r.out # "rejected" /\ r.cur \in Outbound /\ r.asked /\ r.cur \notin policy.reject
  BY <1>0, LookingAt DEF Routed, Blame, Sight, Looking, Heading
<1>2. CASE \E A \in bound.answers : Set(f, Resolved(r, [set |-> A, by |-> r.cur]))
  <2>1. PICK A \in bound.answers : Set(f, Resolved(r, [set |-> A, by |-> r.cur]))
    BY <1>2
  <2>2. PICK B \in AddrsType : B = [set |-> A, by |-> r.cur] /\ B.by = r.cur
    <3>1. A \in SUBSET Addr
      BY <1>0 DEF BoundOK
    <3>2. [set |-> A, by |-> r.cur] \in AddrsType
      BY <1>1, <3>1 DEF AddrsType
    <3> QED
      BY <3>2
  <2>3. PICK s : s = Resolved(r, B)
    OBVIOUS
  <2>4. s \in Locals /\ Kept(r, s) /\ Routed(policy, s) /\ s.at \in {"ready", "lookup", "dial"} /\ s.out = r.out
    BY <1>0, <1>1, <2>2, <2>3, ResolvedRouted DEF Routed
  <2>5. Set(f, s)
    BY <2>1, <2>2, <2>3
  <2>6. flow'[f] = s
    BY <2>4, <2>5, InvNow, SetFacts
  <2> QED
    BY <1>0, <1>1, <2>4, <2>5, <2>6, BeforeRelay DEF Kept
<1>3. CASE \E class : Set(f, Onward(r, class))
  <2>1. PICK class : Set(f, Onward(r, class))
    BY <1>3
  <2>2. PICK s : s = Onward(r, class)
    OBVIOUS
  <2>3. s \in Locals /\ Kept(r, s) /\ s.at \in {"return", "connect", "lookup"} /\ s.out \in {"failed", r.out}
    BY <1>0, <1>1, <2>2, OnwardFields
  <2>4. Routed(policy, s)
    BY <1>0, <1>1, <2>2, OnwardRouted DEF Routed, Unseen
  <2>5. Set(f, s)
    BY <2>1, <2>2
  <2>6. flow'[f] = s
    BY <2>3, <2>5, InvNow, SetFacts
  <2> QED
    BY <1>0, <1>1, <2>3, <2>4, <2>5, <2>6, BeforeRelay DEF Kept
<1> QED
  BY <1>0, <1>1, <1>2, <1>3 DEF Answered

LEMMA SoundReady ==
    ASSUME SessionInv, NEW f \in Flow, Ready(f)
    PROVE  Sound(f) /\ flow[f].at = "ready" /\ flow'[f].at # "asking"
<1> DEFINE r == flow[f]
<1>0. /\ r \in Locals /\ r.at = "ready" /\ Routed(policy, r) /\ PolicyOK
      /\ UNCHANGED <<policy, bound, pipe, slots, refs, sockets, entered, now>>
  BY InvNow DEF Ready, At, Still, held
<1>1. /\ r.hard = {} /\ r.out # "rejected" /\ r.rule \in DOMAIN policy.rules
      /\ r.prep.out # None => Allowed(policy, r, r.prep.out) /\ r.prep.addrs.by = r.prep.out
  BY <1>0 DEF Routed, Blame, Sight, Heading, Prepared
<1>2. CASE Set(f, [r EXCEPT !.at = "connect", !.why = "connect",
                            !.cur = IF r.prep.out # None THEN r.prep.out ELSE OutboundOf(r.rule)])
  <2>1. PICK o : o = IF r.prep.out # None THEN r.prep.out ELSE OutboundOf(r.rule)
    OBVIOUS
  <2>2. Allowed(policy, r, o) /\ o \in Outbound
    <3>1. OutboundOf(r.rule) \in Outbound
      BY <1>0, <1>1, RuleOutbound
    <3>2. Allowed(policy, r, OutboundOf(r.rule))
      BY <1>1, <3>1, ChainStarts DEF Allowed, OutboundOf
    <3>3. Allowed(policy, r, o)
      BY <1>1, <2>1, <3>2
    <3> QED
      BY <1>0, <3>3, RuleOutbound
  <2>3. PICK s : s = [r EXCEPT !.at = "connect", !.why = "connect", !.cur = o]
    OBVIOUS
  <2>4. "connect" \in Places
    BY DEF Places
  <2>5. s \in Locals
    BY <1>0, <2>2, <2>3, <2>4 DEF Locals
  <2>6. /\ s.at = "connect" /\ s.why = "connect" /\ s.cur = o /\ s.hard = r.hard /\ s.prep = r.prep /\ s.rule = r.rule
        /\ s.out = r.out /\ Kept(r, s)
    BY <1>0, <2>3 DEF Locals, Kept
  <2>7. Unseen(r) => o \in policy.reject /\ Doomed(policy, r.dom) /\ r.prep.out = None
    BY <1>0, <2>1 DEF Routed, Sight, OutboundOf
  <2>8. Routed(policy, s)
    BY <1>1, <2>2, <2>6, <2>7 DEF Routed, Prepared, Heading, Blame, Sight, Looking, Dialling, Unseen, Kept, Allowed
  <2>9. Set(f, s)
    BY <1>2, <2>1, <2>3
  <2>10. flow'[f] = s
    BY <2>5, <2>9, InvNow, SetFacts
  <2> QED
    BY <1>0, <2>5, <2>6, <2>8, <2>9, <2>10, BeforeRelay DEF Kept
<1>3. CASE \E o \in {"expired", "failed"} : Set(f, Return(r, o))
  <2>1. PICK o \in {"expired", "failed"} : Set(f, Return(r, o))
    BY <1>3
  <2>2. PICK s : s = Return(r, o)
    OBVIOUS
  <2>3. s \in Locals /\ s.at = "return" /\ s.out = o /\ Kept(r, s) /\ Routed(policy, s)
    <3>1. o \in {"failed", "rejected", "expired"} /\ o # "rejected"
      BY <2>1
    <3> HIDE <2>1
    <3> QED
      BY <1>0, <2>2, <3>1, ReturnRouted
  <2>4. Set(f, s)
    BY <2>1, <2>2
  <2>5. flow'[f] = s
    BY <2>3, <2>4, InvNow, SetFacts
  <2> QED
    BY <1>0, <2>1, <2>3, <2>4, <2>5, BeforeRelay DEF Kept
<1> QED
  BY <1>0, <1>2, <1>3 DEF Ready

LEMMA SoundConnect ==
    ASSUME SessionInv, NEW f \in Flow, Connect(f)
    PROVE  Sound(f) /\ flow[f].at = "connect" /\ flow'[f].at # "asking"
<1> DEFINE r == flow[f]
<1>0. /\ r \in Locals /\ r.at = "connect" /\ Routed(policy, r) /\ PolicyOK
      /\ UNCHANGED <<policy, bound, pipe, slots, refs, sockets, entered, now>>
  BY InvNow DEF Connect, At, Still, held
<1>1. /\ r.hard = {} /\ r.out # "rejected" /\ r.why = "connect" /\ Allowed(policy, r, r.cur) /\ r.cur \in Outbound
      /\ r.prep.out # None => Allowed(policy, r, r.prep.out) /\ r.prep.addrs.by = r.prep.out
  BY <1>0, RuleOutbound DEF Routed, Blame, Sight, Heading, Prepared
<1>2. {"dial", "lookup"} \subseteq Places
  BY DEF Places
<1>3. CASE r.cur \in policy.reject /\ Set(f, Return(r, "rejected"))
  <2>1. Unseen(r) => Doomed(policy, r.dom)
    BY <1>0 DEF Routed, Sight
  <2>2. PICK s : s = Return(r, "rejected")
    OBVIOUS
  <2>3. s \in Locals /\ s.at = "return" /\ s.out = "rejected" /\ Kept(r, s) /\ Routed(policy, s)
    BY <1>0, <2>1, <2>2, ReturnRouted
  <2>4. Set(f, s)
    BY <1>3, <2>2
  <2>5. flow'[f] = s
    BY <2>3, <2>4, InvNow, SetFacts
  <2> QED
    BY <1>0, <2>3, <2>4, <2>5, BeforeRelay DEF Kept
<1>4. CASE \E A \in AddrsType, P \in PrepType :
              /\ r.cur \notin policy.reject /\ A.by = r.cur /\ P \in {r.prep, Unprepared}
              /\ Set(f, [r EXCEPT !.at = "dial", !.addrs = A, !.prep = P, !.soft = TRUE])
  <2>1. PICK A \in AddrsType, P \in PrepType :
              /\ r.cur \notin policy.reject /\ A.by = r.cur /\ P \in {r.prep, Unprepared}
              /\ Set(f, [r EXCEPT !.at = "dial", !.addrs = A, !.prep = P, !.soft = TRUE])
    BY <1>4
  <2>2. PICK s : s = [r EXCEPT !.at = "dial", !.addrs = A, !.prep = P, !.soft = TRUE]
    OBVIOUS
  <2>3. s \in Locals
    BY <1>0, <1>2, <2>2 DEF Locals
  <2>4. /\ s.at = "dial" /\ s.why = r.why /\ s.cur = r.cur /\ s.hard = r.hard /\ s.prep = P /\ s.rule = r.rule
        /\ s.out = r.out /\ s.addrs = A /\ Kept(r, s)
    BY <1>0, <2>2 DEF Locals, Kept
  <2>5. ~Unseen(r)
    BY <1>0, <2>1 DEF Routed, Sight
  <2>6. s.prep.out # None => Allowed(policy, r, s.prep.out) /\ s.prep.addrs.by = s.prep.out
    BY <1>1, <2>1, <2>4, EmptyTyped
  <2>7. Routed(policy, s)
    BY <1>1, <2>1, <2>4, <2>5, <2>6 DEF Routed, Prepared, Heading, Blame, Sight, Looking, Dialling, Unseen, Kept, Allowed
  <2>8. Set(f, s)
    BY <2>1, <2>2
  <2>9. flow'[f] = s
    BY <2>3, <2>8, InvNow, SetFacts
  <2> QED
    BY <1>0, <2>3, <2>4, <2>7, <2>8, <2>9, BeforeRelay DEF Kept
<1>5. CASE r.cur \notin policy.reject /\ Set(f, [r EXCEPT !.at = "lookup"])
  <2>1. PICK s : s = [r EXCEPT !.at = "lookup"]
    OBVIOUS
  <2>2. s \in Locals
    BY <1>0, <1>2, <2>1 DEF Locals
  <2>3. /\ s.at = "lookup" /\ s.why = r.why /\ s.cur = r.cur /\ s.hard = r.hard /\ s.prep = r.prep /\ s.rule = r.rule
        /\ s.out = r.out /\ Kept(r, s)
    BY <1>0, <2>1 DEF Locals, Kept
  <2>4. Routed(policy, s)
    BY <1>1, <1>5, <2>3 DEF Routed, Prepared, Heading, Blame, Sight, Looking, Dialling, Unseen, Kept, Allowed
  <2>5. Set(f, s)
    BY <1>5, <2>1
  <2>6. flow'[f] = s
    BY <2>2, <2>5, InvNow, SetFacts
  <2> QED
    BY <1>0, <2>2, <2>3, <2>4, <2>5, <2>6, BeforeRelay DEF Kept
<1>6. CASE /\ r.cur \notin policy.reject /\ r.prep.out = r.cur
           /\ Set(f, [r EXCEPT !.at = "dial", !.addrs = r.prep.addrs, !.prep = Unprepared, !.soft = TRUE])
  <2>1. PICK A \in AddrsType, P \in PrepType : A = r.prep.addrs /\ A.by = r.cur /\ P = Unprepared
    <3>1. r.prep \in PrepType
      BY <1>0 DEF Locals
    <3>2. r.prep.addrs \in AddrsType /\ r.prep.addrs.by = r.cur
      BY <1>1, <1>6, <3>1, SessionAssumption DEF PrepType
    <3> QED
      BY <3>2, EmptyTyped
  <2> QED
    BY <1>4, <1>6, <2>1
<1>7. CASE /\ r.cur \notin policy.reject /\ r.dom = Literal
           /\ Set(f, [r EXCEPT !.at = "dial", !.addrs = [set |-> {r.dest}, by |-> r.cur], !.soft = TRUE])
  <2>1. PICK A \in AddrsType : A = [set |-> {r.dest}, by |-> r.cur] /\ A.by = r.cur
    <3>1. {r.dest} \in SUBSET (Addr \cup {None})
      BY <1>0 DEF Locals
    <3>2. [set |-> {r.dest}, by |-> r.cur] \in AddrsType
      BY <1>1, <3>1 DEF AddrsType
    <3> QED
      BY <3>2
  <2>2. PICK P \in PrepType : P = r.prep
    BY <1>0 DEF Locals
  <2>3. [r EXCEPT !.at = "dial", !.addrs = A, !.soft = TRUE]
          = [r EXCEPT !.at = "dial", !.addrs = A, !.prep = P, !.soft = TRUE]
    BY <1>0, <2>2 DEF Locals
  <2>4. Set(f, [r EXCEPT !.at = "dial", !.addrs = A, !.prep = P, !.soft = TRUE])
    BY <1>7, <2>1, <2>3
  <2> QED
    BY <1>4, <1>7, <2>1, <2>2, <2>4
<1> QED
  BY <1>0, <1>3, <1>5, <1>6, <1>7 DEF Connect

LEMMA SoundDial ==
    ASSUME SessionInv, NEW f \in Flow, Dial(f)
    PROVE  Sound(f) /\ flow[f].at = "dial" /\ flow'[f].at # "asking"
<1> DEFINE r == flow[f]
<1>0. /\ r \in Locals /\ r.at = "dial" /\ Routed(policy, r) /\ PolicyOK
      /\ UNCHANGED <<policy, bound, pipe, slots, refs, entered, now>>
  BY InvNow DEF Dial, At, Still
<1>1. Dialling(r) /\ ~r.up /\ sockets[f] = 0 /\ r.open /\ r.out # "completed" /\ sockets \in [Flow -> Nat]
  BY <1>0, InvNow DEF Dialling, Held, Relayed
<1>2. CASE /\ r.tcp /\ Set(f, Connected([r EXCEPT !.up = TRUE]))
           /\ sockets' = [sockets EXCEPT ![f] = @ + 1]
  <2> PICK u : u = [r EXCEPT !.up = TRUE]
    OBVIOUS
  <2>0. /\ u \in Locals /\ Routed(policy, u) /\ Dialling(u) /\ u.out = r.out /\ u.up = TRUE /\ u.open = r.open
        /\ u.bad = r.bad /\ u.tcp = r.tcp
    BY <1>0, UpRouted DEF Dialling
  <2>1. PICK s : s = Connected(u)
    OBVIOUS
  <2>2. /\ s \in Locals /\ Routed(policy, s) /\ s.at = "relay" /\ s.out = r.out
        /\ s.up = TRUE /\ s.open = r.open /\ s.bad = r.bad /\ s.tcp = r.tcp
    BY <1>0, <2>0, <2>1, ConnectedRouted
  <2>3. Set(f, s)
    BY <1>2, <2>1
  <2>4. flow' \in [Flow -> Locals] /\ flow'[f] = s /\ \A g \in Flow \ {f} : flow'[g] = flow[g]
    BY <2>2, <2>3, InvNow, SetFacts
  <2>5. sockets' \in [Flow -> Nat] /\ sockets'[f] = 1 /\ \A g \in Flow \ {f} : sockets'[g] = sockets[g]
    BY <1>1, <1>2
  <2>6. SessionTypes' /\ Local(f)
    BY <1>0, <2>4, <2>5, InvNow DEF SessionTypes, PolicyOK, BoundOK, Local
  <2>7. Held(f)' /\ Relayed(f)'
    BY <1>0, <1>1, <2>2, <2>4, <2>5, InvNow DEF Held, Relayed
  <2> QED
    BY <1>0, <2>2, <2>4, <2>6, <2>7 DEF Sound
<1>3. CASE \E a \in r.addrs.set : /\ Set(f, [r EXCEPT !.at = "send", !.up = TRUE, !.dest = a])
                                  /\ sockets' = [sockets EXCEPT ![f] = @ + 1]
  <2>1. PICK a \in r.addrs.set : /\ Set(f, [r EXCEPT !.at = "send", !.up = TRUE, !.dest = a])
                                 /\ sockets' = [sockets EXCEPT ![f] = @ + 1]
    BY <1>3
  <2>2. a \in Addr \cup {None} /\ "send" \in Places
    BY <1>0 DEF Locals, AddrsType, Places
  <2>3. PICK s : s = [r EXCEPT !.at = "send", !.up = TRUE, !.dest = a]
    OBVIOUS
  <2>4. s \in Locals
    BY <1>0, <2>2, <2>3 DEF Locals
  <2>5. /\ s.at = "send" /\ s.out = r.out /\ s.up = TRUE /\ s.open = r.open /\ s.bad = r.bad /\ s.tcp = r.tcp
        /\ s.prep = r.prep /\ s.rule = r.rule /\ s.why = r.why /\ s.cur = r.cur /\ s.addrs = r.addrs
        /\ s.soft = r.soft /\ s.hard = r.hard /\ s.dom = r.dom /\ s.asked = r.asked
    BY <1>0, <2>3 DEF Locals
  <2>6. Routed(policy, s)
    BY <1>0, <2>5 DEF Routed, Prepared, Heading, Blame, Sight, Looking, Dialling, Unseen, Allowed
  <2>7. Set(f, s)
    BY <2>1, <2>3
  <2>8. flow' \in [Flow -> Locals] /\ flow'[f] = s /\ \A g \in Flow \ {f} : flow'[g] = flow[g]
    BY <2>4, <2>7, InvNow, SetFacts
  <2>9. sockets' \in [Flow -> Nat] /\ sockets'[f] = 1 /\ \A g \in Flow \ {f} : sockets'[g] = sockets[g]
    BY <1>1, <2>1
  <2>10. SessionTypes' /\ Local(f)
    BY <1>0, <2>8, <2>9, InvNow DEF SessionTypes, PolicyOK, BoundOK, Local
  <2>11. Held(f)' /\ Relayed(f)'
    BY <1>0, <1>1, <2>5, <2>8, <2>9, InvNow DEF Held, Relayed
  <2> QED
    BY <1>0, <2>5, <2>6, <2>8, <2>10, <2>11 DEF Sound
<1>4. CASE \E a, class : Set(f, NextAddress(r, a, class)) /\ UNCHANGED sockets
  <2>1. PICK a, class : Set(f, NextAddress(r, a, class)) /\ UNCHANGED sockets
    BY <1>4
  <2>2. PICK s : s = NextAddress(r, a, class)
    OBVIOUS
  <2>3. /\ s \in Locals /\ Kept(r, s) /\ Routed(policy, s)
        /\ s.at \in {"dial", "connect", "return"} /\ s.out \in {r.out, "failed"}
    BY <1>0, <1>1, <2>2, NextAddressRouted
  <2>4. Set(f, s)
    BY <2>1, <2>2
  <2>5. flow'[f] = s
    BY <2>3, <2>4, InvNow, SetFacts
  <2> QED
    BY <1>0, <2>1, <2>3, <2>4, <2>5, BeforeRelay DEF Kept
<1> QED
  BY <1>0, <1>2, <1>3, <1>4 DEF Dial

LEMMA SoundSend ==
    ASSUME SessionInv, NEW f \in Flow, Send(f)
    PROVE  Sound(f) /\ flow[f].at = "send" /\ flow'[f].at # "asking"
<1> DEFINE r == flow[f]
<1>0. /\ r \in Locals /\ r.at = "send" /\ Routed(policy, r) /\ PolicyOK
      /\ UNCHANGED <<policy, bound, pipe, slots, refs, entered, now>>
  BY InvNow DEF Send, At, Still
<1>1. /\ Dialling(r) /\ r.open /\ r.out # "completed" /\ sockets \in [Flow -> Nat] /\ r.up
      /\ sockets[f] = 1
  BY <1>0, InvNow DEF Dialling, Held, Relayed, Locals
<1>2. CASE Set(f, Connected(r)) /\ UNCHANGED sockets
  <2>2. PICK s : s = Connected(r)
    OBVIOUS
  <2>3. /\ s \in Locals /\ Routed(policy, s) /\ s.at = "relay" /\ s.out = r.out
        /\ s.up = r.up /\ s.open = r.open /\ s.bad = r.bad /\ s.tcp = r.tcp
    BY <1>0, <1>1, <2>2, ConnectedRouted
  <2>4. Set(f, s)
    BY <1>2, <2>2
  <2>5. flow' \in [Flow -> Locals] /\ flow'[f] = s /\ \A g \in Flow \ {f} : flow'[g] = flow[g]
    BY <2>3, <2>4, InvNow, SetFacts
  <2>6. SessionTypes' /\ Local(f)
    BY <1>0, <1>2, <2>5, InvNow DEF SessionTypes, PolicyOK, BoundOK, Local
  <2>7. Held(f)' /\ Relayed(f)'
    BY <1>0, <1>1, <1>2, <2>3, <2>5, InvNow DEF Held, Relayed
  <2> QED
    BY <1>0, <2>3, <2>5, <2>6, <2>7 DEF Sound
<1>3. CASE \E class : Discard(f) /\ Set(f, NextAddress([r EXCEPT !.up = FALSE], r.dest, class))
  <2>1. PICK class : Discard(f) /\ Set(f, NextAddress([r EXCEPT !.up = FALSE], r.dest, class))
    BY <1>3
  <2>2. PICK u : u = [r EXCEPT !.up = FALSE]
    OBVIOUS
  <2>3. /\ u \in Locals /\ Routed(policy, u) /\ Dialling(u) /\ u.out = r.out /\ ~u.up /\ u.open = r.open
        /\ u.bad = r.bad /\ u.tcp = r.tcp
    BY <1>0, <2>2, UpRouted DEF Dialling
  <2>4. PICK s : s = NextAddress(u, r.dest, class)
    OBVIOUS
  <2>5. /\ s \in Locals /\ Kept(u, s) /\ Routed(policy, s)
        /\ s.at \in {"dial", "connect", "return"} /\ s.out \in {r.out, "failed"}
    BY <1>0, <2>3, <2>4, NextAddressRouted
  <2>6. Set(f, s)
    BY <2>1, <2>2, <2>4
  <2>7. flow' \in [Flow -> Locals] /\ flow'[f] = s /\ \A g \in Flow \ {f} : flow'[g] = flow[g]
    BY <2>5, <2>6, InvNow, SetFacts
  <2>8. sockets' \in [Flow -> Nat] /\ sockets'[f] = 0 /\ \A g \in Flow \ {f} : sockets'[g] = sockets[g]
    BY <1>1, <2>1 DEF Discard
  <2>9. SessionTypes' /\ Local(f)
    BY <1>0, <2>7, <2>8, InvNow DEF SessionTypes, PolicyOK, BoundOK, Local
  <2>10. ~s.up /\ s.open /\ s.tcp = r.tcp /\ s.out # "completed"
    BY <1>1, <2>3, <2>5 DEF Kept
  <2>11. Held(f)' /\ Relayed(f)'
    BY <1>0, <1>1, <2>5, <2>7, <2>8, <2>10, InvNow DEF Held, Relayed
  <2> QED
    BY <1>0, <2>5, <2>7, <2>9, <2>11 DEF Sound
<1> QED
  BY <1>0, <1>2, <1>3 DEF Send

----------------------------------------------------------------------------
(* The relays *)

\* Once the relay is over, a flow's decision asks for nothing more.
LEMMA AfterRelay ==
    ASSUME NEW r, NEW s, Routed(policy, r), s.prep = r.prep, s.rule = r.rule,
           s.at \in {"drain", "second", "last", "return"}, s.out # "rejected"
    PROVE  Routed(policy, s)
BY DEF Routed, Prepared, Heading, Blame, Sight, Looking, Dialling, Allowed

Ends == {"drain", "second", "last", "return"}

\* Goto, seen from outside: the flow is somewhere else, and nothing more.
Went(f, l) ==
    /\ flow' \in [Flow -> Locals] /\ \A g \in Flow \ {f} : flow'[g] = flow[g]
    /\ flow'[f].at = l /\ flow'[f].prep = flow[f].prep /\ flow'[f].rule = flow[f].rule /\ flow'[f].tcp = flow[f].tcp
    /\ flow'[f].out = flow[f].out /\ flow'[f].bad = flow[f].bad /\ flow'[f].open = flow[f].open
    /\ flow'[f].up = flow[f].up

LEMMA WentFacts ==
    ASSUME SessionInv, NEW f \in Flow, NEW l \in Ends, Goto(f, l)
    PROVE  Went(f, l)
<1>0. PICK r \in Locals : r = flow[f]
  BY InvNow
<1>1. PICK s : s = [r EXCEPT !.at = l]
  OBVIOUS
<1>2. l \in Places
  BY DEF Ends, Places
<1>3. s \in Locals
  BY <1>1, <1>2 DEF Locals
<1>4. /\ s.at = l /\ s.prep = r.prep /\ s.rule = r.rule /\ s.tcp = r.tcp /\ s.out = r.out
      /\ s.bad = r.bad /\ s.open = r.open /\ s.up = r.up
  BY <1>1, <1>2 DEF Locals
<1>5. Set(f, s)
  BY <1>0, <1>1 DEF Goto
<1>6. flow' \in [Flow -> Locals] /\ flow'[f] = s /\ \A g \in Flow \ {f} : flow'[g] = flow[g]
  BY <1>3, <1>5, InvNow, SetFacts
<1> QED
  BY <1>0, <1>4, <1>6 DEF Went

LEMMA SettleFields ==
    ASSUME NEW f \in Flow, flow[f] \in Locals, NEW l \in Ends, NEW bad \in BOOLEAN
    PROVE  LET r == flow[f]
               s == Settle(f, l, bad)
           IN  /\ s \in Locals /\ s.at = l /\ s.prep = r.prep /\ s.rule = r.rule /\ s.tcp = r.tcp /\ s.out = r.out
               /\ (s.bad <=> r.bad \/ bad) /\ s.open = r.open /\ s.up = r.up
<1>1. PICK r \in Locals : r = flow[f]
  OBVIOUS
<1>2. PICK b \in BOOLEAN : b = (r.bad \/ bad)
  OBVIOUS
<1>3. PICK s : s = [r EXCEPT !.at = l, !.bad = b]
  OBVIOUS
<1>4. s = Settle(f, l, bad)
  BY <1>1, <1>2, <1>3 DEF Settle
<1>5. l \in Places
  BY DEF Ends, Places
<1>6. s \in Locals
  BY <1>3, <1>5 DEF Locals
<1>7. /\ s.at = l /\ s.prep = r.prep /\ s.rule = r.rule /\ s.tcp = r.tcp /\ s.out = r.out
      /\ s.bad = b /\ s.open = r.open /\ s.up = r.up
  BY <1>3, <1>5 DEF Locals
<1> QED
  BY <1>1, <1>2, <1>4, <1>6, <1>7

\* The state after closeBoth: the flow is on its way out, its connections closed.
Shut(f, l, out) ==
    /\ flow' \in [Flow -> Locals] /\ \A g \in Flow \ {f} : flow'[g] = flow[g]
    /\ flow'[f].at = l /\ flow'[f].out = out /\ ~flow'[f].open /\ ~flow'[f].up
    /\ flow'[f].prep = flow[f].prep /\ flow'[f].rule = flow[f].rule /\ flow'[f].tcp = flow[f].tcp
    /\ sockets' \in [Flow -> Nat] /\ sockets'[f] = 0 /\ \A g \in Flow \ {f} : sockets'[g] = sockets[g]

LEMMA ShutFacts ==
    ASSUME SessionInv, NEW f \in Flow, NEW q \in Locals, CloseBoth(f, q), NEW l, NEW out, q.at = l, q.out = out,
           q.prep = flow[f].prep, q.rule = flow[f].rule, q.tcp = flow[f].tcp
    PROVE  Shut(f, l, out) /\ flow'[f].bad = q.bad
<1>1. PICK s : s = [q EXCEPT !.open = FALSE, !.up = FALSE]
  OBVIOUS
<1>2. s \in Locals
  BY <1>1 DEF Locals
<1>3. /\ s.at = q.at /\ s.prep = q.prep /\ s.rule = q.rule /\ s.tcp = q.tcp
      /\ s.out = q.out /\ s.bad = q.bad /\ ~s.open /\ ~s.up
  BY <1>1 DEF Locals
<1>4. Set(f, s)
  BY <1>1 DEF CloseBoth
<1>5. flow' \in [Flow -> Locals] /\ flow'[f] = s /\ \A g \in Flow \ {f} : flow'[g] = flow[g]
  BY <1>2, <1>4, InvNow, SetFacts
<1>6. sockets' \in [Flow -> Nat] /\ sockets'[f] = 0 /\ \A g \in Flow \ {f} : sockets'[g] = sockets[g]
  <2>1. /\ sockets \in [Flow -> Nat] /\ sockets[f] = (IF flow[f].up THEN 1 ELSE 0)
        /\ sockets' = [sockets EXCEPT ![f] = IF flow[f].up THEN @ - 1 ELSE @]
    BY InvNow DEF Held, CloseBoth
  <2> QED
    BY <2>1
<1> QED
  BY <1>3, <1>5, <1>6 DEF Shut

\* The same after an error has been noted.
LEMMA ShutFailed ==
    ASSUME SessionInv, NEW f \in Flow, NEW l \in Ends, CloseBoth(f, Settle(f, l, TRUE))
    PROVE  Shut(f, l, flow[f].out) /\ flow'[f].bad
<1>1. PICK q : q = Settle(f, l, TRUE)
  OBVIOUS
<1>2. /\ q \in Locals /\ q.at = l /\ q.prep = flow[f].prep /\ q.rule = flow[f].rule /\ q.tcp = flow[f].tcp
      /\ q.out = flow[f].out /\ q.bad
  <2>1. flow[f] \in Locals /\ TRUE \in BOOLEAN
    BY InvNow
  <2> QED
    BY <1>1, <2>1, SettleFields, Zenon
<1>3. CloseBoth(f, q)
  BY <1>1, Zenon
<1> QED
  BY <1>2, <1>3, ShutFacts

LEMMA DirectionNow ==
    ASSUME SessionInv, NEW f \in Flow, NEW k \in 1 .. 2
    PROVE  pipe[f][k] \in Direction
BY InvNow

\* One direction of one relay changes.
LEMMA PipeFacts ==
    ASSUME SessionInv, NEW f \in Flow, NEW k \in 1 .. 2, NEW d \in Direction, pipe' = [pipe EXCEPT ![f][k] = d]
    PROVE  /\ pipe' \in [Flow -> [1 .. 2 -> Direction]] /\ \A g \in Flow \ {f} : pipe'[g] = pipe[g]
           /\ pipe'[f][k] = d /\ \A j \in 1 .. 2 : j # k => pipe'[f][j] = pipe[f][j]
<1>1. pipe \in [Flow -> [1 .. 2 -> Direction]] /\ pipe[f] \in [1 .. 2 -> Direction]
  BY InvNow
<1>2. PICK t : t = [pipe[f] EXCEPT ![k] = d]
  OBVIOUS
<1>3. t \in [1 .. 2 -> Direction] /\ t[k] = d /\ \A j \in 1 .. 2 : j # k => t[j] = pipe[f][j]
  BY <1>1, <1>2
<1>4. pipe' = [pipe EXCEPT ![f] = t]
  BY <1>2
<1> QED
  BY <1>1, <1>3, <1>4

LEMMA TakenFacts ==
    ASSUME SessionInv, NEW f \in Flow, NEW k \in 1 .. 2, Taken(f, k)
    PROVE  /\ pipe' \in [Flow -> [1 .. 2 -> Direction]] /\ \A g \in Flow \ {f} : pipe'[g] = pipe[g]
           /\ pipe'[f][k].st = "taken" /\ Delivered(pipe[f][k]) = Delivered(pipe'[f][k])
           /\ \A j \in 1 .. 2 : j # k => pipe'[f][j] = pipe[f][j]
<1>1. PICK p \in Direction : p = pipe[f][k]
  BY DirectionNow
<1>2. PICK d \in Direction : d = [p EXCEPT !.st = "taken"]
  BY DEF Direction
<1>3. d.st = "taken" /\ d.fin = p.fin /\ d.got = p.got /\ d.sent = p.sent
  BY <1>2 DEF Direction
<1>4. pipe' = [pipe EXCEPT ![f][k] = d]
  BY <1>1, <1>2 DEF Taken
<1> QED
  BY <1>1, <1>3, <1>4, PipeFacts DEF Delivered

LEMMA RelaySound ==
    ASSUME SessionInv, NEW f \in Flow, flow[f].at \in {"relay", "drain", "second", "last"},
           UNCHANGED <<policy, bound, slots, refs, entered, now>>,
           flow' \in [Flow -> Locals], \A g \in Flow \ {f} : flow'[g] = flow[g],
           pipe' \in [Flow -> [1 .. 2 -> Direction]], \A g \in Flow \ {f} : pipe'[g] = pipe[g],
           sockets' \in [Flow -> Nat], \A g \in Flow \ {f} : sockets'[g] = sockets[g],
           flow'[f].at \in Ends, flow'[f].prep = flow[f].prep, flow'[f].rule = flow[f].rule,
           flow'[f].out # "rejected", sockets'[f] = IF flow'[f].up THEN 1 ELSE 0,
           flow'[f].at = "last" \/ (flow'[f].at = "drain" /\ flow'[f].tcp) => flow'[f].bad,
           Relayed(f)'
    PROVE  Sound(f) /\ flow[f].at # "asking" /\ flow'[f].at # "asking"
<1>1. Routed(policy, flow'[f])
  BY InvNow, AfterRelay DEF Ends
<1>2. SessionTypes' /\ Local(f)
  BY InvNow DEF SessionTypes, PolicyOK, BoundOK, Local
<1>3. Held(f)'
  BY InvNow DEF Held, Ends
<1> QED
  BY <1>1, <1>2, <1>3 DEF Sound, Ends

\* A flow in its relay has not returned, so nothing has been reported of it.
LEMMA NotReported ==
    ASSUME SessionInv, NEW f \in Flow, flow[f].at # "return"
    PROVE  flow[f].out \notin {"rejected", "completed"}
BY InvNow DEF Routed, Sight, Relayed

LEMMA SoundRelayFirst ==
    ASSUME SessionInv, NEW f \in Flow, RelayFirst(f)
    PROVE  Sound(f) /\ flow[f].at # "asking" /\ flow'[f].at # "asking"
<1> DEFINE r == flow[f]
<1>0. /\ r \in Locals /\ r.at = "relay" /\ r.tcp /\ Relayed(f) /\ Held(f)
      /\ UNCHANGED <<policy, bound, slots, refs, entered, now>>
      /\ sockets \in [Flow -> Nat] /\ pipe \in [Flow -> [1 .. 2 -> Direction]] /\ flow \in [Flow -> Locals]
  BY InvNow DEF RelayFirst, At, Still
<1>1. r.open /\ r.out \notin {"rejected", "completed"} /\ {"second", "drain"} \subseteq Ends
  BY <1>0, NotReported DEF Relayed, Ends
<1>2. CASE \E k \in Results(f) : Taken(f, k) /\ pipe[f][k].st = "clean" /\ Goto(f, "second") /\ UNCHANGED sockets
  <2>1. PICK k \in Results(f) : Taken(f, k) /\ pipe[f][k].st = "clean" /\ Goto(f, "second") /\ UNCHANGED sockets
    BY <1>2
  <2>2. k \in 1 .. 2
    BY DEF Results
  <2>3. Went(f, "second")
    BY <1>1, <2>1, WentFacts
  <2>6. Delivered(pipe[f][k])
    BY <1>0, <2>1, <2>2 DEF Relayed
  <2>7. /\ pipe' \in [Flow -> [1 .. 2 -> Direction]] /\ \A g \in Flow \ {f} : pipe'[g] = pipe[g]
        /\ pipe'[f][k].st = "taken" /\ Delivered(pipe'[f][k])
        /\ \A j \in 1 .. 2 : j # k => pipe'[f][j] = pipe[f][j]
    BY <2>1, <2>2, <2>6, TakenFacts
  <2>8. Relayed(f)'
    BY <1>0, <1>1, <2>2, <2>3, <2>7 DEF Relayed, Went
  <2> QED
    BY <1>0, <1>1, <2>1, <2>3, <2>7, <2>8, RelaySound DEF Held, Went
<1>3. CASE \E k \in Results(f) : Taken(f, k) /\ CloseBoth(f, Settle(f, "second", TRUE))
  <2>1. PICK k \in Results(f) : Taken(f, k) /\ CloseBoth(f, Settle(f, "second", TRUE))
    BY <1>3
  <2>2. k \in 1 .. 2
    BY DEF Results
  <2>3. Shut(f, "second", r.out) /\ flow'[f].bad
    BY <1>1, <2>1, ShutFailed
  <2>6. /\ pipe' \in [Flow -> [1 .. 2 -> Direction]] /\ \A g \in Flow \ {f} : pipe'[g] = pipe[g]
        /\ pipe'[f][k].st = "taken" /\ \A j \in 1 .. 2 : j # k => pipe'[f][j] = pipe[f][j]
    BY <2>1, <2>2, TakenFacts
  <2>7. Relayed(f)'
    BY <1>0, <1>1, <2>2, <2>3, <2>6 DEF Relayed, Shut
  <2> QED
    BY <1>0, <1>1, <2>3, <2>6, <2>7, RelaySound DEF Shut
<1>4. CASE Cancelled(f)
  <2>1. CloseBoth(f, Settle(f, "drain", TRUE)) /\ UNCHANGED pipe
    BY <1>4 DEF Cancelled
  <2>2. Shut(f, "drain", r.out) /\ flow'[f].bad
    BY <1>1, <2>1, ShutFailed
  <2>3. Relayed(f)'
    BY <1>0, <1>1, <2>1, <2>2 DEF Relayed, Shut
  <2> QED
    BY <1>0, <1>1, <2>1, <2>2, <2>3, RelaySound DEF Shut
<1> QED
  BY <1>0, <1>2, <1>3, <1>4 DEF RelayFirst

LEMMA SoundRelayDrain ==
    ASSUME SessionInv, NEW f \in Flow, RelayDrain(f)
    PROVE  Sound(f) /\ flow[f].at # "asking" /\ flow'[f].at # "asking"
<1> DEFINE r == flow[f]
<1>0. /\ r \in Locals /\ r.at = "drain" /\ r.tcp /\ Relayed(f) /\ Held(f)
      /\ UNCHANGED <<policy, bound, slots, refs, entered, now, sockets>> /\ Goto(f, "second")
      /\ sockets \in [Flow -> Nat] /\ pipe \in [Flow -> [1 .. 2 -> Direction]] /\ flow \in [Flow -> Locals]
  BY InvNow DEF RelayDrain, At, Still, held
<1>1. r.bad /\ r.out \notin {"rejected", "completed"} /\ "second" \in Ends
  BY <1>0, NotReported DEF Relayed, Ends
<1>2. PICK k \in 1 .. 2 : Taken(f, k)
  BY DEF RelayDrain, Results
<1>3. Went(f, "second")
  BY <1>0, <1>1, WentFacts
<1>6. /\ pipe' \in [Flow -> [1 .. 2 -> Direction]] /\ \A g \in Flow \ {f} : pipe'[g] = pipe[g]
      /\ pipe'[f][k].st = "taken" /\ \A j \in 1 .. 2 : j # k => pipe'[f][j] = pipe[f][j]
  BY <1>2, TakenFacts
<1>7. Relayed(f)'
  BY <1>0, <1>1, <1>3, <1>6 DEF Relayed, Went
<1> QED
  BY <1>0, <1>1, <1>3, <1>6, <1>7, RelaySound DEF Held, Went

\* A direction whose result has just been taken, with its outcome
LEMMA SoundRelaySecond ==
    ASSUME SessionInv, NEW f \in Flow, RelaySecond(f)
    PROVE  Sound(f) /\ flow[f].at # "asking" /\ flow'[f].at # "asking"
<1> DEFINE r == flow[f]
<1>0. /\ r \in Locals /\ r.at \in {"second", "last"} /\ r.tcp /\ Relayed(f) /\ Held(f)
      /\ UNCHANGED <<policy, bound, slots, refs, entered, now>>
      /\ sockets \in [Flow -> Nat] /\ pipe \in [Flow -> [1 .. 2 -> Direction]] /\ flow \in [Flow -> Locals]
  BY InvNow DEF RelaySecond, Still
<1>1. r.out \notin {"rejected", "completed"} /\ {"return", "last"} \subseteq Ends
  BY <1>0, NotReported DEF Ends
<1>2. CASE \E k \in Results(f) :
              /\ Taken(f, k)
              /\ CloseBoth(f, LET q == Settle(f, "return", pipe[f][k].st = "error")
                              IN  [q EXCEPT !.out = IF q.bad THEN "failed" ELSE "completed"])
  <2>1. PICK k \in Results(f) :
              /\ Taken(f, k)
              /\ CloseBoth(f, LET q == Settle(f, "return", pipe[f][k].st = "error")
                              IN  [q EXCEPT !.out = IF q.bad THEN "failed" ELSE "completed"])
    BY <1>2
  <2>2. k \in 1 .. 2 /\ pipe[f][k].st \in {"clean", "error", "closed"}
    BY DEF Results
  <2>3. PICK e \in BOOLEAN : e = (pipe[f][k].st = "error")
    OBVIOUS
  <2>4. PICK q : q = Settle(f, "return", e)
    OBVIOUS
  <2>5. /\ q \in Locals /\ q.at = "return" /\ q.prep = r.prep /\ q.rule = r.rule /\ q.tcp = r.tcp
        /\ (q.bad <=> r.bad \/ e)
    <3>1. "return" \in Ends /\ flow[f] \in Locals
      BY <1>0, <1>1
    <3> QED
      BY <2>4, <3>1, SettleFields, Zenon
  <2>6. PICK out \in {"failed", "completed"} : out = IF q.bad THEN "failed" ELSE "completed"
    OBVIOUS
  <2>7. PICK t : t = [q EXCEPT !.out = out]
    OBVIOUS
  <2>8. t \in Locals
    BY <2>5, <2>7 DEF Locals
  <2>9. t.at = q.at /\ t.prep = q.prep /\ t.rule = q.rule /\ t.tcp = q.tcp /\ t.bad = q.bad /\ t.out = out
    BY <2>5, <2>7 DEF Locals
  <2>10. CloseBoth(f, t)
    BY <2>1, <2>3, <2>4, <2>6, <2>7
  <2>11. Shut(f, "return", out) /\ flow'[f].bad = t.bad
    BY <2>5, <2>8, <2>9, <2>10, ShutFacts
  <2>12. /\ pipe' \in [Flow -> [1 .. 2 -> Direction]] /\ \A g \in Flow \ {f} : pipe'[g] = pipe[g]
         /\ pipe'[f][k].st = "taken" /\ Delivered(pipe[f][k]) = Delivered(pipe'[f][k])
         /\ \A j \in 1 .. 2 : j # k => pipe'[f][j] = pipe[f][j]
    BY <2>1, <2>2, TakenFacts
  <2>13. out = "completed" => \A j \in 1 .. 2 : Delivered(pipe'[f][j])
    <3> SUFFICES ASSUME out = "completed" PROVE \A j \in 1 .. 2 : Delivered(pipe'[f][j])
      OBVIOUS
    <3>1. ~r.bad /\ pipe[f][k].st # "error"
      BY <2>3, <2>5, <2>6
    <3>2. r.at = "second"
      BY <1>0, <3>1 DEF Relayed
    <3>3. r.open /\ \E j \in 1 .. 2 : pipe[f][j].st = "taken" /\ Delivered(pipe[f][j])
      BY <1>0, <3>1, <3>2 DEF Relayed
    <3>4. pipe[f][k].st = "clean"
      BY <1>0, <2>2, <3>1, <3>3 DEF Relayed
    <3>5. Delivered(pipe[f][k])
      BY <1>0, <2>2, <3>4 DEF Relayed
    <3>6. PICK j \in 1 .. 2 : pipe[f][j].st = "taken" /\ Delivered(pipe[f][j])
      BY <3>3
    <3>7. j # k /\ \A i \in 1 .. 2 : i = j \/ i = k
      BY <2>2, <3>4, <3>6
    <3> QED
      BY <2>12, <3>5, <3>6, <3>7
  <2>14. Relayed(f)'
    BY <1>0, <2>2, <2>6, <2>11, <2>12, <2>13 DEF Relayed, Shut
  <2> QED
    BY <1>0, <1>1, <2>6, <2>11, <2>12, <2>14, RelaySound DEF Shut
<1>3. CASE CloseBoth(f, Settle(f, "last", TRUE)) /\ UNCHANGED pipe
  <2>1. Shut(f, "last", r.out) /\ flow'[f].bad
    BY <1>1, <1>3, ShutFailed
  <2>2. Relayed(f)'
    BY <1>0, <1>1, <1>3, <2>1 DEF Relayed, Shut
  <2> QED
    BY <1>0, <1>1, <1>3, <2>1, <2>2, RelaySound DEF Shut
<1> QED
  BY <1>0, <1>2, <1>3 DEF RelaySecond

LEMMA SoundRelayUDP ==
    ASSUME SessionInv, NEW f \in Flow, RelayUDP(f)
    PROVE  Sound(f) /\ flow[f].at # "asking" /\ flow'[f].at # "asking"
<1> DEFINE r == flow[f]
<1>0. /\ r \in Locals /\ r.at = "relay" /\ ~r.tcp /\ Relayed(f) /\ Held(f)
      /\ UNCHANGED <<policy, bound, slots, refs, entered, now>>
      /\ sockets \in [Flow -> Nat] /\ pipe \in [Flow -> [1 .. 2 -> Direction]] /\ flow \in [Flow -> Locals]
  BY InvNow DEF RelayUDP, At, Still
<1>1. /\ \E out \in {"failed", "expired"} : CloseBoth(f, [r EXCEPT !.at = "drain", !.out = out])
      /\ UNCHANGED pipe \/ \E k \in 1 .. 2 : Taken(f, k)
  BY DEF RelayUDP, Results
<1>2. PICK out \in {"failed", "expired"} : CloseBoth(f, [r EXCEPT !.at = "drain", !.out = out])
  BY <1>1
<1>3. "drain" \in Places /\ "drain" \in Ends
  BY DEF Places, Ends
<1>4. PICK q : q = [r EXCEPT !.at = "drain", !.out = out]
  OBVIOUS
<1>5. q \in Locals
  BY <1>0, <1>3, <1>4 DEF Locals
<1>6. q.at = "drain" /\ q.prep = r.prep /\ q.rule = r.rule /\ q.tcp = r.tcp /\ q.out = out
  BY <1>0, <1>4 DEF Locals
<1>7. Shut(f, "drain", out)
  <2>1. CloseBoth(f, q)
    BY <1>2, <1>4
  <2> QED
    BY <1>5, <1>6, <2>1, ShutFacts
<1>8. /\ pipe' \in [Flow -> [1 .. 2 -> Direction]] /\ \A g \in Flow \ {f} : pipe'[g] = pipe[g]
      /\ \A j \in 1 .. 2 : pipe'[f][j] = pipe[f][j] \/ pipe'[f][j].st = "taken"
  BY <1>0, <1>1, TakenFacts
<1>9. Relayed(f)'
  BY <1>0, <1>7, <1>8 DEF Relayed, Shut
<1> QED
  BY <1>0, <1>3, <1>7, <1>8, <1>9, RelaySound DEF Shut

LEMMA SoundDrainUDP ==
    ASSUME SessionInv, NEW f \in Flow, DrainUDP(f)
    PROVE  Sound(f) /\ flow[f].at # "asking" /\ flow'[f].at # "asking"
<1> DEFINE r == flow[f]
<1>0. /\ r \in Locals /\ r.at = "drain" /\ ~r.tcp /\ Relayed(f) /\ Held(f)
      /\ UNCHANGED <<policy, bound, slots, refs, entered, now, sockets>>
      /\ sockets \in [Flow -> Nat] /\ pipe \in [Flow -> [1 .. 2 -> Direction]] /\ flow \in [Flow -> Locals]
  BY InvNow DEF DrainUDP, At, Still, held
<1>1. r.out \notin {"rejected", "completed"} /\ {"return", "drain"} \subseteq Ends
  BY <1>0, NotReported DEF Ends
<1>2. /\ flow' = flow \/ Goto(f, "return")
      /\ UNCHANGED pipe \/ \E k \in 1 .. 2 : Taken(f, k)
  BY DEF DrainUDP, Results
<1>3. /\ pipe' \in [Flow -> [1 .. 2 -> Direction]] /\ \A g \in Flow \ {f} : pipe'[g] = pipe[g]
      /\ \A j \in 1 .. 2 : pipe'[f][j] = pipe[f][j] \/ pipe'[f][j].st = "taken"
  BY <1>0, <1>2, TakenFacts
<1>4. flow' = flow \/ Went(f, "return")
  BY <1>1, <1>2, WentFacts
<1>5. Relayed(f)'
  BY <1>0, <1>1, <1>3, <1>4 DEF Relayed, Went
<1>6. CASE flow' = flow
  BY <1>0, <1>1, <1>3, <1>5, <1>6, RelaySound DEF Held
<1>7. CASE Went(f, "return")
  BY <1>0, <1>1, <1>3, <1>5, <1>7, RelaySound DEF Held, Went
<1> QED
  BY <1>4, <1>6, <1>7

\* The two ends and the copying goroutines: only a direction of the relay changes.
LEMMA PipeSound ==
    ASSUME SessionInv, NEW f \in Flow, NEW k \in 1 .. 2, NEW d \in Direction, pipe' = [pipe EXCEPT ![f][k] = d],
           UNCHANGED <<policy, bound, flow, slots, refs, entered, sockets, now>>,
           Delivered(pipe[f][k]) => Delivered(d),
           pipe[f][k].st = "taken" => d.st = "taken",
           d.st = "clean" => Delivered(d),
           d.st = "closed" => pipe[f][k].st = "closed" \/ ~flow[f].open
    PROVE  Sound(f)
<1>1. /\ pipe' \in [Flow -> [1 .. 2 -> Direction]] /\ \A g \in Flow \ {f} : pipe'[g] = pipe[g]
      /\ pipe'[f][k] = d /\ \A j \in 1 .. 2 : j # k => pipe'[f][j] = pipe[f][j]
  BY PipeFacts
<1>2. SessionTypes' /\ Local(f) /\ Routed(policy, flow'[f]) /\ Held(f)'
  BY <1>1, InvNow DEF SessionTypes, PolicyOK, BoundOK, Local, Held
<1>3. Relayed(f)'
  BY <1>1, InvNow DEF Relayed
<1> QED
  BY <1>2, <1>3 DEF Sound

LEMMA SoundPeerSends ==
    ASSUME SessionInv, NEW f \in Flow, NEW k \in 1 .. 2, PeerSends(f, k)
    PROVE  Sound(f)
<1>0. UNCHANGED <<policy, bound, flow, slots, refs, entered, sockets, now>> /\ ~pipe[f][k].fin
  BY DEF PeerSends, held
<1>1. PICK p \in Direction : p = pipe[f][k]
  BY DirectionNow
<1>2. p.st # "clean" /\ ~Delivered(p)
  BY <1>0, <1>1, InvNow DEF Relayed, Delivered
<1>3. CASE pipe' = [pipe EXCEPT ![f][k].sent = @ + 1]
  <2>1. PICK d \in Direction : d = [p EXCEPT !.sent = @ + 1]
    <3>1. PICK n \in Nat : n = p.sent + 1
      BY DEF Direction
    <3>2. [p EXCEPT !.sent = n] \in Direction
      BY DEF Direction
    <3> QED
      BY <3>1, <3>2
  <2>2. d.st = p.st
    BY <2>1 DEF Direction
  <2>3. pipe' = [pipe EXCEPT ![f][k] = d]
    BY <1>1, <1>3, <2>1
  <2> QED
    BY <1>0, <1>1, <1>2, <2>2, <2>3, PipeSound
<1>4. CASE pipe' = [pipe EXCEPT ![f][k].fin = TRUE]
  <2>1. PICK d \in Direction : d = [p EXCEPT !.fin = TRUE]
    BY DEF Direction
  <2>2. d.st = p.st
    BY <2>1 DEF Direction
  <2>3. pipe' = [pipe EXCEPT ![f][k] = d]
    BY <1>1, <1>4, <2>1
  <2> QED
    BY <1>0, <1>1, <1>2, <2>2, <2>3, PipeSound
<1> QED
  BY <1>3, <1>4 DEF PeerSends

LEMMA SoundCopy ==
    ASSUME SessionInv, NEW f \in Flow, NEW k \in 1 .. 2, Copy(f, k)
    PROVE  Sound(f) /\ UNCHANGED flow
<1>0. UNCHANGED <<policy, bound, flow, slots, refs, entered, sockets, now>> /\ pipe[f][k].st = "copy"
  BY DEF Copy, held, Still
<1>1. PICK p \in Direction : p = pipe[f][k]
  BY DirectionNow
<1>2. CASE p.got < p.sent /\ pipe' = [pipe EXCEPT ![f][k].got = @ + 1]
  <2>1. PICK d \in Direction : d = [p EXCEPT !.got = @ + 1]
    <3>1. PICK n \in Nat : n = p.got + 1
      BY DEF Direction
    <3>2. [p EXCEPT !.got = n] \in Direction
      BY DEF Direction
    <3> QED
      BY <3>1, <3>2
  <2>2. d.st = p.st
    BY <2>1 DEF Direction
  <2>3. ~Delivered(p)
    BY <1>2 DEF Delivered, Direction
  <2>4. pipe' = [pipe EXCEPT ![f][k] = d]
    BY <1>1, <1>2, <2>1
  <2> QED
    BY <1>0, <1>1, <2>2, <2>3, <2>4, PipeSound
<1>3. CASE \E st \in {"clean", "error", "closed"} :
              /\ pipe' = [pipe EXCEPT ![f][k].st = st]
              /\ (st = "clean" => p.got = p.sent /\ p.fin) /\ (st = "closed" => ~flow[f].open)
  <2>1. PICK st \in {"clean", "error", "closed"} :
              /\ pipe' = [pipe EXCEPT ![f][k].st = st]
              /\ (st = "clean" => p.got = p.sent /\ p.fin) /\ (st = "closed" => ~flow[f].open)
    BY <1>3
  <2>2. PICK d \in Direction : d = [p EXCEPT !.st = st]
    BY DEF Direction
  <2>3. d.st = st /\ d.got = p.got /\ d.sent = p.sent /\ d.fin = p.fin
    BY <2>2 DEF Direction
  <2>4. (Delivered(p) => Delivered(d)) /\ (st = "clean" => Delivered(d))
    BY <2>1, <2>3 DEF Delivered
  <2>5. pipe' = [pipe EXCEPT ![f][k] = d]
    BY <1>1, <2>1, <2>2
  <2> QED
    BY <1>0, <1>1, <2>1, <2>3, <2>4, <2>5, PipeSound
<1>4. \/ p.got < p.sent /\ pipe' = [pipe EXCEPT ![f][k].got = @ + 1]
      \/ p.got = p.sent /\ p.fin /\ pipe' = [pipe EXCEPT ![f][k].st = "clean"]
      \/ pipe' = [pipe EXCEPT ![f][k].st = "error"]
      \/ ~flow[f].open /\ pipe' = [pipe EXCEPT ![f][k].st = "closed"]
  BY <1>1 DEF Copy
<1>5. CASE p.got = p.sent /\ p.fin /\ pipe' = [pipe EXCEPT ![f][k].st = "clean"]
  <2>1. \E st \in {"clean", "error", "closed"} :
              /\ pipe' = [pipe EXCEPT ![f][k].st = st]
              /\ (st = "clean" => p.got = p.sent /\ p.fin) /\ (st = "closed" => ~flow[f].open)
    <3> WITNESS "clean" \in {"clean", "error", "closed"}
    <3> QED
      BY <1>5
  <2> QED
    BY <1>0, <1>3, <2>1
<1>6. CASE pipe' = [pipe EXCEPT ![f][k].st = "error"]
  <2>1. \E st \in {"clean", "error", "closed"} :
              /\ pipe' = [pipe EXCEPT ![f][k].st = st]
              /\ (st = "clean" => p.got = p.sent /\ p.fin) /\ (st = "closed" => ~flow[f].open)
    <3> WITNESS "error" \in {"clean", "error", "closed"}
    <3> QED
      BY <1>6
  <2> QED
    BY <1>0, <1>3, <2>1
<1>7. CASE ~flow[f].open /\ pipe' = [pipe EXCEPT ![f][k].st = "closed"]
  <2>1. \E st \in {"clean", "error", "closed"} :
              /\ pipe' = [pipe EXCEPT ![f][k].st = st]
              /\ (st = "clean" => p.got = p.sent /\ p.fin) /\ (st = "closed" => ~flow[f].open)
    <3> WITNESS "closed" \in {"clean", "error", "closed"}
    <3> QED
      BY <1>7
  <2> QED
    BY <1>0, <1>3, <2>1
<1> QED
  BY <1>0, <1>2, <1>4, <1>5, <1>6, <1>7

----------------------------------------------------------------------------
(* Admission and the way out *)

\* NoFlow has no decision to honour.
LEMMA FreshRouted ==
    ASSUME NEW s \in Locals, s.prep = Unprepared, s.hard = {}, ~s.asked, s.out # "rejected",
           s.at \in {"endpoint", "acquire", "leave", "done"}
    PROVE  Routed(policy, s)
BY EmptyTyped DEF Routed, Prepared, Heading, Blame, Sight, Looking, Dialling

LEMMA SoundArrive ==
    ASSUME SessionInv, NEW f \in Flow, Arrive(f)
    PROVE  /\ Sound(f) /\ flow[f].at = "idle" /\ flow'[f].at # "asking"
           /\ slots' = slots \/ (slots' = slots \cup {f} /\ ~(Cardinality(slots) >= MaxTCPFlows))
<1>0. /\ flow[f].at = "idle" /\ UNCHANGED <<policy, bound, pipe, refs, entered, sockets, now>>
      /\ Held(f) /\ Relayed(f)
  BY InvNow DEF Arrive, At, Still
<1>1. PICK a \in Addr, packet \in bound.arrive[f] :
         LET tcp == packet[1]
             d == packet[2]
         IN  IF tcp /\ Cardinality(slots) >= MaxTCPFlows
             THEN Set(f, [NoFlow EXCEPT !.at = "done", !.out = "refused"]) /\ UNCHANGED slots
             ELSE /\ d # Literal => a = CHOOSE x \in Addr : TRUE
                  /\ Set(f, [NoFlow EXCEPT !.at = "endpoint", !.tcp = tcp, !.dom = d,
                                           !.dest = IF d = Literal THEN a ELSE None])
                  /\ slots' = IF tcp THEN slots \cup {f} ELSE slots
  BY DEF Arrive
<1>2. PICK tcp \in BOOLEAN, d \in Domain \cup {Literal} : tcp = packet[1] /\ d = packet[2]
  <2>1. packet \in BOOLEAN \X (Domain \cup {Literal})
    BY InvNow DEF BoundOK
  <2> QED
    BY <2>1
<1>3. PICK n \in Locals : n = NoFlow
  BY NoFlowTyped
<1>4. n.prep = Unprepared /\ n.hard = {} /\ ~n.asked /\ n.out \notin {"rejected", "completed"} /\ ~n.up /\ n.open
  BY <1>3 DEF NoFlow, None
<1>5. {"endpoint", "done"} \subseteq Places
  BY DEF Places
<1>6. CASE Set(f, [NoFlow EXCEPT !.at = "done", !.out = "refused"]) /\ UNCHANGED slots
  <2>1. PICK s : s = [n EXCEPT !.at = "done", !.out = "refused"]
    OBVIOUS
  <2>2. s \in Locals
    BY <1>5, <2>1 DEF Locals
  <2>3. /\ s.at = "done" /\ s.out = "refused" /\ s.prep = n.prep /\ s.hard = n.hard /\ s.asked = n.asked
        /\ s.up = n.up /\ s.open = n.open
    BY <2>1 DEF Locals
  <2>4. flow' \in [Flow -> Locals] /\ flow'[f] = s /\ \A g \in Flow \ {f} : flow'[g] = flow[g]
    BY <1>3, <1>6, <2>1, <2>2, InvNow, SetFacts
  <2>5. SessionTypes' /\ Local(f)
    BY <1>0, <1>6, <2>4, InvNow DEF SessionTypes, PolicyOK, BoundOK, Local
  <2>6. Routed(policy, s)
    BY <1>4, <2>2, <2>3, FreshRouted
  <2>7. Held(f)' /\ Relayed(f)'
    BY <1>0, <1>4, <1>6, <2>3, <2>4 DEF Held, Relayed
  <2> QED
    BY <1>0, <1>6, <2>3, <2>4, <2>5, <2>6, <2>7 DEF Sound
<1>7. CASE /\ Set(f, [NoFlow EXCEPT !.at = "endpoint", !.tcp = tcp, !.dom = d, !.dest = IF d = Literal THEN a ELSE None])
           /\ slots' = (IF tcp THEN slots \cup {f} ELSE slots) /\ ~(tcp /\ Cardinality(slots) >= MaxTCPFlows)
  <2>1. PICK dest \in Addr \cup {None} : dest = IF d = Literal THEN a ELSE None
    OBVIOUS
  <2>2. PICK s : s = [n EXCEPT !.at = "endpoint", !.tcp = tcp, !.dom = d, !.dest = dest]
    OBVIOUS
  <2>3. s \in Locals
    <3>1. PICK m : m = [n EXCEPT !.at = "endpoint", !.tcp = tcp]
      OBVIOUS
    <3>2. m \in Locals
      BY <1>5, <3>1 DEF Locals
    <3>3. PICK t : t = [m EXCEPT !.dom = d, !.dest = dest]
      OBVIOUS
    <3>4. t \in Locals
      BY <3>2, <3>3 DEF Locals
    <3>5. s = t
      BY <2>2, <3>1, <3>3
    <3> QED
      BY <3>4, <3>5
  <2>4. /\ s.at = "endpoint" /\ s.out = n.out /\ s.prep = n.prep /\ s.hard = n.hard /\ s.asked = n.asked
        /\ s.up = n.up /\ s.open = n.open
    BY <2>2 DEF Locals
  <2>5. flow' \in [Flow -> Locals] /\ flow'[f] = s /\ \A g \in Flow \ {f} : flow'[g] = flow[g]
    BY <1>3, <1>7, <2>1, <2>2, <2>3, InvNow, SetFacts
  <2>6. SessionTypes' /\ Local(f)
    BY <1>0, <1>7, <2>5, InvNow DEF SessionTypes, PolicyOK, BoundOK, Local
  <2>7. Routed(policy, s)
    BY <1>4, <2>3, <2>4, FreshRouted
  <2>8. Held(f)' /\ Relayed(f)'
    BY <1>0, <1>4, <1>7, <2>4, <2>5 DEF Held, Relayed
  <2>9. slots' = slots \/ (slots' = slots \cup {f} /\ ~(Cardinality(slots) >= MaxTCPFlows))
    BY <1>7
  <2> QED
    BY <1>0, <2>4, <2>5, <2>6, <2>7, <2>8, <2>9 DEF Sound
<1> QED
  BY <1>1, <1>2, <1>6, <1>7

LEMMA SoundEndpoint ==
    ASSUME SessionInv, NEW f \in Flow, Endpoint(f)
    PROVE  /\ Sound(f) /\ flow[f].at = "endpoint" /\ flow'[f].at # "asking"
           /\ slots' \in {slots, slots \ {f}}
<1> DEFINE r == flow[f]
<1>0. /\ r \in Locals /\ r.at = "endpoint" /\ UNCHANGED <<policy, bound, pipe, refs, sockets, now>>
      /\ Held(f) /\ Relayed(f) /\ Routed(policy, r)
  BY InvNow DEF Endpoint, At, Still
<1>1. {"acquire", "done"} \subseteq Places
  BY DEF Places
<1>2. CASE Goto(f, "acquire") /\ entered' = entered \cup {f} /\ UNCHANGED slots
  <2>1. PICK s : s = [r EXCEPT !.at = "acquire"]
    OBVIOUS
  <2>2. s \in Locals
    BY <1>0, <1>1, <2>1 DEF Locals
  <2>3. /\ s.at = "acquire" /\ s.out = r.out /\ s.prep = r.prep /\ s.hard = r.hard /\ s.rule = r.rule
        /\ s.up = r.up /\ s.open = r.open
    BY <1>0, <2>1 DEF Locals
  <2>4. flow' \in [Flow -> Locals] /\ flow'[f] = s /\ \A g \in Flow \ {f} : flow'[g] = flow[g]
    BY <1>2, <2>1, <2>2, InvNow, SetFacts DEF Goto
  <2>5. SessionTypes' /\ Local(f)
    BY <1>0, <1>2, <2>4, InvNow DEF SessionTypes, PolicyOK, BoundOK, Local
  <2>6. Routed(policy, s)
    BY <1>0, <2>3 DEF Routed, Prepared, Heading, Blame, Sight, Looking, Dialling
  <2>7. Held(f)' /\ Relayed(f)'
    BY <1>0, <1>2, <2>3, <2>4 DEF Held, Relayed
  <2> QED
    BY <1>0, <1>2, <2>3, <2>4, <2>5, <2>6, <2>7 DEF Sound
<1>3. CASE /\ Set(f, [r EXCEPT !.at = "done", !.out = "refused"])
           /\ slots' = slots \ {f} /\ UNCHANGED entered
  <2>1. PICK s : s = [r EXCEPT !.at = "done", !.out = "refused"]
    OBVIOUS
  <2>2. s \in Locals
    BY <1>0, <1>1, <2>1 DEF Locals
  <2>3. /\ s.at = "done" /\ s.out = "refused" /\ s.prep = r.prep /\ s.hard = r.hard /\ s.rule = r.rule
        /\ s.up = r.up /\ s.open = r.open
    BY <1>0, <2>1 DEF Locals
  <2>4. flow' \in [Flow -> Locals] /\ flow'[f] = s /\ \A g \in Flow \ {f} : flow'[g] = flow[g]
    BY <1>3, <2>1, <2>2, InvNow, SetFacts
  <2>5. SessionTypes' /\ Local(f)
    BY <1>0, <1>3, <2>4, InvNow DEF SessionTypes, PolicyOK, BoundOK, Local
  <2>6. Routed(policy, s)
    BY <1>0, <2>3 DEF Routed, Prepared, Heading, Blame, Sight, Looking, Dialling
  <2>7. Held(f)' /\ Relayed(f)'
    BY <1>0, <1>3, <2>3, <2>4 DEF Held, Relayed
  <2> QED
    BY <1>0, <1>3, <2>3, <2>4, <2>5, <2>6, <2>7 DEF Sound
<1> QED
  BY <1>0, <1>2, <1>3 DEF Endpoint

LEMMA SoundHandlerReturns ==
    ASSUME SessionInv, NEW f \in Flow, HandlerReturns(f)
    PROVE  Sound(f) /\ flow[f].at = "return" /\ flow'[f].at # "asking"
<1> DEFINE r == flow[f]
<1>0. /\ r \in Locals /\ r.at = "return" /\ UNCHANGED <<policy, bound, pipe, slots, entered, now>>
      /\ Held(f) /\ Relayed(f) /\ refs' = refs \ {f} /\ sockets \in [Flow -> Nat]
      /\ sockets' = [sockets EXCEPT ![f] = IF r.up THEN @ - 1 ELSE @]
      /\ Set(f, [Over(r) EXCEPT !.at = "leave", !.up = FALSE])
  BY InvNow DEF HandlerReturns, At, Still
<1>1. PICK n \in Locals : n = NoFlow
  BY NoFlowTyped
<1>2. n.prep = Unprepared /\ n.hard = {} /\ ~n.asked /\ n.out \notin {"rejected", "completed"} /\ ~n.bad
  BY <1>1 DEF NoFlow, None
<1>3. "leave" \in Places
  BY DEF Places
<1>4. PICK o : o = [n EXCEPT !.at = r.at, !.tcp = r.tcp, !.up = r.up, !.open = r.open]
  OBVIOUS
<1>5. o \in Locals
  <2>1. r.at \in Places /\ r.tcp \in BOOLEAN /\ r.up \in BOOLEAN /\ r.open \in BOOLEAN
    BY <1>0 DEF Locals
  <2> QED
    BY <1>4, <2>1 DEF Locals
<1>6. o.prep = n.prep /\ o.hard = n.hard /\ o.asked = n.asked /\ o.out = n.out /\ o.tcp = r.tcp /\ o.open = r.open
  BY <1>4 DEF Locals
<1>7. PICK s : s = [o EXCEPT !.at = "leave", !.up = FALSE]
  OBVIOUS
<1>8. s \in Locals
  BY <1>3, <1>5, <1>7 DEF Locals
<1>9. /\ s.at = "leave" /\ ~s.up /\ s.prep = o.prep /\ s.hard = o.hard /\ s.asked = o.asked /\ s.out = o.out
      /\ s.tcp = o.tcp /\ s.open = o.open
  BY <1>5, <1>7 DEF Locals
<1>10. Set(f, s)
  BY <1>0, <1>1, <1>4, <1>7 DEF Over
<1>11. flow' \in [Flow -> Locals] /\ flow'[f] = s /\ \A g \in Flow \ {f} : flow'[g] = flow[g]
  BY <1>8, <1>10, InvNow, SetFacts
<1>12. sockets' \in [Flow -> Nat] /\ sockets'[f] = 0 /\ \A g \in Flow \ {f} : sockets'[g] = sockets[g]
  BY <1>0 DEF Held
<1>13. SessionTypes' /\ Local(f)
  BY <1>0, <1>11, <1>12, InvNow DEF SessionTypes, PolicyOK, BoundOK, Local
<1>14. Routed(policy, s)
  BY <1>2, <1>6, <1>8, <1>9, FreshRouted
<1>15. Held(f)' /\ Relayed(f)'
  BY <1>0, <1>2, <1>6, <1>9, <1>11, <1>12 DEF Held, Relayed
<1> QED
  BY <1>0, <1>9, <1>11, <1>13, <1>14, <1>15 DEF Sound

LEMMA QuietTyped ==
    <<Quiet, Quiet>> \in [1 .. 2 -> Direction] /\ \A k \in 1 .. 2 : <<Quiet, Quiet>>[k].st = "copy"
<1>1. Quiet \in Direction /\ Quiet.st = "copy"
  BY DEF Quiet, Direction
<1> QED
  BY <1>1

LEMMA SoundLeave ==
    ASSUME SessionInv, NEW f \in Flow, Leave(f)
    PROVE  /\ Sound(f) /\ flow[f].at = "leave" /\ flow'[f].at # "asking"
           /\ slots' = slots \ {f}
<1> DEFINE r == flow[f]
<1>0. /\ r \in Locals /\ r.at = "leave" /\ UNCHANGED <<policy, bound, refs, sockets, now>>
      /\ Held(f) /\ Relayed(f) /\ Routed(policy, r) /\ entered' = entered \ {f} /\ slots' = slots \ {f}
      /\ pipe' = [pipe EXCEPT ![f] = <<Quiet, Quiet>>] /\ pipe \in [Flow -> [1 .. 2 -> Direction]]
      /\ Set(f, [r EXCEPT !.at = "done", !.open = FALSE])
  BY InvNow DEF Leave, At, Still
<1>1. r.out \notin {"rejected", "completed"}
  BY <1>0, NotReported
<1>2. "done" \in Places
  BY DEF Places
<1>3. PICK s : s = [r EXCEPT !.at = "done", !.open = FALSE]
  OBVIOUS
<1>4. s \in Locals
  BY <1>0, <1>2, <1>3 DEF Locals
<1>5. /\ s.at = "done" /\ s.up = r.up /\ s.prep = r.prep /\ s.hard = r.hard /\ s.rule = r.rule /\ s.out = r.out
      /\ ~s.open
  BY <1>0, <1>3 DEF Locals
<1>6. flow' \in [Flow -> Locals] /\ flow'[f] = s /\ \A g \in Flow \ {f} : flow'[g] = flow[g]
  BY <1>0, <1>3, <1>4, InvNow, SetFacts
<1>7. PICK quiet \in [1 .. 2 -> Direction] : quiet = <<Quiet, Quiet>> /\ \A k \in 1 .. 2 : quiet[k].st = "copy"
  BY QuietTyped
<1>8. pipe' \in [Flow -> [1 .. 2 -> Direction]] /\ pipe'[f] = quiet /\ \A g \in Flow \ {f} : pipe'[g] = pipe[g]
  BY <1>0, <1>7
<1>9. SessionTypes' /\ Local(f)
  BY <1>0, <1>6, <1>8, InvNow DEF SessionTypes, PolicyOK, BoundOK, Local
<1>10. Routed(policy, s)
  BY <1>0, <1>1, <1>5 DEF Routed, Prepared, Heading, Blame, Sight, Looking, Dialling, Allowed
<1>11. Held(f)'
  BY <1>0, <1>5, <1>6 DEF Held
<1>12. Relayed(f)'
  BY <1>1, <1>5, <1>6, <1>7, <1>8 DEF Relayed
<1> QED
  BY <1>0, <1>5, <1>6, <1>9, <1>10, <1>11, <1>12 DEF Sound

----------------------------------------------------------------------------
(* What flows share: slots, the resolvers' limits and caches *)

LEMMA SlottedStep ==
    ASSUME SessionInv, NEW f \in Flow,
           \/ slots' \in {slots, slots \ {f}}
           \/ slots' = slots \cup {f} /\ ~(Cardinality(slots) >= MaxTCPFlows)
    PROVE  Slotted'
<1>1. IsFiniteSet(slots) /\ Cardinality(slots) <= MaxTCPFlows /\ Cardinality(slots) \in Nat /\ MaxTCPFlows \in Nat
  BY FS_CardinalityType, SessionAssumption DEF SessionInv, Slotted
<1>2. CASE slots' \in {slots, slots \ {f}}
  <2>0. slots' \in SUBSET slots
    BY <1>2
  <2>1. IsFiniteSet(slots') /\ Cardinality(slots') <= Cardinality(slots) /\ Cardinality(slots') \in Nat
    BY <1>1, <2>0, FS_Subset, FS_CardinalityType
  <2> QED
    BY <1>1, <2>1 DEF Slotted
<1>3. CASE slots' = slots \cup {f} /\ ~(Cardinality(slots) >= MaxTCPFlows)
  <2>1. /\ IsFiniteSet(slots \cup {f})
        /\ Cardinality(slots \cup {f}) = IF f \in slots THEN Cardinality(slots) ELSE Cardinality(slots) + 1
    BY <1>1, FS_AddElement
  <2>2. Cardinality(slots \cup {f}) <= MaxTCPFlows
    BY <1>1, <1>3, <2>1
  <2> QED
    BY <1>3, <2>1, <2>2 DEF Slotted
<1> QED
  BY <1>2, <1>3

\* A flow that neither asks nor asked leaves the resolvers' limits alone.
LEMMA CountedSame ==
    ASSUME SessionInv, NEW f \in Flow, Local(f), UNCHANGED asking,
           flow'[f] = flow[f] \/ (flow[f].at # "asking" /\ flow'[f].at # "asking")
    PROVE  Counted'
<1>1. ASSUME NEW o \in Outbound PROVE Askers(o)' = Askers(o)
  BY DEF Askers, Local
<1> QED
  BY <1>1 DEF SessionInv, Counted

LEMMA CountedUp ==
    ASSUME SessionInv, NEW f \in Flow, Local(f), NEW c \in Outbound, flow[f].at # "asking",
           flow'[f].at = "asking", flow'[f].cur = c, ~(asking[c] >= MaxConcurrent),
           asking' = [asking EXCEPT ![c] = @ + 1]
    PROVE  Counted'
<1>0. asking \in [Outbound -> Nat] /\ MaxConcurrent \in Nat
  BY SessionAssumption DEF SessionInv, Counted
<1>1. asking' \in [Outbound -> Nat] /\ asking'[c] = asking[c] + 1 /\ \A o \in Outbound \ {c} : asking'[o] = asking[o]
  BY <1>0
<1>2. \A o \in Outbound : IsFiniteSet(Askers(o)) /\ asking[o] = Cardinality(Askers(o)) /\ asking[o] <= MaxConcurrent
  BY DEF SessionInv, Counted
<1>3. ASSUME NEW o \in Outbound, o # c PROVE Askers(o)' = Askers(o)
  BY <1>3 DEF Askers, Local
<1>4. Askers(c)' = Askers(c) \cup {f} /\ f \notin Askers(c)
  BY DEF Askers, Local
<1>5. IsFiniteSet(Askers(c)') /\ Cardinality(Askers(c)') = asking[c] + 1
  BY <1>2, <1>4, FS_AddElement
<1>6. asking'[c] <= MaxConcurrent
  BY <1>0, <1>1
<1> QED
  BY <1>1, <1>2, <1>3, <1>5, <1>6 DEF Counted

LEMMA CountedDown ==
    ASSUME SessionInv, NEW f \in Flow, Local(f), NEW c \in Outbound, flow[f].at = "asking", flow[f].cur = c,
           flow'[f].at # "asking", asking' = [asking EXCEPT ![c] = @ - 1]
    PROVE  Counted'
<1>0. asking \in [Outbound -> Nat] /\ MaxConcurrent \in Nat
  BY SessionAssumption DEF SessionInv, Counted
<1>1. \A o \in Outbound : IsFiniteSet(Askers(o)) /\ asking[o] = Cardinality(Askers(o)) /\ asking[o] <= MaxConcurrent
  BY DEF SessionInv, Counted
<1>2. ASSUME NEW o \in Outbound, o # c PROVE Askers(o)' = Askers(o)
  BY <1>2 DEF Askers, Local
<1>3. Askers(c)' = Askers(c) \ {f} /\ f \in Askers(c)
  BY DEF Askers, Local
<1>4. IsFiniteSet(Askers(c)') /\ Cardinality(Askers(c)') = asking[c] - 1 /\ Cardinality(Askers(c)') \in Nat
  BY <1>1, <1>3, FS_RemoveElement, FS_CardinalityType
<1>5. asking' \in [Outbound -> Nat] /\ asking'[c] = asking[c] - 1 /\ \A o \in Outbound \ {c} : asking'[o] = asking[o]
  BY <1>0, <1>4
<1>6. asking'[c] <= MaxConcurrent
  BY <1>0, <1>1, <1>5
<1> QED
  BY <1>1, <1>2, <1>4, <1>5, <1>6 DEF Counted

LEMMA CachedSame == SessionInv /\ UNCHANGED cache => Cached'
BY DEF SessionInv, Cached

\* One cache is replaced.
LEMMA CachedOne ==
    ASSUME SessionInv, NEW o \in Outbound, NEW c, CacheOK(o, c), cache' = [cache EXCEPT ![o] = c]
    PROVE  Cached'
<1>1. cache = [x \in Outbound |-> cache[x]] /\ \A x \in Outbound : CacheOK(x, cache[x])
  BY DEF SessionInv, Cached
<1>2. cache' = [x \in Outbound |-> cache'[x]]
  BY <1>1
<1>3. cache'[o] = c /\ \A x \in Outbound \ {o} : cache'[x] = cache[x]
  BY <1>1
<1> QED
  BY <1>1, <1>2, <1>3 DEF Cached

LEMMA CachedLookup ==
    ASSUME SessionInv, NEW f \in Flow, Lookup(f), flow[f].cur \in Outbound
    PROVE  Cached'
<1>1. PICK o \in Outbound : o = flow[f].cur
  OBVIOUS
<1>2. PICK c : c = cache[o]
  OBVIOUS
<1>3. CacheOK(o, c)
  BY <1>2 DEF SessionInv, Cached
<1>4. PICK S : S = {d \in DOMAIN c : d = flow[f].dom => now < c[d].until}
  OBVIOUS
<1>5. PICK e : e = [d \in S |-> c[d]]
  OBVIOUS
<1>6. cache' = [cache EXCEPT ![o] = e]
  BY <1>1, <1>2, <1>4, <1>5 DEF Lookup
<1>7. IsFiniteSet(S) /\ Cardinality(S) <= Cardinality(DOMAIN c) /\ Cardinality(S) \in Nat
      /\ Cardinality(DOMAIN c) \in Nat
  BY <1>3, <1>4, FS_Subset, FS_CardinalityType DEF CacheOK
<1>8. CacheOK(o, e)
  BY <1>3, <1>4, <1>5, <1>7, SessionAssumption DEF CacheOK
<1> QED
  BY <1>6, <1>8, CachedOne

\* store evicts one entry at the limit, and only one comes in.
LEMMA StoredOK ==
    ASSUME NEW o \in Outbound, NEW c, CacheOK(o, c), NEW d, NEW entry \in Entry, entry.addrs.by = o
    PROVE  CacheOK(o, Stored(c, d, entry))
<1> DEFINE full == Cardinality(DOMAIN c) >= MaxCache
           oldest == CHOOSE x \in DOMAIN c : \A y \in DOMAIN c : c[x].until <= c[y].until
           kept == IF full THEN DOMAIN c \ {oldest} ELSE DOMAIN c
<1>0. /\ IsFiniteSet(DOMAIN c) /\ Cardinality(DOMAIN c) <= MaxCache /\ Cardinality(DOMAIN c) \in Nat
      /\ MaxCache \in Nat \ {0} /\ \A x \in DOMAIN c : c[x] \in Entry /\ c[x].addrs.by = o
  BY FS_CardinalityType, SessionAssumption DEF CacheOK
<1>1. full => oldest \in DOMAIN c
  <2> SUFFICES ASSUME full PROVE oldest \in DOMAIN c
    OBVIOUS
  <2>1. DOMAIN c # {}
    BY <1>0, FS_EmptySet
  <2>2. PICK U : U = {c[x].until : x \in DOMAIN c}
    OBVIOUS
  <2>3. U \in SUBSET Nat /\ U # {}
    BY <1>0, <2>1, <2>2 DEF Entry
  <2>4. PICK u \in U : \A v \in U : u <= v
    BY <2>3, Smallest
  <2>5. \E x \in DOMAIN c : \A y \in DOMAIN c : c[x].until <= c[y].until
    BY <2>2, <2>4
  <2> QED
    BY <2>5
<1>2. /\ IsFiniteSet(kept) /\ Cardinality(kept) \in Nat /\ Cardinality(kept) + 1 <= MaxCache
      /\ kept \subseteq DOMAIN c
  <2>1. CASE full
    <3>1. /\ IsFiniteSet(DOMAIN c \ {oldest}) /\ Cardinality(DOMAIN c \ {oldest}) \in Nat
          /\ Cardinality(DOMAIN c \ {oldest}) = Cardinality(DOMAIN c) - 1
      <4> HIDE DEF oldest
      <4> QED
        BY <1>0, <1>1, <2>1, FS_RemoveElement, FS_CardinalityType
    <3>2. kept = DOMAIN c \ {oldest}
      BY <2>1
    <3> HIDE DEF kept, oldest
    <3> QED
      BY <1>0, <3>1, <3>2
  <2>2. CASE ~full
    BY <1>0, <2>2
  <2> QED
    BY <2>1, <2>2
<1>3. Stored(c, d, entry) = [x \in kept \cup {d} |-> IF x = d THEN entry ELSE c[x]]
  BY DEF Stored
<1> HIDE DEF kept
<1>4. IsFiniteSet(kept \cup {d}) /\ Cardinality(kept \cup {d}) <= MaxCache
  <2>1. /\ IsFiniteSet(kept \cup {d})
        /\ Cardinality(kept \cup {d}) = IF d \in kept THEN Cardinality(kept) ELSE Cardinality(kept) + 1
    BY <1>2, FS_AddElement
  <2> QED
    BY <1>0, <1>2, <2>1
<1> QED
  BY <1>0, <1>2, <1>3, <1>4 DEF CacheOK

LEMMA CachedAnswered ==
    ASSUME SessionInv, NEW f \in Flow, Answered(f), flow[f].cur \in Outbound
    PROVE  Cached'
<1>1. PICK o \in Outbound : o = flow[f].cur
  OBVIOUS
<1>2. CASE \E A \in bound.answers, ttl \in bound.ttls :
              cache' = [cache EXCEPT ![o] =
                          Stored(@, flow[f].dom, [addrs |-> [set |-> A, by |-> o], until |-> now + ttl])]
  <2>1. PICK A \in bound.answers, ttl \in bound.ttls :
              cache' = [cache EXCEPT ![o] =
                          Stored(@, flow[f].dom, [addrs |-> [set |-> A, by |-> o], until |-> now + ttl])]
    BY <1>2
  <2>2. A \in SUBSET (Addr \cup {None}) /\ ttl \in Nat /\ now \in Nat
    BY InvNow DEF BoundOK
  <2>3. PICK answer \in AddrsType : answer = [set |-> A, by |-> o] /\ answer.by = o
    <3>1. [set |-> A, by |-> o] \in AddrsType
      BY <2>2 DEF AddrsType
    <3> QED
      BY <3>1
  <2>4. PICK u \in Nat : u = now + ttl
    BY <2>2
  <2>5. PICK entry \in Entry : entry = [addrs |-> answer, until |-> u] /\ entry.addrs.by = o
    <3>1. [addrs |-> answer, until |-> u] \in Entry
      BY DEF Entry
    <3> QED
      BY <2>3, <3>1
  <2>6. PICK e : e = Stored(cache[o], flow[f].dom, entry)
    OBVIOUS
  <2>7. cache' = [cache EXCEPT ![o] = e]
    BY <2>1, <2>3, <2>4, <2>5, <2>6
  <2>8. CacheOK(o, cache[o])
    BY DEF SessionInv, Cached
  <2>9. CacheOK(o, e)
    BY <2>5, <2>6, <2>8, StoredOK
  <2> QED
    BY <2>7, <2>9, CachedOne
<1>3. CASE UNCHANGED cache
  BY <1>3, CachedSame
<1> QED
  BY <1>1, <1>2, <1>3 DEF Answered

----------------------------------------------------------------------------
(* The invariant *)

LEMMA SessionInvInit == SessionInit => SessionInv
<1> SUFFICES ASSUME SessionInit PROVE SessionInv
  OBVIOUS
<1>1. PICK s \in Scenarios : ValidFallbacks(s.policy) /\ policy = s.policy /\ bound = s.bound
  BY DEF SessionInit
<1>2. PolicyOK /\ BoundOK
  BY <1>1, SessionAssumption DEF PolicyOK, BoundOK, ValidFallbacks
<1>3. PICK n \in Locals : n = NoFlow
  BY NoFlowTyped
<1>4. /\ n.at = "idle" /\ n.prep.out = None /\ n.out \notin {"rejected", "completed"} /\ n.hard = {} /\ ~n.up /\ n.open /\ ~n.bad
  BY <1>3 DEF NoFlow, Unprepared, None
<1>5. PICK q \in [1 .. 2 -> Direction] : q = <<Quiet, Quiet>> /\ \A k \in 1 .. 2 : q[k].st = "copy"
  BY QuietTyped
<1>6. /\ flow \in [Flow -> Locals] /\ pipe \in [Flow -> [1 .. 2 -> Direction]] /\ sockets \in [Flow -> Nat]
      /\ slots = {} /\ refs = {} /\ entered = {} /\ now \in Nat
      /\ \A f \in Flow : flow[f] = n /\ pipe[f] = q /\ sockets[f] = 0
  BY <1>3, <1>5 DEF SessionInit
<1>7. SessionTypes
  BY <1>2, <1>6 DEF SessionTypes
<1>8. Routed(policy, n)
  BY <1>4 DEF Routed, Prepared, Heading, Blame, Sight, Looking, Dialling
<1>9. \A f \in Flow : Held(f) /\ Relayed(f)
  BY <1>4, <1>5, <1>6 DEF Held, Relayed
<1>10. Cached
  <2>1. IsFiniteSet({}) /\ Cardinality({}) = 0
    BY FS_EmptySet
  <2>2. \A o \in Outbound : CacheOK(o, <<>>)
    BY <2>1, SessionAssumption DEF CacheOK
  <2> QED
    BY <2>2 DEF SessionInit, Cached
<1>11. Counted
  <2>1. asking = [o \in Outbound |-> 0] /\ MaxConcurrent \in Nat
    BY SessionAssumption DEF SessionInit
  <2>2. \A o \in Outbound : Askers(o) = {}
    BY <1>4, <1>6 DEF Askers
  <2> QED
    BY <2>1, <2>2, FS_EmptySet DEF Counted
<1>12. Slotted
  BY <1>6, FS_EmptySet, SessionAssumption DEF Slotted
<1> QED
  BY <1>6, <1>7, <1>8, <1>9, <1>10, <1>11, <1>12 DEF SessionInv

\* What one flow does leaves the others as they were.
LEMMA Combined ==
    ASSUME SessionInv, NEW f \in Flow, Sound(f), Cached', Counted', Slotted'
    PROVE  SessionInv'
<1>1. SessionTypes' /\ Local(f) /\ policy' = policy /\ Routed(policy, flow'[f]) /\ Held(f)' /\ Relayed(f)'
  BY DEF Sound, Local
<1>2. ASSUME NEW g \in Flow, g # f PROVE Routed(policy, flow'[g]) /\ Held(g)' /\ Relayed(g)'
  <2>1. Routed(policy, flow[g]) /\ Held(g) /\ Relayed(g)
    BY DEF SessionInv
  <2>2. /\ flow'[g] = flow[g] /\ pipe'[g] = pipe[g] /\ sockets'[g] = sockets[g]
        /\ (g \in slots' <=> g \in slots) /\ (g \in refs' <=> g \in refs) /\ (g \in entered' <=> g \in entered)
    BY <1>1, <1>2 DEF Local
  <2>3. Held(g)'
    BY <2>1, <2>2 DEF Held
  <2>4. Relayed(g)'
    BY <2>1, <2>2 DEF Relayed
  <2> QED
    BY <2>1, <2>2, <2>3, <2>4
<1>3. \A g \in Flow : Routed(policy', flow'[g]) /\ Held(g)' /\ Relayed(g)'
  BY <1>1, <1>2
<1> QED
  BY <1>1, <1>3 DEF SessionInv

\* The same for a step that keeps to the flow's own state and asks no server.
LEMMA Alone ==
    ASSUME SessionInv, NEW f \in Flow, Sound(f), UNCHANGED shared,
           flow'[f] = flow[f] \/ (flow[f].at # "asking" /\ flow'[f].at # "asking"),
           \/ slots' \in {slots, slots \ {f}}
           \/ slots' = slots \cup {f} /\ ~(Cardinality(slots) >= MaxTCPFlows)
    PROVE  SessionInv'
<1>1. UNCHANGED cache /\ UNCHANGED asking /\ Local(f)
  BY DEF shared, Sound
<1>2. Cached'
  BY <1>1, CachedSame
<1>3. Counted'
  BY <1>1, CountedSame
<1>4. Slotted'
  BY SlottedStep
<1> QED
  BY <1>2, <1>3, <1>4, Combined

LEMMA FlowStepInv ==
    ASSUME SessionInv, NEW f \in Flow, FlowStep(f)
    PROVE  SessionInv'
<1>1. CASE Endpoint(f)
  <2>1. Sound(f) /\ slots' \in {slots, slots \ {f}} /\ flow[f].at # "asking" /\ flow'[f].at # "asking"
    BY <1>1, SoundEndpoint
  <2> QED
    BY <1>1, <2>1, Alone DEF Endpoint
<1>2. CASE Acquire(f)
  <2>1. Sound(f) /\ flow[f].at # "asking" /\ flow'[f].at # "asking"
    BY <1>2, SoundAcquire
  <2> QED
    BY <1>2, <2>1, Alone DEF Acquire, held
<1>3. CASE Lookup(f)
  <2>1. /\ Sound(f) /\ Local(f) /\ flow[f].at = "lookup" /\ flow[f].cur \in Outbound
        /\ \/ flow'[f].at # "asking" /\ asking' = asking
           \/ /\ flow'[f].at = "asking" /\ flow'[f].cur = flow[f].cur /\ ~(asking[flow[f].cur] >= MaxConcurrent)
              /\ asking' = [asking EXCEPT ![flow[f].cur] = @ + 1]
    BY <1>3, SoundLookup DEF Sound
  <2>2. Counted'
    BY <2>1, CountedSame, CountedUp
  <2>3. Slotted'
    BY <1>3, SlottedStep DEF Lookup, held
  <2> QED
    BY <1>3, <2>1, <2>2, <2>3, CachedLookup, Combined
<1>4. CASE Answered(f)
  <2>1. /\ Sound(f) /\ Local(f) /\ flow[f].at = "asking" /\ flow[f].cur \in Outbound /\ flow'[f].at # "asking"
        /\ asking' = [asking EXCEPT ![flow[f].cur] = @ - 1]
    BY <1>4, SoundAnswered DEF Sound
  <2>2. Counted'
    BY <2>1, CountedDown
  <2>3. Slotted'
    BY <1>4, SlottedStep DEF Answered, held
  <2> QED
    BY <1>4, <2>1, <2>2, <2>3, CachedAnswered, Combined
<1>5. CASE Ready(f)
  BY <1>5, SoundReady, Alone DEF Ready, held
<1>6. CASE Connect(f)
  BY <1>6, SoundConnect, Alone DEF Connect, held
<1>7. CASE Dial(f)
  BY <1>7, SoundDial, Alone DEF Dial
<1>8. CASE Send(f)
  BY <1>8, SoundSend, Alone DEF Send
<1>9. CASE RelayFirst(f)
  BY <1>9, SoundRelayFirst, Alone DEF RelayFirst
<1>10. CASE RelayDrain(f)
  BY <1>10, SoundRelayDrain, Alone DEF RelayDrain, held
<1>11. CASE RelaySecond(f)
  BY <1>11, SoundRelaySecond, Alone DEF RelaySecond
<1>12. CASE RelayUDP(f)
  BY <1>12, SoundRelayUDP, Alone DEF RelayUDP
<1>13. CASE DrainUDP(f)
  BY <1>13, SoundDrainUDP, Alone DEF DrainUDP, held
<1>14. CASE HandlerReturns(f)
  BY <1>14, SoundHandlerReturns, Alone DEF HandlerReturns
<1>15. CASE Leave(f)
  BY <1>15, SoundLeave, Alone DEF Leave
<1> QED
  BY <1>1, <1>2, <1>3, <1>4, <1>5, <1>6, <1>7, <1>8, <1>9, <1>10, <1>11, <1>12, <1>13, <1>14, <1>15 DEF FlowStep

\* Close, its return and the clock touch no flow; neither does a step of something else.
LEMMA Untouched ==
    ASSUME SessionInv, UNCHANGED <<policy, bound, flow, pipe, shared, held>>, now' \in Nat
    PROVE  SessionInv'
<1>1. UNCHANGED <<policy, bound, flow, pipe, cache, asking, slots, refs, entered, sockets>>
  BY DEF shared, held
<1>2. SessionTypes'
  BY <1>1 DEF SessionInv, SessionTypes, PolicyOK, BoundOK
<1>3. \A f \in Flow : Routed(policy, flow[f])' /\ Held(f)' /\ Relayed(f)'
  BY <1>1 DEF SessionInv, Held, Relayed
<1>4. Cached' /\ Slotted'
  BY <1>1 DEF SessionInv, Cached, Slotted
<1>5. \A o \in Outbound : Askers(o)' = Askers(o)
  BY <1>1 DEF Askers
<1>6. Counted'
  BY <1>1, <1>5 DEF SessionInv, Counted
<1> QED
  BY <1>2, <1>3, <1>4, <1>6 DEF SessionInv

LEMMA SessionInvStep == SessionInv /\ [SessionNext]_vars => SessionInv'
<1> SUFFICES ASSUME SessionInv, [SessionNext]_vars PROVE SessionInv'
  OBVIOUS
<1>0. now \in Nat
  BY DEF SessionInv, SessionTypes
<1>1. ASSUME NEW f \in Flow, Arrive(f) PROVE SessionInv'
  BY <1>1, SoundArrive, Alone DEF Arrive
<1>2. ASSUME NEW f \in Flow, FlowStep(f) PROVE SessionInv'
  BY <1>2, FlowStepInv
<1>3. ASSUME NEW f \in Flow, NEW k \in 1 .. 2, PeerSends(f, k) PROVE SessionInv'
  <2>1. Sound(f) /\ flow'[f] = flow[f] /\ UNCHANGED <<shared, slots>>
    BY <1>3, SoundPeerSends DEF PeerSends, held
  <2> QED
    BY <2>1, Alone
<1>4. ASSUME NEW f \in Flow, NEW k \in 1 .. 2, Copy(f, k) PROVE SessionInv'
  <2>1. Sound(f) /\ flow'[f] = flow[f] /\ UNCHANGED <<shared, slots>>
    BY <1>4, SoundCopy DEF Copy, held
  <2> QED
    BY <2>1, Alone
<1>5. CASE Close
  BY <1>0, <1>5, Untouched DEF Close
<1>6. CASE CloseReturns
  BY <1>0, <1>6, Untouched DEF CloseReturns
<1>7. CASE Tick
  BY <1>0, <1>7, Untouched DEF Tick
<1>8. CASE UNCHANGED vars
  BY <1>0, <1>8, Untouched DEF vars, shared, held
<1> QED
  BY <1>1, <1>2, <1>3, <1>4, <1>5, <1>6, <1>7, <1>8 DEF SessionNext

LEMMA SessionInvariant == SessionSpec => []SessionInv
BY SessionInvInit, SessionInvStep, PTL DEF SessionSpec

----------------------------------------------------------------------------
\* Nothing leaks on any path out of a flow, whatever failed on it and however flows
\* interleave (the deferred functions of handleTCP and handleUDP, closeBoth, the resolver's
\* semaphore and its cache): every socket, reference, slot and permit belongs to a flow that
\* is still in progress, and no limit is exceeded.
THEOREM FlowsLeakNothing == SessionSpec => []NothingLeaks
<1>1. SessionInv => NothingLeaks
  <2> SUFFICES ASSUME SessionInv PROVE NothingLeaks
    OBVIOUS
  <2>1. \A f \in Flow : Held(f)
    BY DEF SessionInv
  <2>2. \A o \in Outbound : asking[o] = Cardinality(Askers(o)) /\ asking[o] <= MaxConcurrent
    BY DEF SessionInv, Counted
  <2>3. \A o \in Outbound : Cardinality(DOMAIN cache[o]) <= MaxCache
    BY DEF SessionInv, Cached, CacheOK
  <2>4. Cardinality(slots) <= MaxTCPFlows
    BY DEF SessionInv, Slotted
  <2> QED
    BY <2>1, <2>2, <2>3, <2>4 DEF NothingLeaks, Held, Askers
<1> QED
  BY <1>1, SessionInvariant, PTL

\* A TCP flow that Relay reports as completed has delivered, in both directions, all that
\* was sent before the end of the stream, however the two copies, the grace timer and
\* cancellation race.
THEOREM CompletedMeansDelivered == SessionSpec => []CompletedDelivered
<1>1. SessionInv => CompletedDelivered
  BY DEF SessionInv, Relayed, Delivered, CompletedDelivered
<1> QED
  BY <1>1, SessionInvariant, PTL

\* The policy is kept for any rules, fallbacks and failures (decideFlow, connectPrepared,
\* connectAndSendPrepared): a flow dials only outbounds on the fallback chain of the rule
\* that decided, none of which rejects or has failed for good, with addresses answered to
\* that outbound; and it is rejected unseen only if no answer could have saved it.
THEOREM RoutesHonoured == SessionSpec => []RouteHonoured
<1>1. SessionInv => RouteHonoured
  <2> SUFFICES ASSUME SessionInv, NEW f \in Flow PROVE ChainKept(f) /\ OwnAnswers(f) /\ RejectSound(f)
    BY DEF RouteHonoured
  <2>1. Heading(policy, flow[f]) /\ Blame(flow[f]) /\ Sight(policy, flow[f])
    BY DEF SessionInv, Routed
  <2>2. ChainKept(f)
    BY <2>1 DEF ChainKept, Heading, Blame, Allowed, OutboundOf, Dialling
  <2>3. OwnAnswers(f)
    BY <2>1 DEF OwnAnswers, Heading, Dialling
  <2>4. RejectSound(f)
    BY <2>1 DEF RejectSound, Sight, Unseen, Doomed, OutboundOf
  <2> QED
    BY <2>2, <2>3, <2>4
<1> QED
  BY <1>1, SessionInvariant, PTL
=============================================================================
