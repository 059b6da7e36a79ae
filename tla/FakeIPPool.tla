----------------------------- MODULE FakeIPPool -----------------------------
(***************************************************************************)
(* The in-memory Fake IP pool of internal/fakeip/pool.go: two indexes      *)
(* (byDomain, byAddress) over one set of entries, a round-robin cursor,    *)
(* mapping lifetimes, and the references that open flows hold.             *)
(*                                                                         *)
(* pool.mutex makes each action below atomic.  pool.persistenceMutex is    *)
(* held over a whole GetOrAllocate or flushPersistence call, which releases*)
(* pool.mutex while it does file I/O: `writer' is the one call that is     *)
(* between its two critical sections.  How the I/O ends is left open here  *)
(* (PersistOk / PersistFail); module FakeIPWal supplies the files.         *)
(*                                                                         *)
(* An entry is a Go pointer.  While it is in the indexes its fields are    *)
(* kept in byAddress; once it is deleted nothing reads its fields again,   *)
(* so whoever still holds the pointer (a flow, the writer) only records    *)
(* that it is no longer `attached'.                                        *)
(***************************************************************************)
EXTENDS Naturals, FiniteSets

CONSTANTS
    Domains,          \* normalized domain names
    Capacity,         \* usableCapacity: addresses start .. end-1 are 0 .. Capacity-1
    MaxMappings,      \* fake_ip.max_mappings
    MappingTTL,       \* fake_ip.mapping_ttl
    DnsTTL,           \* fake_ip.dns_ttl: how long a client caches an answer
    MaxPersistDelay,  \* longest time one persist or flush call takes
    Flows,            \* TCP and UDP sessions
    MaxTime,          \* bound on the clock
    Nil

Addrs == 0 .. Capacity - 1

Entry == [domain : Domains, expiresAt : Nat, references : Nat]
Held == [address : Addrs, domain : Domains, attached : BOOLEAN]
Writer == [op : {"alloc", "flush"}, domain : Domains \cup {Nil},
           address : Addrs \cup {Nil}, attached : BOOLEAN,
           removed : SUBSET Domains, startedAt : Nat]
Answer == [domain : Domains, address : Addrs, until : Nat]

ASSUME CapacityAssumption == Capacity \in Nat \ {0}
ASSUME LimitAssumption == MaxMappings \in Nat \ {0} /\ MaxMappings <= Capacity
\* parseFakeIP (config.go) rejects mapping_ttl <= dns_ttl.
ASSUME TTLAssumption ==
    /\ MappingTTL \in Nat /\ DnsTTL \in Nat \ {0} /\ MaxPersistDelay \in Nat
    /\ DnsTTL < MappingTTL
ASSUME FiniteAssumption ==
    IsFiniteSet(Flows) /\ IsFiniteSet(Domains) /\ MaxTime \in Nat
ASSUME NilAssumption ==
    Nil \notin Addrs /\ Nil \notin Entry /\ Nil \notin Held /\ Nil \notin Writer

VARIABLES
    now,             \* pool.now()
    next,            \* pool.next
    byDomain,        \* [Domains -> Addrs or Nil]: the entry a domain has
    byAddress,       \* [Addrs -> entry or Nil]
    pendingDeletes,  \* deletions not yet written to the journal
    writer,          \* the call inside its I/O, or Nil
    flows,           \* the mapping each open session acquired, or Nil
    answers          \* DNS answers that clients may still have in their caches

poolVars == <<now, next, byDomain, byAddress, pendingDeletes, writer, flows, answers>>

\* The pool's data has its types and the cursor stays inside start .. end-1, so
\* the scan of GetOrAllocate never hands out a reserved address.
TypeOK ==
    /\ now \in Nat
    /\ next \in Addrs
    /\ byDomain \in [Domains -> Addrs \cup {Nil}]
    /\ byAddress \in [Addrs -> Entry \cup {Nil}]
    /\ pendingDeletes \subseteq Domains
    /\ writer \in Writer \cup {Nil}
    /\ flows \in [Flows -> Held \cup {Nil}]
    /\ answers \subseteq Answer

-----------------------------------------------------------------------------
\* newPool
Init ==
    /\ now = 0
    /\ next = 0
    /\ byDomain = [d \in Domains |-> Nil]
    /\ byAddress = [a \in Addrs |-> Nil]
    /\ pendingDeletes = {}
    /\ writer = Nil
    /\ flows = [f \in Flows |-> Nil]
    /\ answers = {}

\* Mutant of Reclaimable: references are not looked at.
ReclaimableIgnoringReferences(a) ==
    byAddress[a] # Nil /\ byAddress[a].expiresAt <= now

\* !now.Before(mapping.expiresAt) && mapping.references == 0
Reclaimable(a) ==
    /\ byAddress[a] # Nil
    /\ byAddress[a].expiresAt <= now
    /\ byAddress[a].references = 0

\* A pointer to the entry at an address of S stops being the table's entry.
Detach(p, S) == IF p # Nil /\ p.address \in S THEN [p EXCEPT !.attached = FALSE] ELSE p

\* Mutant of DeleteUntracked: only one index is updated.
DeleteUntrackedOneIndex(S) ==
    /\ byDomain' = byDomain
    /\ byAddress' = [a \in Addrs |-> IF a \in S THEN Nil ELSE byAddress[a]]
    /\ flows' = [f \in Flows |-> Detach(flows[f], S)]

\* deleteUntrackedLocked for the entries at the addresses of S
DeleteUntracked(S) ==
    /\ byDomain' = [d \in Domains |-> IF byDomain[d] \in S THEN Nil ELSE byDomain[d]]
    /\ byAddress' = [a \in Addrs |-> IF a \in S THEN Nil ELSE byAddress[a]]
    /\ flows' = [f \in Flows |-> Detach(flows[f], S)]

\* The domains that deleteLocked adds to pendingDeletes
Tracked(S) == {byAddress[a].domain : a \in S}

\* deleteLocked for the entries at the addresses of S
Delete(S) ==
    /\ DeleteUntracked(S)
    /\ pendingDeletes' = pendingDeletes \cup Tracked(S)
    /\ writer' = Detach(writer, S)

-----------------------------------------------------------------------------
\* Mutant of Renew: the expiry is not moved.
RenewWithoutExtending(d) ==
    /\ writer = Nil
    /\ byDomain[d] # Nil
    /\ answers' = answers \cup
                    {[domain |-> d, address |-> byDomain[d], until |-> now + DnsTTL]}
    /\ UNCHANGED <<now, next, byDomain, byAddress, pendingDeletes, writer, flows>>

\* GetOrAllocate, the domain is known: renew and answer.
Renew(d) ==
    /\ writer = Nil
    /\ byDomain[d] # Nil
    /\ byAddress' = [byAddress EXCEPT ![byDomain[d]].expiresAt = now + MappingTTL]
    /\ answers' = answers \cup
                    {[domain |-> d, address |-> byDomain[d], until |-> now + DnsTTL]}
    /\ UNCHANGED <<now, next, byDomain, pendingDeletes, writer, flows>>

\* pruneLocked, as GetOrAllocate and Prune run it
Expired == {a \in Addrs : Reclaimable(a)}

\* The entries that survive the prune
Occupied == {a \in Addrs : byAddress[a] # Nil} \ Expired

\* The i-th candidate of the scan, which is also the cursor after i candidates
Candidate(i) == IF next + i < Capacity THEN next + i ELSE next + i - Capacity

\* Mutant of Attempts: one candidate too few.
AttemptsOneShort(used) == IF used > Capacity THEN Capacity ELSE used

\* min(len(byAddress) + 1, capacity)
Attempts(used) == IF used + 1 > Capacity THEN Capacity ELSE used + 1

\* len(pool.byDomain) < pool.maxMappings, after the prune
BelowLimit == Cardinality(Occupied) < MaxMappings

\* The scan stops at its i-th candidate.
StopsAt(i) ==
    /\ Candidate(i) \notin Occupied
    /\ \A j \in 0 .. i - 1 : Candidate(j) \in Occupied

ScanRange == 0 .. Attempts(Cardinality(Occupied)) - 1

\* The mapping that GetOrAllocate inserts in both indexes after pruning.
Insert(d, a) ==
    /\ byDomain' = [x \in Domains |->
                      IF x = d THEN a
                      ELSE IF byDomain[x] \in Expired THEN Nil ELSE byDomain[x]]
    /\ byAddress' = [x \in Addrs |->
                      IF x = a THEN [domain |-> d, expiresAt |-> now + MappingTTL,
                                     references |-> 0]
                      ELSE IF x \in Expired THEN Nil ELSE byAddress[x]]
    /\ flows' = [f \in Flows |-> Detach(flows[f], Expired)]

\* GetOrAllocate up to the I/O: prune, scan for a free address, insert.
\* The entry is visible to Lookup and Acquire from here on.
Allocate(d) ==
    /\ writer = Nil
    /\ byDomain[d] = Nil
    /\ BelowLimit
    /\ \E i \in ScanRange :
        /\ StopsAt(i)
        /\ next' = Candidate(i + 1)
        /\ Insert(d, Candidate(i))
        /\ pendingDeletes' = pendingDeletes \cup Tracked(Expired)
        /\ writer' = [op |-> "alloc", domain |-> d, address |-> Candidate(i),
                      attached |-> TRUE, startedAt |-> now,
                      removed |-> pendingDeletes \cup Tracked(Expired)]
    /\ UNCHANGED <<now, answers>>

\* GetOrAllocate gives up: the limit is reached, or no candidate was free.
Exhausted(d) ==
    /\ writer = Nil
    /\ byDomain[d] = Nil
    /\ BelowLimit => \A i \in ScanRange : Candidate(i) \in Occupied
    /\ next' = IF BelowLimit THEN Candidate(Attempts(Cardinality(Occupied))) ELSE next
    /\ Delete(Expired)
    /\ UNCHANGED <<now, answers>>

\* persist returned nil: forget the recorded deletions and answer the client.
PersistOk ==
    /\ writer # Nil /\ writer.op = "alloc"
    /\ pendingDeletes' = pendingDeletes \ writer.removed
    /\ answers' = answers \cup {[domain |-> writer.domain, address |-> writer.address,
                                 until |-> now + DnsTTL]}
    /\ writer' = Nil
    /\ UNCHANGED <<now, next, byDomain, byAddress, flows>>

\* persist failed: drop the entry if byDomain still holds this very entry.
PersistFail ==
    /\ writer # Nil /\ writer.op = "alloc"
    /\ DeleteUntracked(IF writer.attached THEN {writer.address} ELSE {})
    /\ writer' = Nil
    /\ UNCHANGED <<now, next, pendingDeletes, answers>>

\* flushPersistence up to the I/O
FlushBegin ==
    /\ writer = Nil
    /\ writer' = [op |-> "flush", domain |-> Nil, address |-> Nil, attached |-> FALSE,
                  removed |-> pendingDeletes, startedAt |-> now]
    /\ UNCHANGED <<now, next, byDomain, byAddress, pendingDeletes, flows, answers>>

\* flush returned: on success the recorded deletions are forgotten.
FlushEnd(ok) ==
    /\ writer # Nil /\ writer.op = "flush"
    /\ pendingDeletes' = IF ok THEN pendingDeletes \ writer.removed ELSE pendingDeletes
    /\ writer' = Nil
    /\ UNCHANGED <<now, next, byDomain, byAddress, flows, answers>>

\* Lookup, and Acquire's early exit: an expired, unreferenced entry goes.
LookupExpired(a) ==
    /\ Reclaimable(a)
    /\ Delete({a})
    /\ UNCHANGED <<now, next, answers>>

\* Acquire: one flow holds the mapping.
Acquire(f, a) ==
    /\ flows[f] = Nil
    /\ byAddress[a] # Nil
    /\ ~Reclaimable(a)
    /\ byAddress' = [byAddress EXCEPT ![a].references = @ + 1]
    /\ flows' = [flows EXCEPT ![f] = [address |-> a, domain |-> byAddress[a].domain,
                                      attached |-> TRUE]]
    /\ UNCHANGED <<now, next, byDomain, pendingDeletes, writer, answers>>

\* Mutant of Release: a second call counts again.
ReleaseEveryTime(f) ==
    /\ flows[f] # Nil
    /\ byAddress' = IF flows[f].attached /\ byAddress[flows[f].address].references > 0
                    THEN [byAddress EXCEPT ![flows[f].address].references = @ - 1]
                    ELSE byAddress
    /\ UNCHANGED <<now, next, byDomain, pendingDeletes, writer, flows, answers>>

\* The release function: sync.Once, and a decrement that stops at zero.
Release(f) ==
    /\ flows[f] # Nil
    /\ byAddress' = IF flows[f].attached /\ byAddress[flows[f].address].references > 0
                    THEN [byAddress EXCEPT ![flows[f].address].references = @ - 1]
                    ELSE byAddress
    /\ flows' = [flows EXCEPT ![f] = Nil]
    /\ UNCHANGED <<now, next, byDomain, pendingDeletes, writer, answers>>

\* Prune
Prune ==
    /\ Expired # {}
    /\ Delete(Expired)
    /\ UNCHANGED <<now, next, answers>>

\* Time passes; answers leave the clients' caches when their TTL is over.
Tick ==
    /\ now < MaxTime
    /\ writer # Nil => now < writer.startedAt + MaxPersistDelay
    /\ now' = now + 1
    /\ answers' = {x \in answers : x.until > now + 1}
    /\ UNCHANGED <<next, byDomain, byAddress, pendingDeletes, writer, flows>>

Next ==
    \/ \E d \in Domains : Renew(d)
    \/ \E d \in Domains : Allocate(d)
    \/ \E d \in Domains : Exhausted(d)
    \/ PersistOk
    \/ PersistFail
    \/ FlushBegin
    \/ \E ok \in BOOLEAN : FlushEnd(ok)
    \/ \E a \in Addrs : LookupExpired(a)
    \/ \E f \in Flows, a \in Addrs : Acquire(f, a)
    \/ \E f \in Flows : Release(f)
    \/ Prune
    \/ Tick

Spec == Init /\ [][Next]_poolVars

-----------------------------------------------------------------------------
\* byDomain and byAddress are inverse to each other whatever interleaving of
\* GetOrAllocate's two critical sections, Lookup, Acquire and Prune ran: no
\* address answers for two domains and no domain has two addresses.
IndexesInverse ==
    /\ \A d \in Domains : byDomain[d] # Nil =>
          byAddress[byDomain[d]] # Nil /\ byAddress[byDomain[d]].domain = d
    /\ \A a \in Addrs : byAddress[a] # Nil => byDomain[byAddress[a].domain] = a

\* The pool never holds more mappings than fake_ip.max_mappings.
WithinLimit == Cardinality({a \in Addrs : byAddress[a] # Nil}) <= MaxMappings

Holders(a) == {f \in Flows : flows[f] # Nil /\ flows[f].attached /\ flows[f].address = a}

\* An entry's reference count is the number of open flows that acquired it and
\* have not released it, although entries are deleted and addresses reused
\* while flows are open.
RefCount == \A a \in Addrs : byAddress[a] # Nil =>
                byAddress[a].references = Cardinality(Holders(a))

\* The mapping under an open flow keeps the domain the flow was admitted with
\* for as long as the flow's entry is in the table.
FlowDomain == \A f \in Flows : flows[f] # Nil /\ flows[f].attached =>
                /\ byAddress[flows[f].address] # Nil
                /\ byAddress[flows[f].address].domain = flows[f].domain

\* The allocation that is being persisted: unless its entry was deleted meanwhile,
\* byDomain still holds it, so the roll-back removes this entry and no other.
WriterEntry == writer # Nil /\ writer.op = "alloc" =>
                /\ writer.domain \in Domains
                /\ writer.address \in Addrs
                /\ writer.attached => byDomain[writer.domain] = writer.address

\* One call's I/O is shorter than the margin between the two TTLs.
PromptIO == DnsTTL + MaxPersistDelay <= MappingTTL

\* While a client may still use a DNS answer, the address in it resolves back to
\* the domain it was given for (Lookup and Acquire see that domain).
AnswerStable == PromptIO => \A x \in answers :
                    /\ byAddress[x.address] # Nil
                    /\ byAddress[x.address].domain = x.domain

\* Below the limit, inspecting len(byAddress)+1 candidates from the cursor always
\* meets a free address: GetOrAllocate's last ErrExhausted is unreachable.
ScanFindsFree == BelowLimit => \E i \in ScanRange : Candidate(i) \notin Occupied

\* The only step that takes a mapping away from a flow that still references it is
\* the roll-back of the allocation that created the mapping; pruning, lookups and
\* later allocations never do.
OnlyRollbackDetaches == [][
    \A f \in Flows :
        flows[f] # Nil /\ flows[f].attached /\ flows'[f] # Nil /\ ~flows'[f].attached
          => /\ writer # Nil /\ writer' = Nil
             /\ writer.op = "alloc" /\ writer.address = flows[f].address]_poolVars

\* What a document says and the code does not do: docs/plans/PLAN.md has a Fake IP never
\* reclaimed while an active session's reference to it is not released.  The roll-back of
\* an allocation that cannot be written (PersistFail) deletes the entry whoever holds it;
\* OnlyRollbackDetaches is what does hold.
ReferencedNotReclaimed == \A f \in Flows : flows[f] # Nil => flows[f].attached

=============================================================================
