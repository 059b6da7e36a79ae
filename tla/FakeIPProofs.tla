---------------------------- MODULE FakeIPProofs ----------------------------
(***************************************************************************)
(* Proofs about FakeIPPool and FakeIPWal for every number of domains,      *)
(* addresses and flows, every TTL, journal size and number of restarts.    *)
(*                                                                         *)
(* Neither the types nor the index invariant of the pool is inductive      *)
(* alone: Renew updates the entry that byDomain names and Release the      *)
(* entry that a flow names, so both need that entry to exist.  IndexInv is *)
(* the strengthening that is.  RefCount and the client-cache invariant     *)
(* build on it.                                                            *)
(*                                                                         *)
(* The files: Clean says what every pair of a snapshot and a journal that  *)
(* a power loss may leave restores, at each step of record() and of        *)
(* checkpoint().  While the I/O is in progress every pair restores the     *)
(* pool but for the allocation under way and the pending deletions (Weak); *)
(* when it is done the one pair left restores all of it (Strong).  It      *)
(* rests on what replaying one more record does (RecoveredAppend) and on a *)
(* new snapshot superseding any older journal by its epoch                 *)
(* (RecoveredFresh).  AnswersInv then carries the answers of the clients   *)
(* from the memory of one process over the files to the memory of the next.*)
(***************************************************************************)
EXTENDS FakeIPWal, FoldFacts, SequenceTheorems

IndexInv == TypeOK /\ IndexesInverse /\ FlowDomain /\ WriterEntry

-----------------------------------------------------------------------------
\* The scan's candidates are addresses of the pool.
LEMMA CandidateType ==
    ASSUME next \in Addrs, NEW i \in 0 .. Capacity
    PROVE  Candidate(i) \in Addrs
BY CapacityAssumption DEF Candidate, Addrs

\* The scan inspects at least one candidate and none twice.
LEMMA AttemptsType ==
    ASSUME NEW n \in Nat
    PROVE  Attempts(n) \in 1 .. Capacity
BY CapacityAssumption DEF Attempts

\* The address range is finite.
LEMMA AddrsFinite == IsFiniteSet(Addrs)
BY FS_Interval, CapacityAssumption DEF Addrs

\* Every set of addresses has a natural number of elements.
LEMMA AddrSetFinite ==
    ASSUME NEW S \in SUBSET Addrs
    PROVE  IsFiniteSet(S) /\ Cardinality(S) \in Nat
BY AddrsFinite, FS_Subset, FS_CardinalityType

\* The mappings that survive a prune are finitely many.
LEMMA OccupiedFinite == IsFiniteSet(Occupied) /\ Cardinality(Occupied) \in Nat
BY AddrSetFinite DEF Occupied

\* Detaching a pointer keeps its type and its other fields.
LEMMA DetachHeld ==
    ASSUME NEW p \in Held \cup {Nil}, NEW S
    PROVE  /\ Detach(p, S) \in Held \cup {Nil}
           /\ Detach(p, S) = Nil <=> p = Nil
           /\ p # Nil => /\ Detach(p, S).address = p.address
                         /\ Detach(p, S).domain = p.domain
                         /\ Detach(p, S).attached <=> p.attached /\ p.address \notin S
BY NilAssumption DEF Detach, Held

\* The same of the pointer that an allocation in progress keeps across its unlock.
LEMMA DetachWriter ==
    ASSUME NEW p \in Writer \cup {Nil}, NEW S
    PROVE  /\ Detach(p, S) \in Writer \cup {Nil}
           /\ Detach(p, S) = Nil <=> p = Nil
           /\ p # Nil => /\ Detach(p, S).address = p.address
                         /\ Detach(p, S).domain = p.domain
                         /\ Detach(p, S).op = p.op
                         /\ Detach(p, S).removed = p.removed
                         /\ Detach(p, S).startedAt = p.startedAt
                         /\ Detach(p, S).attached <=> p.attached /\ p.address \notin S
BY NilAssumption DEF Detach, Writer

\* deleteUntrackedLocked keeps the indexes inverse and detaches exactly the
\* flows whose entry it removes.
LEMMA DeleteUntrackedKeeps ==
    ASSUME IndexInv, NEW S \in SUBSET Addrs, DeleteUntracked(S)
    PROVE  /\ byDomain' \in [Domains -> Addrs \cup {Nil}]
           /\ byAddress' \in [Addrs -> Entry \cup {Nil}]
           /\ flows' \in [Flows -> Held \cup {Nil}]
           /\ IndexesInverse'
           /\ FlowDomain'
<1>1. /\ byDomain' \in [Domains -> Addrs \cup {Nil}]
      /\ byAddress' \in [Addrs -> Entry \cup {Nil}]
    BY DEF IndexInv, TypeOK, DeleteUntracked
<1>2. flows' \in [Flows -> Held \cup {Nil}]
    BY DetachHeld DEF IndexInv, TypeOK, DeleteUntracked
<1>3. IndexesInverse'
  <2>1. ASSUME NEW d \in Domains, byDomain'[d] # Nil
        PROVE  byAddress'[byDomain'[d]] # Nil /\ byAddress'[byDomain'[d]].domain = d
    <3>1. byDomain[d] \in Addrs /\ byDomain[d] \notin S /\ byDomain'[d] = byDomain[d]
      BY <2>1 DEF IndexInv, TypeOK, DeleteUntracked
    <3>2. byAddress[byDomain[d]] # Nil /\ byAddress[byDomain[d]].domain = d
      BY <2>1, <3>1 DEF IndexInv, IndexesInverse
    <3> QED BY <3>1, <3>2 DEF DeleteUntracked
  <2>2. ASSUME NEW a \in Addrs, byAddress'[a] # Nil
        PROVE  byDomain'[byAddress'[a].domain] = a
    <3>1. a \notin S /\ byAddress'[a] = byAddress[a] /\ byAddress[a] # Nil
      BY <2>2 DEF DeleteUntracked
    <3>2. byAddress[a].domain \in Domains /\ byDomain[byAddress[a].domain] = a
      BY <3>1 DEF IndexInv, TypeOK, IndexesInverse, Entry
    <3> QED BY <3>1, <3>2 DEF DeleteUntracked
  <2> QED BY <2>1, <2>2 DEF IndexesInverse
<1>4. FlowDomain'
  <2> SUFFICES ASSUME NEW f \in Flows, flows'[f] # Nil, flows'[f].attached
               PROVE  /\ byAddress'[flows'[f].address] # Nil
                      /\ byAddress'[flows'[f].address].domain = flows'[f].domain
    BY DEF FlowDomain
  <2>1. flows[f] \in Held \cup {Nil} /\ flows'[f] = Detach(flows[f], S)
    BY DEF IndexInv, TypeOK, DeleteUntracked
  <2>2. /\ flows[f] # Nil /\ flows[f].attached /\ flows[f].address \notin S
        /\ flows'[f].address = flows[f].address
        /\ flows'[f].domain = flows[f].domain
    BY <2>1, DetachHeld
  <2>3. flows[f].address \in Addrs
    BY <2>1, <2>2 DEF Held
  <2> QED BY <2>2, <2>3 DEF IndexInv, FlowDomain, DeleteUntracked
<1> QED BY <1>1, <1>2, <1>3, <1>4

\* deleteLocked also keeps the writer's view of its own entry.
LEMMA DeleteKeeps ==
    ASSUME IndexInv, NEW S \in SUBSET Addrs, \A a \in S : byAddress[a] # Nil, Delete(S),
           next' \in Addrs, UNCHANGED <<now, answers>>
    PROVE  IndexInv'
<1>1. Tracked(S) \subseteq Domains
    BY DEF IndexInv, TypeOK, Tracked, Entry
<1>2. writer \in Writer \cup {Nil} /\ writer' = Detach(writer, S)
    BY DEF IndexInv, TypeOK, Delete
<1>3. TypeOK' /\ IndexesInverse' /\ FlowDomain'
    BY <1>1, <1>2, DetachWriter, DeleteUntrackedKeeps DEF Delete, IndexInv, TypeOK
<1>4. WriterEntry'
    BY <1>2, DetachWriter DEF IndexInv, WriterEntry, Delete, DeleteUntracked, TypeOK
<1> QED BY <1>3, <1>4 DEF IndexInv

\* Renew, Acquire and Release change an entry's lifetime or count in place: the
\* indexes stay inverse when no entry comes, goes or changes its domain.
LEMMA SameMappings ==
    ASSUME IndexInv, byDomain' = byDomain,
           \A a \in Addrs : byAddress'[a] = Nil <=> byAddress[a] = Nil,
           \A a \in Addrs : byAddress[a] # Nil => byAddress'[a].domain = byAddress[a].domain
    PROVE  IndexesInverse'
<1>1. ASSUME NEW d \in Domains, byDomain'[d] # Nil
      PROVE  byAddress'[byDomain'[d]] # Nil /\ byAddress'[byDomain'[d]].domain = d
  <2>1. byDomain[d] \in Addrs
    BY <1>1 DEF IndexInv, TypeOK
  <2> QED BY <1>1, <2>1 DEF IndexInv, IndexesInverse
<1>2. ASSUME NEW a \in Addrs, byAddress'[a] # Nil
      PROVE  byDomain'[byAddress'[a].domain] = a
  BY <1>2 DEF IndexInv, IndexesInverse
<1> QED BY <1>1, <1>2 DEF IndexesInverse

\* A step that leaves the indexes and the flows alone.
LEMMA SameIndexes ==
    ASSUME IndexInv, UNCHANGED <<byDomain, byAddress, flows>>
    PROVE  IndexesInverse' /\ FlowDomain'
<1>1. IndexesInverse'
    BY DEF IndexInv, IndexesInverse
<1>2. FlowDomain'
    BY DEF IndexInv, FlowDomain
<1> QED BY <1>1, <1>2

\* IndexInv is preserved by every step of the pool.
LEMMA IndexInvStep == IndexInv /\ [Next]_poolVars => IndexInv'
<1> SUFFICES ASSUME IndexInv, [Next]_poolVars PROVE IndexInv'
    OBVIOUS
<1>0. /\ MappingTTL \in Nat /\ DnsTTL \in Nat
      /\ Expired \in SUBSET Addrs /\ \A a \in Expired : byAddress[a] # Nil
    BY TTLAssumption DEF Expired, Reclaimable
<1>1. ASSUME NEW d \in Domains, Renew(d) PROVE IndexInv'
  <2>0. byDomain[d] \in Addrs /\ byAddress[byDomain[d]] # Nil
    BY <1>1 DEF Renew, IndexInv, TypeOK, IndexesInverse
  <2>1. byDomain[d] \in Addrs /\ byAddress[byDomain[d]] \in Entry
    BY <2>0 DEF IndexInv, TypeOK
  <2>2. /\ byAddress' \in [Addrs -> Entry \cup {Nil}]
        /\ \A a \in Addrs : byAddress'[a] = Nil <=> byAddress[a] = Nil
        /\ \A a \in Addrs : byAddress[a] # Nil => byAddress'[a].domain = byAddress[a].domain
    BY <1>0, <1>1, <2>1, NilAssumption DEF Renew, IndexInv, TypeOK, Entry
  <2>3. answers' \subseteq Answer
    BY <1>0, <1>1, <2>1 DEF Renew, IndexInv, TypeOK, Answer
  <2>4. TypeOK'
    BY <1>1, <2>2, <2>3 DEF Renew, IndexInv, TypeOK
  <2>5. IndexesInverse'
    BY <1>1, <2>2, SameMappings DEF Renew
  <2>6. FlowDomain'
    BY <1>1, <2>2 DEF Renew, IndexInv, TypeOK, FlowDomain, Held
  <2>7. WriterEntry'
    BY <1>1 DEF Renew, IndexInv, WriterEntry
  <2> QED BY <2>4, <2>5, <2>6, <2>7 DEF IndexInv
<1>2. ASSUME NEW d \in Domains, Allocate(d) PROVE IndexInv'
  <2>1. PICK i \in ScanRange :
          /\ StopsAt(i)
          /\ next' = Candidate(i + 1)
          /\ Insert(d, Candidate(i))
          /\ pendingDeletes' = pendingDeletes \cup Tracked(Expired)
          /\ writer' = [op |-> "alloc", domain |-> d, address |-> Candidate(i),
                        attached |-> TRUE, startedAt |-> now,
                        removed |-> pendingDeletes \cup Tracked(Expired)]
    BY <1>2 DEF Allocate
  <2>2. i \in 0 .. Capacity /\ i + 1 \in 0 .. Capacity
    BY OccupiedFinite, AttemptsType, CapacityAssumption DEF ScanRange
  <2> DEFINE a == Candidate(i)
  <2>3. a \in Addrs /\ next' \in Addrs
    BY <2>1, <2>2, CandidateType DEF IndexInv, TypeOK
  <2>4. byAddress[a] = Nil \/ a \in Expired
    BY <2>1, <2>3 DEF StopsAt, Occupied
  <2> HIDE DEF a
  <2>5. Tracked(Expired) \subseteq Domains
    BY <1>0 DEF IndexInv, TypeOK, Tracked, Entry
  <2>6. writer' \in Writer
    BY <2>1, <2>3, <2>5 DEF IndexInv, TypeOK, Writer, a
  <2>7. /\ byDomain' \in [Domains -> Addrs \cup {Nil}]
        /\ byAddress' \in [Addrs -> Entry \cup {Nil}]
    BY <1>0, <2>1, <2>3 DEF Insert, IndexInv, TypeOK, Entry, a
  <2>8. flows' \in [Flows -> Held \cup {Nil}]
    BY <2>1, DetachHeld DEF Insert, IndexInv, TypeOK
  <2>9. TypeOK'
    BY <1>2, <2>1, <2>3, <2>5, <2>6, <2>7, <2>8 DEF Allocate, IndexInv, TypeOK
  <2>10. IndexesInverse'
    <3>1. ASSUME NEW x \in Domains, byDomain'[x] # Nil
          PROVE  byAddress'[byDomain'[x]] # Nil /\ byAddress'[byDomain'[x]].domain = x
      <4>1. CASE x = d
        <5>1. [domain |-> d, expiresAt |-> now + MappingTTL, references |-> 0] \in Entry
          BY <1>0 DEF IndexInv, TypeOK, Entry
        <5>2. byDomain'[x] = a /\ byAddress'[a] =
                [domain |-> d, expiresAt |-> now + MappingTTL, references |-> 0]
          BY <2>1, <2>3, <4>1 DEF Insert, a
        <5> QED BY <4>1, <5>1, <5>2, NilAssumption
      <4>2. CASE x # d
        <5>1. /\ byDomain'[x] = byDomain[x] /\ byDomain[x] \notin Expired
              /\ byDomain[x] \in Addrs
          BY <2>1, <3>1, <4>2 DEF Insert, IndexInv, TypeOK
        <5>2. byAddress[byDomain[x]] # Nil /\ byAddress[byDomain[x]].domain = x
          BY <5>1, <3>1 DEF IndexInv, IndexesInverse
        <5> QED BY <2>1, <2>4, <5>1, <5>2 DEF Insert, a
      <4> QED BY <4>1, <4>2
    <3>2. ASSUME NEW x \in Addrs, byAddress'[x] # Nil
          PROVE  byDomain'[byAddress'[x].domain] = x
      <4>1. CASE x = a
        BY <2>1, <2>3, <4>1 DEF Insert, a
      <4>2. CASE x # a
        <5>1. byAddress'[x] = byAddress[x] /\ x \notin Expired /\ byAddress[x] # Nil
          BY <2>1, <3>2, <4>2 DEF Insert, a
        <5>2. byAddress[x].domain \in Domains /\ byDomain[byAddress[x].domain] = x
          BY <5>1 DEF IndexInv, TypeOK, IndexesInverse, Entry
        <5>3. byAddress[x].domain # d
          BY <1>2, <5>1, <5>2, NilAssumption DEF Allocate
        <5> QED BY <2>1, <5>1, <5>2, <5>3 DEF Insert
      <4> QED BY <4>1, <4>2
    <3> QED BY <3>1, <3>2 DEF IndexesInverse
  <2>11. FlowDomain'
    <3> SUFFICES ASSUME NEW f \in Flows, flows'[f] # Nil, flows'[f].attached
                 PROVE  /\ byAddress'[flows'[f].address] # Nil
                        /\ byAddress'[flows'[f].address].domain = flows'[f].domain
      BY DEF FlowDomain
    <3>1. flows[f] \in Held \cup {Nil} /\ flows'[f] = Detach(flows[f], Expired)
      BY <2>1 DEF IndexInv, TypeOK, Insert
    <3>2. /\ flows[f] # Nil /\ flows[f].attached /\ flows[f].address \notin Expired
          /\ flows'[f].address = flows[f].address
          /\ flows'[f].domain = flows[f].domain
      BY <3>1, DetachHeld
    <3>3. flows[f].address \in Addrs /\ byAddress[flows[f].address] # Nil
      BY <3>1, <3>2 DEF Held, IndexInv, FlowDomain
    <3> QED BY <2>1, <2>4, <3>2, <3>3 DEF IndexInv, FlowDomain, Insert, a
  <2>12. WriterEntry'
    BY <2>1, <2>3 DEF WriterEntry, Insert, a
  <2> QED BY <2>9, <2>10, <2>11, <2>12 DEF IndexInv
<1>3. ASSUME NEW d \in Domains, Exhausted(d) PROVE IndexInv'
  <2>1. next' \in Addrs
    BY <1>3, OccupiedFinite, AttemptsType, CandidateType, CapacityAssumption
       DEF Exhausted, IndexInv, TypeOK
  <2> QED BY <1>0, <1>3, <2>1, DeleteKeeps DEF Exhausted
<1>4. CASE PersistOk
  <2>1. writer \in Writer /\ writer.domain \in Domains /\ writer.address \in Addrs
    BY <1>4 DEF PersistOk, IndexInv, TypeOK, WriterEntry
  <2>2. TypeOK'
    BY <1>0, <1>4, <2>1 DEF PersistOk, IndexInv, TypeOK, Answer
  <2>3. WriterEntry'
    BY <1>4 DEF PersistOk, WriterEntry
  <2> QED BY <1>4, <2>2, <2>3, SameIndexes DEF PersistOk, IndexInv
<1>5. CASE PersistFail
  <2> DEFINE S == IF writer.attached THEN {writer.address} ELSE {}
  <2>1. S \in SUBSET Addrs /\ DeleteUntracked(S)
    BY <1>5 DEF PersistFail, IndexInv, WriterEntry
  <2> HIDE DEF S
  <2>2. TypeOK' /\ IndexesInverse' /\ FlowDomain'
    BY <1>5, <2>1, DeleteUntrackedKeeps DEF PersistFail, IndexInv, TypeOK
  <2> QED BY <1>5, <2>2 DEF PersistFail, IndexInv, WriterEntry
<1>6. CASE FlushBegin
  <2>1. TypeOK'
    BY <1>6 DEF FlushBegin, IndexInv, TypeOK, Writer
  <2>2. WriterEntry'
    BY <1>6 DEF FlushBegin, WriterEntry
  <2> QED BY <1>6, <2>1, <2>2, SameIndexes DEF FlushBegin, IndexInv
<1>7. ASSUME NEW ok \in BOOLEAN, FlushEnd(ok) PROVE IndexInv'
  <2>1. TypeOK'
    BY <1>7 DEF FlushEnd, IndexInv, TypeOK
  <2>2. WriterEntry'
    BY <1>7 DEF FlushEnd, WriterEntry
  <2> QED BY <1>7, <2>1, <2>2, SameIndexes DEF FlushEnd, IndexInv
<1>8. ASSUME NEW a \in Addrs, LookupExpired(a) PROVE IndexInv'
  <2>1. next' \in Addrs
    BY <1>8 DEF LookupExpired, IndexInv, TypeOK
  <2> QED BY <1>8, <2>1, DeleteKeeps DEF LookupExpired, Reclaimable
<1>9. ASSUME NEW f \in Flows, NEW a \in Addrs, Acquire(f, a) PROVE IndexInv'
  <2>1. byAddress[a] \in Entry
    BY <1>9 DEF Acquire, IndexInv, TypeOK
  <2>2. /\ byAddress' \in [Addrs -> Entry \cup {Nil}]
        /\ \A x \in Addrs : byAddress'[x] = Nil <=> byAddress[x] = Nil
        /\ \A x \in Addrs : byAddress[x] # Nil => byAddress'[x].domain = byAddress[x].domain
    BY <1>9, <2>1, NilAssumption DEF Acquire, IndexInv, TypeOK, Entry
  <2>3. flows' \in [Flows -> Held \cup {Nil}]
    BY <1>9, <2>1 DEF Acquire, IndexInv, TypeOK, Entry, Held
  <2>4. TypeOK' /\ IndexesInverse' /\ WriterEntry'
    <3>1. TypeOK'
      BY <1>9, <2>2, <2>3 DEF Acquire, IndexInv, TypeOK
    <3>2. IndexesInverse'
      BY <1>9, <2>2, SameMappings DEF Acquire
    <3>3. WriterEntry'
      BY <1>9 DEF Acquire, IndexInv, WriterEntry
    <3> QED BY <3>1, <3>2, <3>3
  <2>5. FlowDomain'
    BY <1>9, <2>1, <2>2 DEF Acquire, IndexInv, TypeOK, FlowDomain, Held
  <2> QED BY <2>4, <2>5 DEF IndexInv
<1>10. ASSUME NEW f \in Flows, Release(f) PROVE IndexInv'
  <2>1. flows[f] \in Held
    BY <1>10 DEF Release, IndexInv, TypeOK
  <2>2. flows[f].attached => /\ flows[f].address \in Addrs
                             /\ byAddress[flows[f].address] \in Entry
    BY <1>10, <2>1 DEF Release, IndexInv, TypeOK, FlowDomain, Held
  <2>3. /\ byAddress' \in [Addrs -> Entry \cup {Nil}]
        /\ \A x \in Addrs : byAddress'[x] = Nil <=> byAddress[x] = Nil
        /\ \A x \in Addrs : byAddress[x] # Nil => byAddress'[x].domain = byAddress[x].domain
    BY <1>10, <2>2, NilAssumption DEF Release, IndexInv, TypeOK, Entry
  <2>4. TypeOK' /\ IndexesInverse' /\ WriterEntry'
    <3>1. TypeOK'
      BY <1>10, <2>3 DEF Release, IndexInv, TypeOK
    <3>2. IndexesInverse'
      BY <1>10, <2>3, SameMappings DEF Release
    <3>3. WriterEntry'
      BY <1>10 DEF Release, IndexInv, WriterEntry
    <3> QED BY <3>1, <3>2, <3>3
  <2>5. FlowDomain'
    BY <1>10, <2>3 DEF Release, IndexInv, TypeOK, FlowDomain, Held
  <2> QED BY <2>4, <2>5 DEF IndexInv
<1>11. CASE Prune
  <2>1. next' \in Addrs
    BY <1>11 DEF Prune, IndexInv, TypeOK
  <2> QED BY <1>0, <1>11, <2>1, DeleteKeeps DEF Prune
<1>12. CASE Tick
  <2>1. TypeOK'
    BY <1>12 DEF Tick, IndexInv, TypeOK
  <2>2. WriterEntry'
    BY <1>12 DEF Tick, IndexInv, WriterEntry
  <2> QED BY <1>12, <2>1, <2>2, SameIndexes DEF Tick, IndexInv
<1>13. CASE UNCHANGED poolVars
  <2>1. TypeOK'
    BY <1>13 DEF poolVars, IndexInv, TypeOK
  <2>2. WriterEntry'
    BY <1>13 DEF poolVars, IndexInv, WriterEntry
  <2> QED BY <1>13, <2>1, <2>2, SameIndexes DEF poolVars, IndexInv
<1> QED BY <1>1, <1>2, <1>3, <1>4, <1>5, <1>6, <1>7, <1>8, <1>9, <1>10,
           <1>11, <1>12, <1>13 DEF Next

\* IndexInv is an invariant of the pool.
LEMMA IndexInvHolds == Spec => []IndexInv
<1>1. Init => IndexInv
  <2> SUFFICES ASSUME Init PROVE IndexInv
    OBVIOUS
  <2>1. TypeOK
    BY CapacityAssumption DEF Init, TypeOK, Addrs
  <2>2. IndexesInverse
    BY DEF Init, IndexesInverse
  <2>3. FlowDomain /\ WriterEntry
    BY DEF Init, FlowDomain, WriterEntry
  <2> QED BY <2>1, <2>2, <2>3 DEF IndexInv
<1> QED BY <1>1, IndexInvStep, PTL DEF Spec

\* The type invariant holds in every reachable state of the pool.
THEOREM PoolTypeCorrect == Spec => []TypeOK
BY IndexInvHolds, PTL DEF IndexInv

\* The two indexes are inverse to each other in every reachable state.
THEOREM PoolIndexesInverse == Spec => []IndexesInverse
BY IndexInvHolds, PTL DEF IndexInv

\* The mapping under an open flow keeps its domain.
THEOREM PoolFlowDomain == Spec => []FlowDomain
BY IndexInvHolds, PTL DEF IndexInv

-----------------------------------------------------------------------------
\* Sets of flows are finite.
LEMMA HoldersFinite ==
    ASSUME NEW a PROVE IsFiniteSet(Holders(a)) /\ Cardinality(Holders(a)) \in Nat
<1>1. Holders(a) \in SUBSET Flows
    BY DEF Holders
<1> QED BY <1>1, FiniteAssumption, FS_Subset, FS_CardinalityType

\* No flow holds an entry that pruning may take.
LEMMA ReclaimableUnheld ==
    ASSUME IndexInv, RefCount, NEW a \in Addrs, Reclaimable(a)
    PROVE  Holders(a) = {}
<1>1. Cardinality(Holders(a)) = 0
    BY DEF RefCount, Reclaimable
<1> QED BY <1>1, HoldersFinite, FS_EmptySet

\* Deleting the entries of S changes no reference count elsewhere.
LEMMA DeleteRefCount ==
    ASSUME IndexInv, RefCount, NEW S \in SUBSET Addrs, DeleteUntracked(S)
    PROVE  RefCount'
<1> SUFFICES ASSUME NEW a \in Addrs, byAddress'[a] # Nil
             PROVE  byAddress'[a].references = Cardinality(Holders(a)')
    BY DEF RefCount
<1>1. a \notin S /\ byAddress'[a] = byAddress[a]
    BY DEF DeleteUntracked
<1>2. ASSUME NEW f \in Flows
      PROVE  (flows'[f] # Nil /\ flows'[f].attached /\ flows'[f].address = a)
             <=> (flows[f] # Nil /\ flows[f].attached /\ flows[f].address = a)
  <2>1. flows[f] \in Held \cup {Nil} /\ flows'[f] = Detach(flows[f], S)
    BY DEF IndexInv, TypeOK, DeleteUntracked
  <2> QED BY <1>1, <2>1, DetachHeld
<1>3. Holders(a)' = Holders(a)
    BY <1>2 DEF Holders
<1> QED BY <1>1, <1>3 DEF RefCount

\* Every step keeps the reference counts equal to the number of flows that hold them.
LEMMA RefCountStep == IndexInv /\ RefCount /\ [Next]_poolVars => RefCount'
<1> SUFFICES ASSUME IndexInv, RefCount, [Next]_poolVars PROVE RefCount'
    OBVIOUS
<1>0. Expired \in SUBSET Addrs
    BY DEF Expired
<1>1. ASSUME NEW d \in Domains, Renew(d) PROVE RefCount'
  <2>1. byDomain[d] \in Addrs /\ byAddress[byDomain[d]] # Nil
    BY <1>1 DEF Renew, IndexInv, TypeOK, IndexesInverse
  <2>2. \A a \in Addrs : /\ byAddress'[a] # Nil => byAddress[a] # Nil
                         /\ byAddress[a] # Nil =>
                              byAddress'[a].references = byAddress[a].references
    BY <1>1, <2>1 DEF Renew, IndexInv, TypeOK, Entry
  <2>3. \A a \in Addrs : Holders(a)' = Holders(a)
    BY <1>1 DEF Renew, Holders
  <2> QED BY <2>2, <2>3 DEF RefCount
<1>2. ASSUME NEW d \in Domains, Allocate(d) PROVE RefCount'
  <2>1. PICK i \in ScanRange : StopsAt(i) /\ Insert(d, Candidate(i))
    BY <1>2 DEF Allocate
  <2>2. i \in 0 .. Capacity /\ i + 1 \in 0 .. Capacity
    BY OccupiedFinite, AttemptsType, CapacityAssumption DEF ScanRange
  <2> DEFINE c == Candidate(i)
  <2>3. c \in Addrs
    BY <2>2, CandidateType DEF IndexInv, TypeOK
  <2>4. byAddress[c] = Nil \/ c \in Expired
    BY <2>1, <2>3 DEF StopsAt, Occupied
  <2> HIDE DEF c
  <2>5. ASSUME NEW f \in Flows
        PROVE  /\ flows'[f] # Nil <=> flows[f] # Nil
               /\ flows[f] # Nil => /\ flows'[f].address = flows[f].address
                                    /\ flows'[f].attached <=>
                                         flows[f].attached /\ flows[f].address \notin Expired
    <3>1. flows[f] \in Held \cup {Nil} /\ flows'[f] = Detach(flows[f], Expired)
      BY <2>1 DEF IndexInv, TypeOK, Insert
    <3> QED BY <3>1, DetachHeld
  <2>6. ASSUME NEW a \in Addrs, byAddress'[a] # Nil
        PROVE  byAddress'[a].references = Cardinality(Holders(a)')
    <3>1. CASE a = c
      <4>1. byAddress'[a].references = 0
        BY <2>1, <2>3, <3>1 DEF Insert, c
      <4>2. Holders(a)' = {}
        BY <2>4, <2>5, <3>1 DEF Holders, IndexInv, FlowDomain
      <4> QED BY <4>1, <4>2, FS_EmptySet
    <3>2. CASE a # c
      <4>1. a \notin Expired /\ byAddress'[a] = byAddress[a]
        BY <2>1, <2>6, <3>2 DEF Insert, c
      <4>2. Holders(a)' = Holders(a)
        BY <2>5, <4>1 DEF Holders
      <4> QED BY <2>6, <4>1, <4>2 DEF RefCount
    <3> QED BY <3>1, <3>2
  <2> QED BY <2>6 DEF RefCount
<1>3. ASSUME NEW d \in Domains, Exhausted(d) PROVE RefCount'
  BY <1>0, <1>3, DeleteRefCount DEF Exhausted, Delete
<1>4. CASE PersistOk
  BY <1>4 DEF PersistOk, RefCount, Holders
<1>5. CASE PersistFail
  <2> DEFINE S == IF writer.attached THEN {writer.address} ELSE {}
  <2>1. S \in SUBSET Addrs /\ DeleteUntracked(S)
    BY <1>5 DEF PersistFail, IndexInv, WriterEntry
  <2> HIDE DEF S
  <2> QED BY <2>1, DeleteRefCount
<1>6. CASE FlushBegin
  BY <1>6 DEF FlushBegin, RefCount, Holders
<1>7. ASSUME NEW ok \in BOOLEAN, FlushEnd(ok) PROVE RefCount'
  BY <1>7 DEF FlushEnd, RefCount, Holders
<1>8. ASSUME NEW a \in Addrs, LookupExpired(a) PROVE RefCount'
  BY <1>8, DeleteRefCount DEF LookupExpired, Delete
<1>9. ASSUME NEW f \in Flows, NEW a \in Addrs, Acquire(f, a) PROVE RefCount'
  <2>1. byAddress[a] \in Entry
    BY <1>9 DEF Acquire, IndexInv, TypeOK
  <2>2. ASSUME NEW x \in Addrs, byAddress'[x] # Nil
        PROVE  byAddress'[x].references = Cardinality(Holders(x)')
    <3>1. CASE x = a
      <4>1. byAddress'[a].references = byAddress[a].references + 1
        BY <1>9, <2>1 DEF Acquire, IndexInv, TypeOK, Entry
      <4>2. Holders(a)' = Holders(a) \cup {f} /\ f \notin Holders(a)
        <5>1. flows'[f].attached /\ flows'[f].address = a /\ flows'[f] # Nil
          <6>1. [address |-> a, domain |-> byAddress[a].domain, attached |-> TRUE] \in Held
            BY <2>1 DEF Held, Entry
          <6>2. flows'[f] = [address |-> a, domain |-> byAddress[a].domain, attached |-> TRUE]
            BY <1>9 DEF Acquire, IndexInv, TypeOK
          <6>3. flows'[f] # Nil
            BY <6>1, <6>2, NilAssumption
          <6>4. flows'[f].attached = TRUE /\ flows'[f].address = a
            BY <6>2
          <6> QED BY <6>3, <6>4
        <5>2. \A g \in Flows : g # f => flows'[g] = flows[g]
          BY <1>9 DEF Acquire, IndexInv, TypeOK
        <5> QED BY <1>9, <5>1, <5>2 DEF Acquire, Holders
      <4>3. Cardinality(Holders(a)') = Cardinality(Holders(a)) + 1
        BY <4>2, HoldersFinite, FS_AddElement
      <4> QED BY <1>9, <3>1, <4>1, <4>3 DEF Acquire, RefCount
    <3>2. CASE x # a
      <4>1. byAddress'[x] = byAddress[x]
        BY <1>9, <3>2 DEF Acquire, IndexInv, TypeOK
      <4>2. Holders(x)' = Holders(x)
        BY <1>9, <3>2 DEF Acquire, Holders, IndexInv, TypeOK, Held
      <4> QED BY <2>2, <4>1, <4>2 DEF RefCount
    <3> QED BY <3>1, <3>2
  <2> QED BY <2>2 DEF RefCount
<1>10. ASSUME NEW f \in Flows, Release(f) PROVE RefCount'
  <2>1. flows[f] \in Held
    BY <1>10 DEF Release, IndexInv, TypeOK
  <2>2. ASSUME NEW x \in Addrs, byAddress'[x] # Nil
        PROVE  byAddress'[x].references = Cardinality(Holders(x)')
    <3>1. CASE flows[f].attached /\ flows[f].address = x
      <4>1. byAddress[x] \in Entry
        BY <1>10, <3>1 DEF Release, IndexInv, TypeOK, FlowDomain
      <4>2. f \in Holders(x)
        BY <1>10, <3>1 DEF Release, Holders
      <4>3. Cardinality(Holders(x)) # 0
        BY <4>2, HoldersFinite, FS_EmptySet
      <4>4. byAddress[x].references = Cardinality(Holders(x))
        BY <4>1, NilAssumption DEF RefCount
      <4>5. byAddress'[x].references = byAddress[x].references - 1
        BY <1>10, <3>1, <4>1, <4>3, <4>4, HoldersFinite DEF Release, IndexInv, TypeOK, Entry
      <4>6. Holders(x)' = Holders(x) \ {f}
        BY <1>10 DEF Release, Holders, IndexInv, TypeOK
      <4>7. Cardinality(Holders(x)') = Cardinality(Holders(x)) - 1
        BY <4>2, <4>6, HoldersFinite, FS_RemoveElement
      <4> QED BY <4>4, <4>5, <4>7
    <3>2. CASE ~(flows[f].attached /\ flows[f].address = x)
      <4>1. byAddress'[x] = byAddress[x]
        BY <1>10, <3>2 DEF Release, IndexInv, TypeOK
      <4>2. Holders(x)' = Holders(x)
        BY <1>10, <3>2 DEF Release, Holders, IndexInv, TypeOK
      <4> QED BY <2>2, <4>1, <4>2 DEF RefCount
    <3> QED BY <3>1, <3>2
  <2> QED BY <2>2 DEF RefCount
<1>11. CASE Prune
  BY <1>0, <1>11, DeleteRefCount DEF Prune, Delete
<1>12. CASE Tick
  BY <1>12 DEF Tick, RefCount, Holders
<1>13. CASE UNCHANGED poolVars
  BY <1>13 DEF poolVars, RefCount, Holders
<1> QED BY <1>1, <1>2, <1>3, <1>4, <1>5, <1>6, <1>7, <1>8, <1>9, <1>10,
           <1>11, <1>12, <1>13 DEF Next

\* Reference counts are exact in every reachable state.
THEOREM PoolRefCount == Spec => []RefCount
<1>1. Init => RefCount
    BY DEF Init, RefCount
<1> QED BY <1>1, RefCountStep, IndexInvHolds, PTL DEF Spec

-----------------------------------------------------------------------------
\* What makes AnswerStable inductive: the entry of a cached answer outlives the
\* answer, the entry being persisted was not answered for yet, and an entry does
\* not expire while it is persisted.
CacheInv == PromptIO =>
    /\ \A x \in answers :
          /\ now < x.until /\ x.until <= now + DnsTTL
          /\ byAddress[x.address] # Nil
          /\ byAddress[x.address].domain = x.domain
          /\ x.until <= byAddress[x.address].expiresAt
          /\ (writer # Nil /\ writer.op = "alloc") => x.address # writer.address
    /\ (writer # Nil /\ writer.op = "alloc") =>
          /\ writer.attached
          /\ now <= writer.startedAt + MaxPersistDelay
          /\ byAddress[writer.address] # Nil
          /\ byAddress[writer.address].domain = writer.domain
          /\ byAddress[writer.address].expiresAt = writer.startedAt + MappingTTL

\* The entry under a cached answer, or under the allocation in progress, cannot be
\* reclaimed.
LEMMA CachedNotReclaimable ==
    ASSUME IndexInv, CacheInv, PromptIO, NEW a \in Addrs, Reclaimable(a)
    PROVE  /\ \A x \in answers : x.address # a
           /\ (writer # Nil /\ writer.op = "alloc") => writer.address # a
<1>1. byAddress[a] \in Entry /\ byAddress[a].expiresAt <= now
    BY DEF Reclaimable, IndexInv, TypeOK
<1>2. ASSUME NEW x \in answers, x.address = a PROVE FALSE
    BY <1>1, <1>2 DEF CacheInv, IndexInv, TypeOK, Answer, Entry
<1>3. ASSUME writer # Nil, writer.op = "alloc", writer.address = a PROVE FALSE
  <2>1. writer.startedAt \in Nat /\ now \in Nat
    BY <1>3 DEF IndexInv, TypeOK, Writer
  <2> QED BY <1>1, <1>3, <2>1, TTLAssumption DEF CacheInv, PromptIO
<1> QED BY <1>2, <1>3

\* A deletion of reclaimable entries keeps CacheInv.
LEMMA DeleteCacheInv ==
    ASSUME IndexInv, CacheInv, NEW S \in SUBSET Addrs, \A a \in S : Reclaimable(a),
           Delete(S), UNCHANGED <<now, answers>>
    PROVE  CacheInv'
<1> SUFFICES ASSUME PromptIO PROVE CacheInv'
    BY DEF CacheInv, PromptIO
<1>1. writer \in Writer \cup {Nil} /\ writer' = Detach(writer, S)
    BY DEF IndexInv, TypeOK, Delete
<1>2. /\ writer' # Nil <=> writer # Nil
      /\ writer # Nil => /\ writer'.op = writer.op /\ writer'.address = writer.address
                         /\ writer'.domain = writer.domain
                         /\ writer'.startedAt = writer.startedAt
                         /\ writer'.attached <=> writer.attached /\ writer.address \notin S
    BY <1>1, DetachWriter
<1>3. ASSUME NEW x \in answers
      PROVE  x.address \in Addrs /\ byAddress'[x.address] = byAddress[x.address]
    BY CachedNotReclaimable DEF Delete, DeleteUntracked, IndexInv, TypeOK, Answer
<1>4. ASSUME writer # Nil, writer.op = "alloc"
      PROVE  /\ writer.address \in Addrs /\ writer.address \notin S
             /\ byAddress'[writer.address] = byAddress[writer.address]
    BY <1>4, CachedNotReclaimable DEF Delete, DeleteUntracked, IndexInv, WriterEntry
<1> QED BY <1>2, <1>3, <1>4 DEF CacheInv, PromptIO

\* Every step keeps the mappings behind cached answers and behind the answer under way.
LEMMA CacheInvStep == IndexInv /\ CacheInv /\ [Next]_poolVars => CacheInv'
<1> SUFFICES ASSUME IndexInv, CacheInv, [Next]_poolVars, PromptIO PROVE CacheInv'
    BY DEF CacheInv, PromptIO
<1>0. /\ MappingTTL \in Nat /\ DnsTTL \in Nat /\ MaxPersistDelay \in Nat /\ now \in Nat
      /\ DnsTTL >= 1 /\ DnsTTL + MaxPersistDelay <= MappingTTL
      /\ Expired \in SUBSET Addrs /\ \A a \in Expired : Reclaimable(a)
    BY TTLAssumption DEF Expired, IndexInv, TypeOK, PromptIO
<1>1. ASSUME NEW d \in Domains, Renew(d) PROVE CacheInv'
  <2>1. byDomain[d] \in Addrs /\ byAddress[byDomain[d]] # Nil
        /\ byAddress[byDomain[d]].domain = d
    BY <1>1 DEF Renew, IndexInv, TypeOK, IndexesInverse
  <2>2. byAddress[byDomain[d]] \in Entry
    BY <2>1 DEF IndexInv, TypeOK
  <2>3. ASSUME NEW a \in Addrs, byAddress[a] # Nil
        PROVE  /\ byAddress'[a] # Nil /\ byAddress'[a].domain = byAddress[a].domain
               /\ byAddress'[a].expiresAt =
                    IF a = byDomain[d] THEN now + MappingTTL ELSE byAddress[a].expiresAt
    BY <1>0, <1>1, <2>2, <2>3, NilAssumption DEF Renew, IndexInv, TypeOK, Entry
  <2>4. ASSUME NEW x \in answers'
        PROVE  /\ now' < x.until /\ x.until <= now' + DnsTTL
               /\ byAddress'[x.address] # Nil
               /\ byAddress'[x.address].domain = x.domain
               /\ x.until <= byAddress'[x.address].expiresAt
    <3>1. CASE x \in answers
      <4>1. x \in Answer /\ now < x.until /\ x.until <= byAddress[x.address].expiresAt
            /\ x.until <= now + DnsTTL
            /\ byAddress[x.address] # Nil /\ byAddress[x.address].domain = x.domain
        BY <3>1 DEF CacheInv, IndexInv, TypeOK
      <4>2. CASE x.address # byDomain[d]
        BY <1>1, <2>3, <4>1, <4>2 DEF Renew, Answer
      <4>3. CASE x.address = byDomain[d]
        <5>1. x.until <= now + MappingTTL
          BY <1>0, <4>1 DEF Answer
        <5> QED BY <1>1, <2>3, <4>1, <4>3, <5>1 DEF Renew, Answer
      <4> QED BY <4>2, <4>3
    <3>2. CASE x \notin answers
      <4>1. x = [domain |-> d, address |-> byDomain[d], until |-> now + DnsTTL]
        BY <1>1, <2>4, <3>2 DEF Renew
      <4> QED BY <1>0, <1>1, <2>1, <2>3, <4>1 DEF Renew
    <3> QED BY <3>1, <3>2
  <2> QED BY <1>1, <2>4 DEF Renew, CacheInv
<1>2. ASSUME NEW d \in Domains, Allocate(d) PROVE CacheInv'
  <2>1. PICK i \in ScanRange :
          /\ StopsAt(i)
          /\ Insert(d, Candidate(i))
          /\ writer' = [op |-> "alloc", domain |-> d, address |-> Candidate(i),
                        attached |-> TRUE, startedAt |-> now,
                        removed |-> pendingDeletes \cup Tracked(Expired)]
    BY <1>2 DEF Allocate
  <2>2. i \in 0 .. Capacity /\ i + 1 \in 0 .. Capacity
    BY OccupiedFinite, AttemptsType, CapacityAssumption DEF ScanRange
  <2> DEFINE c == Candidate(i)
             e == [domain |-> d, expiresAt |-> now + MappingTTL, references |-> 0]
  <2>3. c \in Addrs
    BY <2>2, CandidateType DEF IndexInv, TypeOK
  <2>4. byAddress[c] = Nil \/ c \in Expired
    BY <2>1, <2>3 DEF StopsAt, Occupied
  <2>5. e \in Entry
    BY <1>0 DEF Entry
  <2>6. byAddress'[c] = e
    BY <2>1, <2>3 DEF Insert
  <2> HIDE DEF c
  <2>7. ASSUME NEW x \in answers
        PROVE  x.address \in Addrs /\ x.address # c /\ byAddress'[x.address] = byAddress[x.address]
    <3>1. x.address \in Addrs /\ byAddress[x.address] # Nil
      BY DEF CacheInv, IndexInv, TypeOK, Answer
    <3>2. x.address \notin Expired
      BY <1>0, CachedNotReclaimable
    <3> QED BY <2>1, <2>4, <3>1, <3>2 DEF Insert, c
  <2>8. /\ byAddress'[c] # Nil /\ byAddress'[c].domain = d
        /\ byAddress'[c].expiresAt = now + MappingTTL
    BY <2>5, <2>6, NilAssumption
  <2>9. writer'.address = c /\ writer'.domain = d /\ writer'.startedAt = now /\ writer'.attached
    BY <2>1 DEF c
  <2> QED BY <1>0, <1>2, <2>7, <2>8, <2>9 DEF Allocate, CacheInv
<1>3. ASSUME NEW d \in Domains, Exhausted(d) PROVE CacheInv'
  BY <1>0, <1>3, DeleteCacheInv DEF Exhausted
<1>4. CASE PersistOk
  <2>1. writer \in Writer /\ writer.address \in Addrs /\ writer.domain \in Domains
    BY <1>4 DEF PersistOk, IndexInv, TypeOK, WriterEntry
  <2>2. writer.startedAt \in Nat
    BY <2>1 DEF Writer
  <2> DEFINE y == [domain |-> writer.domain, address |-> writer.address,
                   until |-> now + DnsTTL]
  <2>3. /\ now < y.until /\ y.until <= now + DnsTTL
        /\ byAddress[y.address] # Nil
        /\ byAddress[y.address].domain = y.domain
        /\ y.until <= byAddress[y.address].expiresAt
    BY <1>0, <1>4, <2>1, <2>2 DEF PersistOk, CacheInv
  <2> QED BY <1>4, <2>3 DEF PersistOk, CacheInv
<1>5. CASE PersistFail
  <2>1. writer.address \in Addrs
    BY <1>5 DEF PersistFail, IndexInv, WriterEntry
  <2>2. ASSUME NEW x \in answers
        PROVE  byAddress'[x.address] = byAddress[x.address]
    BY <1>5 DEF PersistFail, DeleteUntracked, CacheInv, IndexInv, TypeOK, Answer
  <2> QED BY <1>5, <2>2 DEF PersistFail, CacheInv
<1>6. CASE FlushBegin
  BY <1>6 DEF FlushBegin, CacheInv
<1>7. ASSUME NEW ok \in BOOLEAN, FlushEnd(ok) PROVE CacheInv'
  BY <1>7 DEF FlushEnd, CacheInv
<1>8. ASSUME NEW a \in Addrs, LookupExpired(a) PROVE CacheInv'
  BY <1>8, DeleteCacheInv DEF LookupExpired
<1>9. ASSUME NEW f \in Flows, NEW a \in Addrs, Acquire(f, a) PROVE CacheInv'
  <2>1. \A x \in Addrs : byAddress[x] # Nil =>
          /\ byAddress'[x] # Nil /\ byAddress'[x].domain = byAddress[x].domain
          /\ byAddress'[x].expiresAt = byAddress[x].expiresAt
    BY <1>9, NilAssumption DEF Acquire, IndexInv, TypeOK, Entry
  <2>2. \A x \in answers : x.address \in Addrs
    BY DEF IndexInv, TypeOK, Answer
  <2> QED BY <1>9, <2>1, <2>2 DEF Acquire, CacheInv, IndexInv, WriterEntry
<1>10. ASSUME NEW f \in Flows, Release(f) PROVE CacheInv'
  <2>0. flows[f].attached => flows[f].address \in Addrs /\ byAddress[flows[f].address] \in Entry
    BY <1>10 DEF Release, IndexInv, TypeOK, FlowDomain, Held
  <2>1. \A x \in Addrs : byAddress[x] # Nil =>
          /\ byAddress'[x] # Nil /\ byAddress'[x].domain = byAddress[x].domain
          /\ byAddress'[x].expiresAt = byAddress[x].expiresAt
    BY <1>10, <2>0, NilAssumption DEF Release, IndexInv, TypeOK, Entry
  <2>2. \A x \in answers : x.address \in Addrs
    BY DEF IndexInv, TypeOK, Answer
  <2> QED BY <1>10, <2>1, <2>2 DEF Release, CacheInv, IndexInv, WriterEntry
<1>11. CASE Prune
  BY <1>0, <1>11, DeleteCacheInv DEF Prune
<1>12. CASE Tick
  <2>1. (writer # Nil /\ writer.op = "alloc") => writer.startedAt \in Nat
    BY DEF IndexInv, TypeOK, Writer
  <2>2. \A x \in answers : x.until \in Nat
    BY DEF IndexInv, TypeOK, Answer
  <2> QED BY <1>0, <1>12, <2>1, <2>2 DEF Tick, CacheInv
<1>13. CASE UNCHANGED poolVars
  BY <1>13 DEF poolVars, CacheInv
<1> QED BY <1>1, <1>2, <1>3, <1>4, <1>5, <1>6, <1>7, <1>8, <1>9, <1>10,
           <1>11, <1>12, <1>13 DEF Next

\* A DNS answer stays valid for as long as a client may use it.
THEOREM PoolAnswerStable == Spec => []AnswerStable
<1>1. Init => CacheInv
    BY DEF Init, CacheInv
<1>2. CacheInv => AnswerStable
    BY DEF CacheInv, AnswerStable
<1> QED BY <1>1, <1>2, CacheInvStep, IndexInvHolds, PTL DEF Spec

\* Only the roll-back of a failed allocation takes a mapping from a flow.
THEOREM PoolOnlyRollbackDetaches == Spec => OnlyRollbackDetaches
<1> DEFINE A == \A f \in Flows :
        flows[f] # Nil /\ flows[f].attached /\ flows'[f] # Nil /\ ~flows'[f].attached
          => /\ writer # Nil /\ writer' = Nil
             /\ writer.op = "alloc" /\ writer.address = flows[f].address
<1>1. IndexInv /\ RefCount /\ [Next]_poolVars => [A]_poolVars
  <2> SUFFICES ASSUME IndexInv, RefCount, Next,
                      NEW f \in Flows, flows[f] # Nil, flows[f].attached,
                      flows'[f] # Nil, ~flows'[f].attached
               PROVE  /\ writer # Nil /\ writer' = Nil
                      /\ writer.op = "alloc" /\ writer.address = flows[f].address
    OBVIOUS
  <2>0. flows[f] \in Held /\ flows[f].address \in Addrs
    BY DEF IndexInv, TypeOK, Held
  <2>1. ASSUME NEW S \in SUBSET Addrs, \A a \in S : Reclaimable(a),
               flows' = [g \in Flows |-> Detach(flows[g], S)]
        PROVE  FALSE
    <3>1. flows[f].address \in S
      BY <2>0, <2>1, DetachHeld
    <3>2. f \in Holders(flows[f].address)
      BY DEF Holders
    <3> QED BY <2>0, <2>1, <3>1, <3>2, ReclaimableUnheld
  <2>2. Expired \in SUBSET Addrs /\ \A a \in Expired : Reclaimable(a)
    BY DEF Expired
  <2>3. ASSUME flows'[f] = flows[f] PROVE FALSE
    BY <2>3
  <2>4. ASSUME NEW d \in Domains, Renew(d) PROVE FALSE
    BY <2>3, <2>4 DEF Renew
  <2>5. ASSUME NEW d \in Domains, Allocate(d) PROVE FALSE
    BY <2>1, <2>2, <2>5 DEF Allocate, Insert
  <2>6. ASSUME NEW d \in Domains, Exhausted(d) PROVE FALSE
    BY <2>1, <2>2, <2>6 DEF Exhausted, Delete, DeleteUntracked
  <2>7. CASE PersistFail
    <3>1. flows'[f] = Detach(flows[f], IF writer.attached THEN {writer.address} ELSE {})
      BY <2>7 DEF PersistFail, DeleteUntracked
    <3>2. flows[f].address \in (IF writer.attached THEN {writer.address} ELSE {})
      BY <2>0, <3>1, DetachHeld
    <3> QED BY <2>7, <3>2 DEF PersistFail
  <2>8. ASSUME NEW a \in Addrs, LookupExpired(a) PROVE FALSE
    BY <2>1, <2>8 DEF LookupExpired, Delete, DeleteUntracked
  <2>9. ASSUME NEW g \in Flows, NEW a \in Addrs, Acquire(g, a) PROVE FALSE
    BY <2>3, <2>9 DEF Acquire, IndexInv, TypeOK
  <2>10. ASSUME NEW g \in Flows, Release(g) PROVE FALSE
    BY <2>3, <2>10 DEF Release, IndexInv, TypeOK
  <2>11. CASE Prune
    BY <2>1, <2>2, <2>11 DEF Prune, Delete, DeleteUntracked
  <2>12. CASE PersistOk \/ FlushBegin \/ (\E ok \in BOOLEAN : FlushEnd(ok)) \/ Tick
    BY <2>3, <2>12 DEF PersistOk, FlushBegin, FlushEnd, Tick
  <2> QED BY <2>4, <2>5, <2>6, <2>7, <2>8, <2>9, <2>10, <2>11, <2>12 DEF Next
<1> QED BY <1>1, IndexInvHolds, PoolRefCount, PTL DEF Spec, OnlyRollbackDetaches

-----------------------------------------------------------------------------
\* Every step keeps the number of mappings within the limit.
LEMMA LimitStep ==
    IndexInv /\ WithinLimit /\ [Next]_poolVars => WithinLimit'
<1> DEFINE Used == {a \in Addrs : byAddress[a] # Nil}
<1> SUFFICES ASSUME IndexInv, WithinLimit, [Next]_poolVars PROVE WithinLimit'
    OBVIOUS
<1>0. /\ IsFiniteSet(Used) /\ Cardinality(Used) \in Nat /\ MaxMappings \in Nat
      /\ Cardinality(Used) <= MaxMappings
    BY AddrSetFinite, LimitAssumption DEF WithinLimit
<1>1. ASSUME Used' \in SUBSET Used PROVE WithinLimit'
  <2>1. Cardinality(Used') <= Cardinality(Used) /\ Cardinality(Used') \in Nat
    BY <1>0, <1>1, FS_Subset, FS_CardinalityType
  <2> QED BY <1>0, <2>1 DEF WithinLimit
<1>2. ASSUME NEW d \in Domains, Allocate(d) PROVE WithinLimit'
  <2>1. PICK i \in ScanRange : Insert(d, Candidate(i))
    BY <1>2 DEF Allocate
  <2>2. Used' \in SUBSET (Occupied \cup {Candidate(i)})
    BY <2>1 DEF Insert, Occupied
  <2>3. /\ IsFiniteSet(Occupied \cup {Candidate(i)})
        /\ Cardinality(Occupied \cup {Candidate(i)}) \in Nat
        /\ Cardinality(Occupied \cup {Candidate(i)}) <= Cardinality(Occupied) + 1
    <3>1. /\ IsFiniteSet(Occupied \cup {Candidate(i)})
          /\ Cardinality(Occupied \cup {Candidate(i)}) =
               IF Candidate(i) \in Occupied THEN Cardinality(Occupied)
                                           ELSE Cardinality(Occupied) + 1
      BY OccupiedFinite, FS_AddElement
    <3> QED BY <3>1, OccupiedFinite
  <2>4. /\ Cardinality(Used') <= Cardinality(Occupied \cup {Candidate(i)})
        /\ Cardinality(Used') \in Nat
    BY <2>2, <2>3, FS_Subset, FS_CardinalityType
  <2>5. Cardinality(Occupied) < MaxMappings
    BY <1>2 DEF Allocate, BelowLimit
  <2>6. Cardinality(Used') <= MaxMappings
    BY <1>0, <2>3, <2>4, <2>5, OccupiedFinite
  <2> QED BY <2>6 DEF WithinLimit
<1>3. ASSUME NEW S, DeleteUntracked(S) PROVE WithinLimit'
  BY <1>1, <1>3 DEF DeleteUntracked
<1>4. ASSUME NEW d \in Domains, Exhausted(d) PROVE WithinLimit'
  BY <1>3, <1>4 DEF Exhausted, Delete
<1>5. CASE PersistFail
  BY <1>3, <1>5 DEF PersistFail
<1>6. ASSUME NEW a \in Addrs, LookupExpired(a) PROVE WithinLimit'
  BY <1>3, <1>6 DEF LookupExpired, Delete
<1>7. CASE Prune
  BY <1>3, <1>7 DEF Prune, Delete
<1>8. ASSUME NEW d \in Domains, Renew(d) PROVE WithinLimit'
  <2>1. byDomain[d] \in Addrs /\ byAddress[byDomain[d]] # Nil
    BY <1>8 DEF Renew, IndexInv, TypeOK, IndexesInverse
  <2>2. \A a \in Addrs : byAddress[a] = Nil => byAddress'[a] = Nil
    BY <1>8, <2>1 DEF Renew, IndexInv, TypeOK
  <2> QED BY <1>1, <2>2
<1>9. ASSUME NEW f \in Flows, NEW a \in Addrs, Acquire(f, a) PROVE WithinLimit'
  <2>1. \A x \in Addrs : byAddress[x] = Nil => byAddress'[x] = Nil
    BY <1>9 DEF Acquire, IndexInv, TypeOK
  <2> QED BY <1>1, <2>1
<1>10. ASSUME NEW f \in Flows, Release(f) PROVE WithinLimit'
  <2>0. flows[f].attached => byAddress[flows[f].address] # Nil
    BY <1>10 DEF Release, IndexInv, FlowDomain
  <2>1. \A x \in Addrs : byAddress[x] = Nil => byAddress'[x] = Nil
    BY <1>10, <2>0 DEF Release, IndexInv, TypeOK
  <2> QED BY <1>1, <2>1
<1>11. CASE \/ PersistOk \/ FlushBegin \/ (\E ok \in BOOLEAN : FlushEnd(ok)) \/ Tick
            \/ UNCHANGED poolVars
  BY <1>1, <1>11 DEF PersistOk, FlushBegin, FlushEnd, Tick, poolVars
<1> QED BY <1>2, <1>4, <1>5, <1>6, <1>7, <1>8, <1>9, <1>10, <1>11 DEF Next

\* max_mappings is never exceeded.
THEOREM PoolWithinLimit == Spec => []WithinLimit
<1>1. Init => WithinLimit
  <2> SUFFICES ASSUME Init PROVE WithinLimit
    OBVIOUS
  <2>1. {a \in Addrs : byAddress[a] # Nil} = {}
    BY DEF Init
  <2> QED BY <2>1, FS_EmptySet, LimitAssumption DEF WithinLimit
<1> QED BY <1>1, LimitStep, IndexInvHolds, PTL DEF Spec

-----------------------------------------------------------------------------
\* Distinct steps of a scan inspect distinct addresses.
LEMMA CandidateInjective ==
    ASSUME next \in Addrs, NEW i \in Addrs, NEW j \in Addrs, i # j
    PROVE  Candidate(i) # Candidate(j)
BY CapacityAssumption DEF Candidate, Addrs

\* Below the limit the scan finds a free address: the pigeonhole principle on the
\* candidates, for every pool size and cursor position.
THEOREM PoolScanFindsFree == Spec => []ScanFindsFree
<1>1. IndexInv => ScanFindsFree
  <2> DEFINE n == Cardinality(Occupied)
  <2> SUFFICES ASSUME IndexInv, BelowLimit,
                      \A i \in ScanRange : Candidate(i) \in Occupied
               PROVE  FALSE
    BY DEF ScanFindsFree
  <2>1. n \in Nat /\ n < Capacity /\ IsFiniteSet(Occupied) /\ Capacity \in Nat
    BY OccupiedFinite, LimitAssumption, CapacityAssumption DEF BelowLimit
  <2>2. ScanRange = 0 .. n
    BY <2>1 DEF ScanRange, Attempts
  <2>3. IsFiniteSet(0 .. n) /\ Cardinality(0 .. n) = n + 1
    BY <2>1, FS_Interval
  <2> DEFINE g == [i \in 0 .. n |-> Candidate(i)]
  <2>4. g \in [0 .. n -> Occupied]
    BY <2>2
  <2>5. Cardinality(Occupied) < Cardinality(0 .. n)
    BY <2>1, <2>3
  <2>6. \E x, y \in 0 .. n : x # y /\ g[x] = g[y]
    <3> HIDE DEF g, n
    <3> QED BY <2>1, <2>3, <2>4, <2>5, FS_PigeonHole
  <2>7. PICK x \in 0 .. n, y \in 0 .. n : x # y /\ Candidate(x) = Candidate(y)
    BY <2>6
  <2>8. x \in Addrs /\ y \in Addrs
    BY <2>1 DEF Addrs
  <2> QED BY <2>7, <2>8, CandidateInjective DEF IndexInv, TypeOK
<1> QED BY <1>1, IndexInvHolds, PTL

-----------------------------------------------------------------------------
\* Replaying a journal, one record at a time

Replayable == (SUBSET Mapping) \cup {Overflow}

\* A record of epoch e changes the mappings, another is skipped.
ReplayOne(t, e, r) == IF r.epoch = e THEN ReplayRecord(t, r) ELSE t

\* g[n] has the mappings after n records.
Replays(g, t, e, records) ==
    /\ g \in [0 .. Len(records) -> Replayable]
    /\ g[0] = t
    /\ \A n \in 1 .. Len(records) : g[n] = ReplayOne(g[n - 1], e, records[n])

ReplayFrom(t, e, records) ==
    FoldLeft(LAMBDA u, r : IF r.epoch = e THEN ReplayRecord(u, r) ELSE u, t, records)

LEMMA ReplayIsFrom ==
    ASSUME NEW s, NEW records
    PROVE  Replay(s, records) = ReplayFrom(s.table, WantedEpoch(s, records), records)
BY Zenon DEF Replay, ReplayFrom

LEMMA ReplayOneType ==
    ASSUME NEW t \in Replayable, NEW e, NEW r \in Record
    PROVE  ReplayOne(t, e, r) \in Replayable
<1>1. r.mapping \in Mapping
  BY DEF Record
<1>2. CASE t = Overflow
  BY <1>2 DEF ReplayOne, ReplayRecord, Replayable
<1>3. CASE t \in SUBSET Mapping
  BY <1>1, <1>3 DEF ReplayOne, ReplayRecord, Replayable
<1> QED BY <1>2, <1>3 DEF Replayable

\* The latest index of a set of them
Latest(n) == [S \in SUBSET (1 .. n) |-> Max(S)]

LEMMA LatestChooses ==
    ASSUME NEW n \in Nat
    PROVE  /\ IsFiniteSet(1 .. n) /\ Chooses(Latest(n), 1 .. n)
           /\ \A k \in 1 .. n : Latest(n)[1 .. k] = k /\ (1 .. k) \ {k} = 1 .. (k - 1)
<1>1. IsFiniteSet(1 .. n)
  BY FS_Interval
<1>2. ASSUME NEW S \in SUBSET (1 .. n), S # {} PROVE Max(S) \in S
  <2> DEFINE T == {n - x : x \in S}
  <2>1. T \subseteq Nat /\ T # {}
    <3>1. \A x \in S : n - x \in Nat
      OBVIOUS
    <3>2. PICK x \in S : TRUE
      BY <1>2
    <3>3. n - x \in T
      OBVIOUS
    <3> QED BY <3>1, <3>3
  <2>2. PICK y \in T : \A z \in T : y <= z
    <3> HIDE DEF T
    <3> QED BY <2>1, LeastNumber
  <2>3. PICK x \in S : y = n - x
    BY <2>2
  <2>4. \A z \in S : x >= z
    <3> SUFFICES ASSUME NEW z \in S PROVE x >= z
      OBVIOUS
    <3>1. n - z \in T
      OBVIOUS
    <3>2. n - x <= n - z
      BY <2>2, <2>3, <3>1
    <3>3. x \in Nat /\ z \in Nat
      OBVIOUS
    <3> QED BY <3>2, <3>3
  <2> QED BY <2>4, Zenon DEF Max
<1>3. Chooses(Latest(n), 1 .. n)
  BY <1>2 DEF Chooses, Latest
<1>4. ASSUME NEW k \in 1 .. n PROVE Latest(n)[1 .. k] = k
  <2>1. k \in 1 .. k /\ 1 .. k \in SUBSET (1 .. n)
    OBVIOUS
  <2>2. \A y \in 1 .. k : k >= y
    OBVIOUS
  <2>3. \A z \in 1 .. k : (\A y \in 1 .. k : z >= y) => z = k
    BY <2>1
  <2>4. Max(1 .. k) \in 1 .. k /\ \A y \in 1 .. k : Max(1 .. k) >= y
    BY <2>1, <2>2, Zenon DEF Max
  <2> QED BY <2>1, <2>3, <2>4 DEF Latest
<1>5. ASSUME NEW k \in 1 .. n PROVE (1 .. k) \ {k} = 1 .. (k - 1)
  OBVIOUS
<1> QED BY <1>1, <1>3, <1>4, <1>5

\* FoldLeft is the iteration over the records.
LEMMA ReplayFromRuns ==
    ASSUME NEW t \in Replayable, NEW e, NEW records \in Seq(Record)
    PROVE  \E g : Replays(g, t, e, records) /\ ReplayFrom(t, e, records) = g[Len(records)]
<1> DEFINE n == Len(records)
           S == 1 .. n
           step == [i \in S |-> [u \in Replayable |-> ReplayOne(u, e, records[i])]]
           Runs(it) == it = [s \in SUBSET S |->
                               IF s = {} THEN t
                               ELSE IF records[Max(s)].epoch = e
                                    THEN ReplayRecord(it[s \ {Max(s)}], records[Max(s)])
                                    ELSE it[s \ {Max(s)}]]
<1>1. n \in Nat /\ DOMAIN records = S /\ \A i \in S : records[i] \in Record
  OBVIOUS
<1>2. /\ IsFiniteSet(S) /\ Chooses(Latest(n), S)
      /\ \A k \in S : Latest(n)[1 .. k] = k /\ (1 .. k) \ {k} = 1 .. (k - 1)
  BY <1>1, LatestChooses
<1>3. step \in [S -> [Replayable -> Replayable]]
  BY <1>1, ReplayOneType
<1>4. PICK it \in [SUBSET S -> Replayable] : Iterates(it, S, Latest(n), t, step)
  <2> HIDE DEF step, S, n
  <2> QED BY <1>2, <1>3, IterationExists
<1>5. \A s \in SUBSET S : s # {} => /\ Latest(n)[s] = Max(s) /\ Max(s) \in S
                                    /\ s \ {Max(s)} \in SUBSET S
  BY <1>2 DEF Latest, Chooses
<1>6. ASSUME NEW s \in SUBSET S, s # {}
      PROVE  it[s] = ReplayOne(it[s \ {Max(s)}], e, records[Max(s)])
  <2>1. it[s] = step[Latest(n)[s]][it[s \ {Latest(n)[s]}]]
    <3> HIDE DEF step, S, n
    <3> QED BY <1>4, <1>6 DEF Iterates
  <2>2. it[s \ {Max(s)}] \in Replayable /\ Max(s) \in S /\ Latest(n)[s] = Max(s)
    BY <1>4, <1>5, <1>6
  <2> QED BY <2>1, <2>2
<1>7. it[{}] = t
  <2> HIDE DEF step, S, n
  <2> QED BY <1>4 DEF Iterates
<1>8. Runs(it)
  <2> HIDE DEF step, S, n
  <2> QED BY <1>4, <1>6, <1>7 DEF ReplayOne
<1>9. PICK jt : Runs(jt) /\ ReplayFrom(t, e, records) = jt[S]
  <2>1. S = DOMAIN records
    BY <1>1
  <2> HIDE DEF S
  <2> QED BY <1>8, <2>1, Zenon DEF ReplayFrom, FoldLeft, MapThenFoldSet
<1>10. jt[S] = it[S]
  <2> DEFINE Good == {s \in SUBSET S : jt[s] = it[s]}
  <2>1. {} \in Good
    BY <1>7, <1>9
  <2>2. ASSUME NEW s \in SUBSET S, s # {}, s \ {Latest(n)[s]} \in Good PROVE s \in Good
    <3>1. jt[s \ {Max(s)}] = it[s \ {Max(s)}]
      BY <1>5, <2>2
    <3>2. jt[s] = ReplayOne(jt[s \ {Max(s)}], e, records[Max(s)])
      BY <1>9, <2>2 DEF ReplayOne
    <3> QED BY <1>6, <2>2, <3>1, <3>2
  <2>3. \A s \in SUBSET S : s \in Good
    <3> HIDE DEF Good, S, n
    <3> QED BY <1>2, <2>1, <2>2, SubsetInduction
  <2> QED BY <2>3
<1> DEFINE g == [k \in 0 .. n |-> it[1 .. k]]
<1>11. \A k \in 0 .. n : g[k] \in Replayable
  <2>1. \A k \in 0 .. n : 1 .. k \in SUBSET S
    BY <1>1
  <2> QED BY <1>4, <2>1
<1>12. g[0] = t
  <2>1. 1 .. 0 = {}
    OBVIOUS
  <2> QED BY <1>1, <1>7, <2>1
<1>13. ASSUME NEW k \in 1 .. n PROVE g[k] = ReplayOne(g[k - 1], e, records[k])
  <2>1. 1 .. k \in SUBSET S /\ 1 .. k # {} /\ k - 1 \in 0 .. n
    BY <1>1, SMTT(30)
  <2>2. Max(1 .. k) = k /\ (1 .. k) \ {k} = 1 .. (k - 1)
    BY <1>2, <1>5, <2>1
  <2>3. it[1 .. k] = ReplayOne(it[1 .. (k - 1)], e, records[k])
    BY <1>6, <2>1, <2>2
  <2> QED BY <1>1, <2>1, <2>3
<1>14. Replays(g, t, e, records)
  <2> HIDE DEF g
  <2>1. g \in [0 .. n -> Replayable]
    BY <1>11 DEF g
  <2> QED BY <1>12, <1>13, <2>1 DEF Replays
<1>15. ReplayFrom(t, e, records) = g[n]
  BY <1>1, <1>9, <1>10
<1> QED BY <1>14, <1>15

\* The iteration is determined by its records.
LEMMA ReplaysUnique ==
    ASSUME NEW g, NEW h, NEW t, NEW e, NEW rs \in Seq(Record), NEW qs \in Seq(Record),
           Replays(g, t, e, rs), Replays(h, t, e, qs), Len(rs) <= Len(qs),
           \A n \in 1 .. Len(rs) : rs[n] = qs[n]
    PROVE  \A n \in 0 .. Len(rs) : g[n] = h[n]
<1> DEFINE Good == {n \in Nat : n <= Len(rs) => g[n] = h[n]}
<1>1. 0 \in Good
  BY DEF Replays
<1>2. ASSUME NEW n \in Nat, n \in Good PROVE n + 1 \in Good
  <2> SUFFICES ASSUME n + 1 <= Len(rs) PROVE g[n + 1] = h[n + 1]
    OBVIOUS
  <2>1. n + 1 \in 1 .. Len(rs) /\ n + 1 \in 1 .. Len(qs) /\ (n + 1) - 1 = n /\ g[n] = h[n]
    BY <1>2
  <2>2. g[n + 1] = ReplayOne(g[n], e, rs[n + 1]) /\ h[n + 1] = ReplayOne(h[n], e, qs[n + 1])
    BY <2>1 DEF Replays
  <2> QED BY <2>1, <2>2
<1>3. \A n \in Nat : n \in Good
  <2> HIDE DEF Good
  <2> QED BY <1>1, <1>2, NatSetInduction
<1> QED BY <1>3

\* No records change nothing; one more record changes what the others left.
LEMMA ReplayEmpty ==
    ASSUME NEW t \in Replayable, NEW e
    PROVE  ReplayFrom(t, e, <<>>) = t
<1> DEFINE none == <<>>
<1>1. none \in Seq(Record) /\ Len(none) = 0
  OBVIOUS
<1> HIDE DEF none
<1>2. PICK g : Replays(g, t, e, none) /\ ReplayFrom(t, e, none) = g[Len(none)]
  BY <1>1, ReplayFromRuns
<1>3. ReplayFrom(t, e, none) = t
  BY <1>1, <1>2 DEF Replays
<1> QED BY <1>3 DEF none

LEMMA ReplayAppend ==
    ASSUME NEW t \in Replayable, NEW e, NEW rs \in Seq(Record), NEW r \in Record
    PROVE  ReplayFrom(t, e, Append(rs, r)) = ReplayOne(ReplayFrom(t, e, rs), e, r)
<1> DEFINE n == Len(rs)
           qs == Append(rs, r)
<1>1. /\ qs \in Seq(Record) /\ Len(qs) = n + 1 /\ n \in Nat /\ qs[n + 1] = r
      /\ \A k \in 1 .. n : rs[k] = qs[k]
  OBVIOUS
<1>2. PICK g : Replays(g, t, e, rs) /\ ReplayFrom(t, e, rs) = g[n]
  BY ReplayFromRuns
<1>3. PICK h : Replays(h, t, e, qs) /\ ReplayFrom(t, e, qs) = h[n + 1]
  BY <1>1, ReplayFromRuns
<1>4. g[n] = h[n]
  <2>1. n <= Len(qs) /\ n \in 0 .. n
    BY <1>1
  <2> HIDE DEF qs
  <2> QED BY <1>1, <1>2, <1>3, <2>1, ReplaysUnique
<1>5. h[n + 1] = ReplayOne(h[n], e, r)
  <2>1. n + 1 \in 1 .. Len(qs) /\ (n + 1) - 1 = n
    BY <1>1
  <2> HIDE DEF qs
  <2> QED BY <1>1, <1>3, <2>1 DEF Replays
<1> QED BY <1>2, <1>3, <1>4, <1>5

\* Records of other epochs are skipped.
LEMMA ReplaySkips ==
    ASSUME NEW t \in Replayable, NEW e, NEW rs \in Seq(Record),
           \A n \in 1 .. Len(rs) : rs[n].epoch # e
    PROVE  ReplayFrom(t, e, rs) = t
<1>1. PICK g : Replays(g, t, e, rs) /\ ReplayFrom(t, e, rs) = g[Len(rs)]
  BY ReplayFromRuns
<1> DEFINE Good == {n \in Nat : n <= Len(rs) => g[n] = t}
<1>2. 0 \in Good
  BY <1>1 DEF Replays
<1>3. ASSUME NEW n \in Nat, n \in Good PROVE n + 1 \in Good
  <2> SUFFICES ASSUME n + 1 <= Len(rs) PROVE g[n + 1] = t
    OBVIOUS
  <2>1. n + 1 \in 1 .. Len(rs) /\ (n + 1) - 1 = n /\ g[n] = t
    BY <1>3
  <2> QED BY <1>1, <2>1 DEF Replays, ReplayOne
<1>4. \A n \in Nat : n \in Good
  <2> HIDE DEF Good
  <2> QED BY <1>2, <1>3, NatSetInduction
<1> QED BY <1>1, <1>4

-----------------------------------------------------------------------------
\* What a pool can be restored from

\* No domain and no address twice
Distinct(t) == \A m, n \in t : m.domain = n.domain \/ m.address = n.address => m = n

Table(t) == t \subseteq Mapping /\ Distinct(t) /\ Cardinality(t) <= MaxMappings

\* Such a set is no larger than the set of its addresses.
LEMMA TableBound ==
    ASSUME NEW t \in SUBSET Mapping, Distinct(t), NEW S \in SUBSET Addrs,
           \A m \in t : m.address \in S
    PROVE  IsFiniteSet(t) /\ Cardinality(t) \in Nat /\ Cardinality(t) <= Cardinality(S)
<1> DEFINE f == [m \in t |-> m.address]
<1>1. f \in Injection(t, S)
  BY DEF Injection, IsInjective, Distinct
<1>2. IsFiniteSet(S)
  BY AddrSetFinite
<1> HIDE DEF f
<1> QED BY <1>1, <1>2, FS_Injection, FS_CardinalityType

LEMMA TableFinite ==
    ASSUME NEW t \in SUBSET Mapping, Distinct(t)
    PROVE  IsFiniteSet(t) /\ Cardinality(t) \in Nat
<1>1. \A m \in t : m.address \in Addrs
  BY DEF Mapping
<1> QED BY <1>1, TableBound

LEMMA EmptyTable == Table({}) /\ {} \in Replayable
BY FS_EmptySet, LimitAssumption DEF Table, Distinct, Replayable

\* The mappings that a record leaves
Left(t, r) == {m \in t : /\ m.domain \notin r.removed \cup {r.mapping.domain}
                         /\ m.address # r.mapping.address}

\* The table after a record
After(t, r) == Left(t, r) \cup {r.mapping}

\* A record that fits gives a set of mappings to restore from.
LEMMA RecordTable ==
    ASSUME NEW t, Table(t), NEW r \in Record
    PROVE  /\ t \in Replayable
           /\ IF Cardinality(Left(t, r)) < MaxMappings
              THEN /\ ReplayRecord(t, r) = Left(t, r) \cup {r.mapping}
                   /\ Table(Left(t, r) \cup {r.mapping})
              ELSE ReplayRecord(t, r) = Overflow
<1>1. r.mapping \in Mapping /\ t # Overflow /\ t \in Replayable
  BY KindsAssumption DEF Record, Table, Overflow, Replayable
<1>2. Left(t, r) \in SUBSET Mapping /\ Distinct(Left(t, r))
  BY DEF Left, Table, Distinct
<1>3. IsFiniteSet(Left(t, r)) /\ Cardinality(Left(t, r)) \in Nat /\ MaxMappings \in Nat
  BY <1>2, TableFinite, LimitAssumption
<1>4. ReplayRecord(t, r) = IF Cardinality(Left(t, r)) >= MaxMappings THEN Overflow
                           ELSE Left(t, r) \cup {r.mapping}
  BY <1>1 DEF ReplayRecord, Left
<1>5. Distinct(Left(t, r) \cup {r.mapping})
  BY <1>2 DEF Distinct, Left
<1>6. Cardinality(Left(t, r)) < MaxMappings =>
        Cardinality(Left(t, r) \cup {r.mapping}) <= MaxMappings
  <2>1. Cardinality(Left(t, r) \cup {r.mapping}) =
          IF r.mapping \in Left(t, r) THEN Cardinality(Left(t, r))
          ELSE Cardinality(Left(t, r)) + 1
    BY <1>3, FS_AddElement
  <2> QED BY <1>3, <2>1
<1> QED BY <1>1, <1>2, <1>3, <1>4, <1>5, <1>6 DEF Table

\* So does a whole journal that is not refused for its size.
LEMMA ReplayTable ==
    ASSUME NEW t, Table(t), NEW e, NEW rs \in Seq(Record)
    PROVE  ReplayFrom(t, e, rs) = Overflow \/ Table(ReplayFrom(t, e, rs))
<1>0. t \in Replayable
  BY DEF Table, Replayable
<1>1. PICK g : Replays(g, t, e, rs) /\ ReplayFrom(t, e, rs) = g[Len(rs)]
  BY <1>0, ReplayFromRuns
<1> DEFINE Good == {n \in Nat : n <= Len(rs) => g[n] = Overflow \/ Table(g[n])}
<1>2. 0 \in Good
  BY <1>1 DEF Replays
<1>3. ASSUME NEW n \in Nat, n \in Good PROVE n + 1 \in Good
  <2> SUFFICES ASSUME n + 1 <= Len(rs) PROVE g[n + 1] = Overflow \/ Table(g[n + 1])
    OBVIOUS
  <2>1. /\ n + 1 \in 1 .. Len(rs) /\ (n + 1) - 1 = n
        /\ g[n] = Overflow \/ Table(g[n])
        /\ rs[n + 1] \in Record
    BY <1>3
  <2>2. g[n + 1] = ReplayOne(g[n], e, rs[n + 1])
    BY <1>1, <2>1 DEF Replays
  <2>3. CASE g[n] = Overflow
    BY <2>2, <2>3 DEF ReplayOne, ReplayRecord
  <2>4. CASE Table(g[n])
    BY <2>1, <2>2, <2>4, RecordTable DEF ReplayOne
  <2> QED BY <2>1, <2>3, <2>4
<1>4. \A n \in Nat : n \in Good
  <2> HIDE DEF Good
  <2> QED BY <1>2, <1>3, NatSetInduction
<1> QED BY <1>1, <1>4

-----------------------------------------------------------------------------
\* Reading a journal

JournalFile == {Nil} \cup Seq(Record \cup {Torn})

\* The records of a journal file: none when there is no file
Lines(j) == IF j = Nil THEN <<>> ELSE j

\* Only records are read.
LEMMA ReadableType ==
    ASSUME NEW j \in JournalFile
    PROVE  /\ Readable(j) \in Seq(Record)
           /\ ~HasTorn(j) => Readable(j) = Lines(j)
<1>1. CASE j = Nil
  BY <1>1 DEF Readable, Lines
<1>2. CASE j # Nil /\ ~HasTorn(j)
  <2>1. /\ j \in Seq(Record \cup {Torn}) /\ DOMAIN j = 1 .. Len(j) /\ Len(j) \in Nat
        /\ Readable(j) = j /\ Lines(j) = j
    BY <1>2 DEF Readable, HasTorn, JournalFile, Lines
  <2>2. \A i \in 1 .. Len(j) : j[i] \in Record
    BY <1>2, <2>1 DEF HasTorn
  <2>3. j \in Seq(Record)
    BY <2>1, <2>2
  <2> QED BY <2>1, <2>3
<1>3. CASE j # Nil /\ HasTorn(j)
  <2>1. j \in Seq(Record \cup {Torn}) /\ DOMAIN j = 1 .. Len(j) /\ Len(j) \in Nat
    BY <1>3 DEF JournalFile
  <2> DEFINE T == {i \in 1 .. Len(j) : j[i] = Torn}
             P(i) == j[i] = Torn /\ \A k \in 1 .. i - 1 : j[k] # Torn
             first == CHOOSE i \in DOMAIN j : P(i)
  <2>2. T \subseteq Nat /\ T # {}
    BY <1>3, <2>1 DEF HasTorn
  <2>3. PICK x \in T : \A y \in T : x <= y
    <3> HIDE DEF T
    <3> QED BY <2>2, LeastNumber
  <2>4. x \in DOMAIN j /\ P(x)
    <3>1. \A k \in 1 .. x - 1 : k \in 1 .. Len(j) /\ ~(x <= k)
      BY <2>1, <2>3
    <3> QED BY <2>1, <2>3, <3>1
  <2>5. first \in DOMAIN j /\ P(first)
    <3> HIDE DEF P
    <3> QED BY <2>4, Zenon
  <2>6. Readable(j) = SubSeq(j, 1, first - 1)
    BY <1>3 DEF Readable, HasTorn
  <2> HIDE DEF first
  <2>7. first \in Nat /\ \A k \in 1 .. first - 1 : j[k] \in Record
    BY <2>1, <2>5
  <2>8. SubSeq(j, 1, first - 1) \in Seq(Record)
    BY <2>7, SubSeqProperties
  <2> QED BY <1>3, <2>6, <2>8
<1> QED BY <1>1, <1>2, <1>3

\* After an append to a whole journal the new record is read; after half a write the
\* journal reads as before.
LEMMA ReadableAppend ==
    ASSUME NEW j \in JournalFile, ~HasTorn(j), NEW r \in Record
    PROVE  /\ Append(Lines(j), r) \in JournalFile /\ Append(Lines(j), Torn) \in JournalFile
           /\ Lines(j) \in JournalFile
           /\ Append(Lines(j), r) # Nil /\ ~HasTorn(Append(Lines(j), r))
           /\ Readable(Append(Lines(j), r)) = Append(Lines(j), r)
           /\ Lines(j) \in Seq(Record) /\ Readable(j) = Lines(j)
           /\ Readable(Lines(j)) = Lines(j) /\ ~HasTorn(Lines(j))
           /\ Readable(Append(Lines(j), Torn)) = Lines(j)
<1> DEFINE l == Lines(j)
           a == Append(l, r)
           b == Append(l, Torn)
           n == Len(l)
<1>1. Readable(j) = l /\ l \in Seq(Record)
  BY ReadableType
<1>2. n \in Nat /\ \A i \in 1 .. n : l[i] \in Record /\ l[i] # Torn
  BY <1>1, KindsAssumption
<1>3. /\ l \in Seq(Record \cup {Torn}) /\ a \in Seq(Record) /\ a \in Seq(Record \cup {Torn})
      /\ b \in Seq(Record \cup {Torn})
  BY <1>1
<1>4. l # Nil /\ a # Nil /\ b # Nil
  BY <1>3, KindsAssumption
<1>5. ~HasTorn(a) /\ ~HasTorn(l)
  BY <1>1, <1>2, <1>3, KindsAssumption DEF HasTorn
<1>6. Readable(a) = a /\ Readable(l) = l
  BY <1>3, <1>4, <1>5 DEF Readable, HasTorn
<1>7. Readable(b) = l
  <2> DEFINE P(i) == b[i] = Torn /\ \A k \in 1 .. i - 1 : b[k] # Torn
             first == CHOOSE i \in DOMAIN b : P(i)
  <2>1. /\ DOMAIN b = 1 .. n + 1 /\ b[n + 1] = Torn /\ n + 1 \in DOMAIN b
        /\ \A k \in 1 .. n : b[k] = l[k]
    BY <1>1, <1>2
  <2>2. P(n + 1)
    BY <1>2, <2>1
  <2>3. first \in DOMAIN b /\ P(first)
    <3> HIDE DEF P, b
    <3> QED BY <2>1, <2>2, Zenon
  <2>4. Readable(b) = SubSeq(b, 1, first - 1)
    BY <1>4, <2>1 DEF Readable
  <2> HIDE DEF first
  <2>5. first = n + 1
    BY <1>2, <2>1, <2>3
  <2>6. SubSeq(b, 1, n) = l
    <3>1. \A i \in 1 .. n : b[i] \in Record
      BY <1>2, <2>1
    <3> DEFINE c == SubSeq(b, 1, n)
    <3>2. c \in Seq(Record) /\ Len(c) = n /\ \A i \in 1 .. n : c[i] = b[i]
      <4> HIDE DEF b
      <4>1. /\ c \in Seq(Record) /\ Len(c) = IF 1 <= n THEN n - 1 + 1 ELSE 0
            /\ \A i \in 1 .. n - 1 + 1 : c[i] = b[1 + i - 1]
        BY <1>2, <3>1, SubSeqProperties
      <4> QED BY <1>2, <4>1
    <3> HIDE DEF c, b
    <3>3. c = l
      BY <1>1, <2>1, <3>2, SeqEqual
    <3> QED BY <3>3 DEF c
  <2> QED BY <1>2, <2>4, <2>5, <2>6
<1> QED BY <1>1, <1>3, <1>4, <1>5, <1>6, <1>7 DEF JournalFile

-----------------------------------------------------------------------------
\* What OpenPersistence restores

\* A snapshot file that OpenPersistence can decode has a table.
SnapOK(s) == IsSnap(s) /\ (s \in SnapFile => Table(s.table))

\* The epochs of a journal's records are below e.
Below(j, e) == \A i \in DOMAIN Readable(j) : Readable(j)[i].epoch < e

\* The pair of files that a process appends to, with records of epoch e.
Sound(s, j, e) ==
    /\ ValidSnap(s)
    /\ ~HasTorn(j)
    /\ ~JournalRefused(s, j)
    /\ \/ s.epoch = e
       \/ s.epoch = NoEpoch /\ \A i \in DOMAIN Readable(j) : Readable(j)[i].epoch = e

LEMMA ValidTable ==
    ASSUME NEW s, SnapOK(s), ValidSnap(s)
    PROVE  s \in SnapFile /\ s # Nil /\ Table(s.table) /\ s.table \in Replayable
<1>1. s \in SnapFile /\ s # Nil /\ Table(s.table)
  BY DEF SnapOK, IsSnap, ValidSnap
<1> QED BY <1>1 DEF Table, Replayable

\* Only the readable records count.
LEMMA RecoveredReads ==
    ASSUME NEW s, NEW j, NEW k, Readable(j) = Readable(k)
    PROVE  Recovered(s, j) = Recovered(s, k) /\ JournalRefused(s, j) = JournalRefused(s, k)
BY DEF Recovered, JournalRefused

\* Whatever is restored has no domain and no address twice and respects the limit.
LEMMA RecoveredTable ==
    ASSUME NEW s, SnapOK(s), NEW j \in JournalFile
    PROVE  Table(Recovered(s, j))
<1>1. CASE ~ValidSnap(s)
  BY <1>1, EmptyTable DEF Recovered
<1>2. CASE ValidSnap(s)
  <2>1. s \in SnapFile /\ s # Nil /\ Table(s.table)
    BY <1>2, ValidTable
  <2>2. CASE JournalRefused(s, j)
    BY <1>2, <2>1, <2>2 DEF Recovered
  <2>3. CASE ~JournalRefused(s, j)
    <3>1. Recovered(s, j) = Replay(s, Readable(j)) /\ Replay(s, Readable(j)) # Overflow
      BY <1>2, <2>1, <2>3 DEF Recovered, JournalRefused
    <3>2. Replay(s, Readable(j)) = Overflow \/ Table(Replay(s, Readable(j)))
      BY <2>1, ReadableType, ReplayTable, ReplayIsFrom
    <3> QED BY <3>1, <3>2
  <2> QED BY <2>2, <2>3
<1> QED BY <1>1, <1>2

\* A table is not the mark of a replay that failed.
LEMMA TableNotOverflow == ASSUME NEW t, Table(t) PROVE t # Overflow
BY KindsAssumption DEF Table, Overflow

\* A journal without readable records leaves the snapshot's table.
LEMMA RecoveredEmpty ==
    ASSUME NEW s, SnapOK(s), ValidSnap(s), NEW j, Readable(j) = <<>>
    PROVE  ~JournalRefused(s, j) /\ Recovered(s, j) = s.table
<1>1. s # Nil /\ Table(s.table) /\ s.table \in Replayable
  BY ValidTable
<1>2. Replay(s, Readable(j)) = s.table
  BY <1>1, ReplayEmpty, ReplayIsFrom
<1>3. ~MixedEpochs(s, Readable(j))
  BY DEF MixedEpochs
<1> QED BY <1>1, <1>2, <1>3, TableNotOverflow DEF JournalRefused, Recovered

\* A snapshot of an epoch above those of the journal supersedes the journal.
LEMMA RecoveredFresh ==
    ASSUME NEW e \in 1 .. MaxEpoch, NEW t, Table(t), NEW j \in JournalFile, Below(j, e),
           NEW s, s = [epoch |-> e, table |-> t]
    PROVE  /\ ValidSnap(s) /\ SnapOK(s) /\ ~JournalRefused(s, j) /\ Recovered(s, j) = t
           /\ s \in SnapFile
<1>1. /\ s \in SnapFile /\ s # Nil /\ s # Corrupt /\ s.epoch = e /\ s.table = t
      /\ s.epoch # NoEpoch /\ WantedEpoch(s, Readable(j)) = e
  BY KindsAssumption, WalAssumption DEF SnapFile, Table, NoEpoch, WantedEpoch
<1>2. ValidSnap(s) /\ SnapOK(s) /\ t \in Replayable
  BY <1>1 DEF ValidSnap, SnapOK, IsSnap, Table, Replayable
<1>3. Readable(j) \in Seq(Record)
  BY ReadableType
<1>4. \A n \in 1 .. Len(Readable(j)) : Readable(j)[n].epoch # e
  <2> SUFFICES ASSUME NEW n \in 1 .. Len(Readable(j)) PROVE Readable(j)[n].epoch # e
    OBVIOUS
  <2>1. n \in DOMAIN Readable(j) /\ Readable(j)[n] \in Record
    BY <1>3
  <2>2. Readable(j)[n].epoch < e /\ Readable(j)[n].epoch \in 1 .. MaxEpoch
    BY <2>1 DEF Below, Record
  <2> QED BY <2>2, WalAssumption
<1>5. Replay(s, Readable(j)) = t
  BY <1>1, <1>2, <1>3, <1>4, ReplaySkips, ReplayIsFrom
<1>6. ~MixedEpochs(s, Readable(j))
  BY <1>1 DEF MixedEpochs
<1> QED BY <1>1, <1>2, <1>5, <1>6, TableNotOverflow DEF JournalRefused, Recovered

\* A record appended by the running process is replayed on what was there.
LEMMA RecoveredAppend ==
    ASSUME NEW s, SnapOK(s), NEW j \in JournalFile, NEW e, Sound(s, j, e), e # NoEpoch,
           NEW r \in Record, r.epoch = e,
           Cardinality(Left(Recovered(s, j), r)) < MaxMappings,
           NEW k, k = Append(Lines(j), r)
    PROVE  /\ Sound(s, k, e)
           /\ Recovered(s, k) = After(Recovered(s, j), r)
<1> DEFINE rs == Readable(j)
           qs == Append(rs, r)
<1>1. /\ Readable(k) = qs /\ ~HasTorn(k) /\ rs \in Seq(Record) /\ qs \in Seq(Record)
  BY ReadableAppend DEF Sound
<1>2. ValidSnap(s) /\ s \in SnapFile /\ s # Nil /\ Table(s.table) /\ s.table \in Replayable
  BY ValidTable DEF Sound
<1>3. Recovered(s, j) = Replay(s, rs) /\ Replay(s, rs) # Overflow /\ ~MixedEpochs(s, rs)
  BY <1>2 DEF Recovered, JournalRefused, Sound
<1>4. WantedEpoch(s, qs) = e /\ (rs # <<>> => WantedEpoch(s, rs) = e)
  <2>1. CASE s.epoch = e
    BY <2>1 DEF WantedEpoch
  <2>2. CASE s.epoch # e
    <3>1. s.epoch = NoEpoch /\ \A i \in DOMAIN rs : rs[i].epoch = e
      BY <2>2 DEF Sound
    <3>2. qs # <<>> /\ Head(qs).epoch = e
      <4>1. Len(qs) = Len(rs) + 1 /\ Len(rs) \in Nat
        BY <1>1
      <4>2. Head(qs) = IF rs = <<>> THEN r ELSE rs[1]
        BY <1>1, <4>1
      <4> QED BY <1>1, <3>1, <4>1, <4>2
    <3>3. rs # <<>> => Head(rs).epoch = e
      BY <1>1, <3>1
    <3> QED BY <3>1, <3>2, <3>3 DEF WantedEpoch
  <2> QED BY <2>1, <2>2
<1>5. Replay(s, rs) = ReplayFrom(s.table, e, rs)
  <2>1. CASE rs = <<>>
    BY <1>2, <2>1, ReplayEmpty, ReplayIsFrom
  <2>2. CASE rs # <<>>
    BY <1>4, <2>2, ReplayIsFrom
  <2> QED BY <2>1, <2>2
<1>6. Replay(s, qs) = ReplayRecord(Replay(s, rs), r)
  <2>1. Replay(s, qs) = ReplayFrom(s.table, e, qs)
    BY <1>4, ReplayIsFrom
  <2>2. ReplayFrom(s.table, e, qs) = ReplayOne(ReplayFrom(s.table, e, rs), e, r)
    BY <1>1, <1>2, ReplayAppend
  <2> QED BY <1>5, <2>1, <2>2 DEF ReplayOne
<1>7. Table(Replay(s, rs))
  BY <1>3, RecoveredTable
<1>8. /\ ReplayRecord(Replay(s, rs), r) = Left(Recovered(s, j), r) \cup {r.mapping}
      /\ Table(ReplayRecord(Replay(s, rs), r))
  BY <1>3, <1>7, RecordTable
<1>9. \A i \in DOMAIN qs : (i \in DOMAIN rs /\ qs[i] = rs[i]) \/ qs[i] = r
  BY <1>1
<1>10. ~MixedEpochs(s, qs)
  <2>1. s.epoch = NoEpoch => \A i \in DOMAIN qs : qs[i].epoch = e
    BY <1>9 DEF Sound
  <2> QED BY <1>4, <2>1 DEF MixedEpochs
<1>11. ~JournalRefused(s, k) /\ Recovered(s, k) = Replay(s, qs)
  BY <1>1, <1>2, <1>6, <1>8, <1>10, TableNotOverflow DEF JournalRefused, Recovered
<1>12. Sound(s, k, e)
  <2>1. \/ s.epoch = e
        \/ s.epoch = NoEpoch /\ \A i \in DOMAIN qs : qs[i].epoch = e
    BY <1>9 DEF Sound
  <2> QED BY <1>1, <1>2, <1>11, <2>1 DEF Sound
<1> QED BY <1>6, <1>8, <1>11, <1>12 DEF After

-----------------------------------------------------------------------------
\* What the pool's operations do to the names

Lists(t, d, a) == \E m \in t : m.domain = d /\ m.address = a

\* Of the domains of D a restored table t has each name, and it has no other names but
\* for domains of P.
Agrees(t, names, D, P) ==
    /\ \A d \in D : names[d] # Nil => Lists(t, d, names[d])
    /\ \A m \in t : names[m.domain] = m.address \/ m.domain \in P

Alloc == writer # Nil /\ writer.op = "alloc"
InFlight == IF Alloc THEN {writer.domain} ELSE {}

\* The deletions that the I/O in progress does not record
Unrecorded == IF writer = Nil THEN pendingDeletes ELSE pendingDeletes \ writer.removed

\* What the files hold while the I/O is in progress, and what they hold when it is done
Weak(t) == Agrees(t, byDomain, Domains \ InFlight, pendingDeletes)
Strong(t) == Agrees(t, byDomain, Domains, Unrecorded)

LEMMA StrongIsWeak == ASSUME NEW t, Strong(t) PROVE Weak(t)
BY DEF Strong, Weak, Agrees, Unrecorded

\* A domain in the table is pending for deletion only while it is allocated again.
PendingInv ==
    /\ \A d \in pendingDeletes : byDomain[d] # Nil => d \in InFlight /\ d \in writer.removed
    /\ writer # Nil => writer.removed \subseteq pendingDeletes

\* The entry that is being persisted stays in the table, unexpired.
WriterKept == Alloc =>
    /\ writer.attached
    /\ now <= writer.startedAt + MaxPersistDelay
    /\ byAddress[writer.address] # Nil
    /\ byAddress[writer.address].domain = writer.domain
    /\ byAddress[writer.address].expiresAt = writer.startedAt + MappingTTL

LEMMA WriterNotReclaimable ==
    ASSUME PromptIO, IndexInv, WriterKept, NEW a \in Addrs, Reclaimable(a), Alloc
    PROVE  writer.address # a
<1> SUFFICES ASSUME writer.address = a PROVE FALSE
  OBVIOUS
<1>1. writer.startedAt \in Nat /\ now \in Nat /\ byAddress[a].expiresAt <= now
  BY DEF IndexInv, TypeOK, Writer, Alloc, Reclaimable
<1> QED BY <1>1, TTLAssumption DEF WriterKept, PromptIO

\* Operations without I/O delete the mappings of the domains of gone.
Vanish(gone) ==
    /\ gone \subseteq Domains \ InFlight
    /\ byDomain' = [d \in Domains |-> IF d \in gone THEN Nil ELSE byDomain[d]]
    /\ \A d \in gone : byDomain[d] # Nil
    /\ pendingDeletes' = pendingDeletes \cup gone
    /\ writer' = Nil <=> writer = Nil
    /\ writer # Nil => /\ writer'.op = writer.op /\ writer'.domain = writer.domain
                       /\ writer'.address = writer.address
                       /\ writer'.removed = writer.removed
                       /\ writer'.startedAt = writer.startedAt

LEMMA DeleteVanishes ==
    ASSUME PromptIO, IndexInv, WriterKept, NEW S \in SUBSET Addrs, \A a \in S : Reclaimable(a),
           Delete(S), UNCHANGED now
    PROVE  (\E gone : Vanish(gone)) /\ WriterKept'
<1> DEFINE gone == {d \in Domains : byDomain[d] \in S}
<1>1. /\ writer \in Writer \cup {Nil} /\ writer' = Detach(writer, S)
  BY DEF IndexInv, TypeOK, Delete
<1>2. /\ writer' # Nil <=> writer # Nil
      /\ writer # Nil => /\ writer'.op = writer.op /\ writer'.address = writer.address
                         /\ writer'.domain = writer.domain /\ writer'.removed = writer.removed
                         /\ writer'.startedAt = writer.startedAt
                         /\ writer'.attached <=> writer.attached /\ writer.address \notin S
  <2>1. /\ writer' # Nil <=> writer # Nil
        /\ writer # Nil => /\ writer'.op = writer.op /\ writer'.address = writer.address
                           /\ writer'.domain = writer.domain
                           /\ writer'.startedAt = writer.startedAt
                           /\ writer'.attached <=> writer.attached /\ writer.address \notin S
    BY <1>1, DetachWriter
  <2>2. writer # Nil => writer'.removed = writer.removed
    BY <1>1 DEF Detach, Writer
  <2> QED BY <2>1, <2>2
<1>3. Alloc => writer.address \in Addrs /\ writer.address \notin S
  BY WriterNotReclaimable DEF IndexInv, WriterEntry, Alloc
<1>4. Alloc => writer.domain \notin gone /\ byAddress'[writer.address] = byAddress[writer.address]
  BY <1>3 DEF Alloc, WriterKept, IndexInv, WriterEntry, Delete, DeleteUntracked
<1>5. WriterKept'
  BY <1>2, <1>3, <1>4 DEF WriterKept, Alloc
<1>6. Tracked(S) = gone
  <2>1. ASSUME NEW a \in S PROVE byAddress[a].domain \in gone
    <3>1. byAddress[a] # Nil /\ byAddress[a] \in Entry
      BY DEF Reclaimable, IndexInv, TypeOK
    <3> QED BY <3>1 DEF IndexInv, IndexesInverse, Entry
  <2>2. ASSUME NEW d \in gone PROVE byDomain[d] \in S /\ byAddress[byDomain[d]].domain = d
    <3>1. byDomain[d] # Nil
      BY NilAssumption
    <3> QED BY <3>1 DEF IndexInv, IndexesInverse
  <2> QED BY <2>1, <2>2 DEF Tracked
<1>7. \A d \in gone : byDomain[d] # Nil
  BY NilAssumption
<1>8. byDomain' = [d \in Domains |-> IF d \in gone THEN Nil ELSE byDomain[d]]
  BY DEF Delete, DeleteUntracked
<1>9. pendingDeletes' = pendingDeletes \cup gone
  BY <1>6 DEF Delete
<1>10. gone \subseteq Domains \ InFlight
  BY <1>4 DEF InFlight
<1> HIDE DEF gone
<1>11. Vanish(gone)
  BY <1>2, <1>7, <1>8, <1>9, <1>10 DEF Vanish
<1> QED BY <1>5, <1>11

\* The operations that do no I/O
PoolOnly ==
    \/ \E d \in Domains : Renew(d) \/ Exhausted(d)
    \/ \E a \in Addrs : LookupExpired(a)
    \/ \E f \in Flows : Release(f) \/ \E a \in Addrs : Acquire(f, a)
    \/ Tick

LEMMA PoolOnlyVanishes ==
    ASSUME PromptIO, IndexInv, WriterKept, PoolOnly
    PROVE  (\E gone : Vanish(gone)) /\ WriterKept'
<1>0. Alloc => writer.address \in Addrs
  BY DEF Alloc, IndexInv, WriterEntry
<1>1. ASSUME byDomain' = byDomain, pendingDeletes' = pendingDeletes, writer' = writer
      PROVE  \E gone : Vanish(gone)
  <2>1. byDomain = [d \in Domains |-> byDomain[d]]
    BY DEF IndexInv, TypeOK
  <2>2. Vanish({})
    BY <1>1, <2>1 DEF Vanish
  <2> QED BY <2>2
<1>2. ASSUME NEW d \in Domains, Renew(d) PROVE (\E gone : Vanish(gone)) /\ WriterKept'
  BY <1>1, <1>2 DEF Renew, WriterKept, Alloc
<1>3. ASSUME NEW d \in Domains, Exhausted(d) PROVE (\E gone : Vanish(gone)) /\ WriterKept'
  <2>1. Expired \in SUBSET Addrs /\ \A a \in Expired : Reclaimable(a)
    BY DEF Expired
  <2> QED BY <1>3, <2>1, DeleteVanishes DEF Exhausted
<1>4. ASSUME NEW a \in Addrs, LookupExpired(a) PROVE (\E gone : Vanish(gone)) /\ WriterKept'
  <2>1. {a} \in SUBSET Addrs /\ \A x \in {a} : Reclaimable(x)
    BY <1>4 DEF LookupExpired
  <2> QED BY <1>4, <2>1, DeleteVanishes DEF LookupExpired
<1>5. ASSUME NEW f \in Flows, Release(f) PROVE (\E gone : Vanish(gone)) /\ WriterKept'
  <2>0. flows[f].attached => flows[f].address \in Addrs /\ byAddress[flows[f].address] \in Entry
    BY <1>5 DEF Release, IndexInv, TypeOK, FlowDomain, Held
  <2>1. \A x \in Addrs : byAddress[x] # Nil =>
          /\ byAddress'[x] # Nil /\ byAddress'[x].domain = byAddress[x].domain
          /\ byAddress'[x].expiresAt = byAddress[x].expiresAt
    BY <1>5, <2>0, NilAssumption DEF Release, IndexInv, TypeOK, Entry
  <2> QED BY <1>0, <1>1, <1>5, <2>1 DEF Release, WriterKept, Alloc
<1>6. ASSUME NEW f \in Flows, NEW a \in Addrs, Acquire(f, a)
      PROVE  (\E gone : Vanish(gone)) /\ WriterKept'
  <2>1. \A x \in Addrs : byAddress[x] # Nil =>
          /\ byAddress'[x] # Nil /\ byAddress'[x].domain = byAddress[x].domain
          /\ byAddress'[x].expiresAt = byAddress[x].expiresAt
    BY <1>6, NilAssumption DEF Acquire, IndexInv, TypeOK, Entry
  <2> QED BY <1>0, <1>1, <1>6, <2>1 DEF Acquire, WriterKept, Alloc
<1>7. CASE Tick
  <2>1. Alloc => writer.startedAt \in Nat
    BY DEF IndexInv, TypeOK, Writer, Alloc
  <2>2. now \in Nat /\ MaxPersistDelay \in Nat
    BY TTLAssumption DEF IndexInv, TypeOK
  <2>3. WriterKept'
    BY <1>7, <2>1, <2>2 DEF Tick, WriterKept, Alloc
  <2> QED BY <1>1, <1>7, <2>3 DEF Tick
<1> QED BY <1>2, <1>3, <1>4, <1>5, <1>6, <1>7 DEF PoolOnly

\* They keep what is known of any table.
LEMMA VanishKeeps ==
    ASSUME IndexInv, PendingInv, NEW gone, Vanish(gone)
    PROVE  /\ PendingInv' /\ InFlight' = InFlight
           /\ \A t \in SUBSET Mapping : Weak(t) => Weak(t)'
           /\ \A t \in SUBSET Mapping : Strong(t) => Strong(t)'
<1>1. InFlight' = InFlight /\ (Alloc' <=> Alloc)
  BY DEF Vanish, InFlight, Alloc
<1>2. PendingInv'
  BY <1>1 DEF PendingInv, Vanish, IndexInv, TypeOK
<1>3. gone \cap (pendingDeletes \cup (IF writer = Nil THEN {} ELSE writer.removed)) = {}
  BY DEF Vanish, PendingInv
<1>4. Unrecorded' = Unrecorded \cup gone
  BY <1>3 DEF Unrecorded, Vanish
<1>6. ASSUME NEW t \in SUBSET Mapping, NEW D \in SUBSET Domains, NEW P,
             Agrees(t, byDomain, D, P)
      PROVE  Agrees(t, byDomain', D, P \cup gone)
  <2>1. \A m \in t : m.domain \in Domains
    BY DEF Mapping
  <2>2. \A d \in D : byDomain'[d] # Nil => Lists(t, d, byDomain'[d])
    BY <1>6 DEF Agrees, Vanish
  <2>3. \A m \in t : byDomain'[m.domain] = m.address \/ m.domain \in P \cup gone
    BY <1>6, <2>1 DEF Agrees, Vanish
  <2> QED BY <2>2, <2>3 DEF Agrees
<1>7. pendingDeletes' = pendingDeletes \cup gone
  BY DEF Vanish
<1> QED BY <1>1, <1>2, <1>4, <1>6, <1>7 DEF Weak, Strong

\* The writer's record: its mapping replaces what it removes.
LEMMA RecordStrong ==
    ASSUME IndexInv, WriterKept, PendingInv, Alloc, NEW t \in SUBSET Mapping, Weak(t)
    PROVE  Strong(After(t, NewRecord))
<1> DEFINE n == NewRecord.mapping
           u == Left(t, NewRecord) \cup {n}
<1>1. /\ NewRecord.removed = writer.removed
      /\ n.domain = writer.domain /\ n.address = writer.address
      /\ writer.domain \in Domains /\ writer.address \in Addrs
      /\ byDomain[writer.domain] = writer.address
  BY DEF NewRecord, WriterKept, Alloc, IndexInv, WriterEntry
<1>2. ASSUME NEW d \in Domains, byDomain[d] # Nil PROVE Lists(u, d, byDomain[d])
  <2>1. CASE d = writer.domain
    BY <1>1, <2>1 DEF Lists
  <2>2. CASE d # writer.domain
    <3>1. d \in Domains \ InFlight /\ d \notin pendingDeletes /\ d \notin writer.removed
      BY <1>2, <2>2 DEF InFlight, PendingInv, Alloc
    <3>2. PICK m \in t : m.domain = d /\ m.address = byDomain[d]
      BY <1>2, <3>1 DEF Weak, Agrees, Lists
    <3>3. byDomain[d] # writer.address
      BY <1>1, <1>2, <2>2 DEF IndexInv, IndexesInverse
    <3>4. m \in Left(t, NewRecord)
      BY <1>1, <2>2, <3>1, <3>2, <3>3 DEF Left
    <3> QED BY <3>2, <3>4 DEF Lists
  <2> QED BY <2>1, <2>2
<1>3. ASSUME NEW m \in u PROVE byDomain[m.domain] = m.address \/ m.domain \in Unrecorded
  <2>1. CASE m = n
    BY <1>1, <2>1
  <2>2. CASE m # n
    BY <1>1, <2>2 DEF Left, Weak, Agrees, Unrecorded, Alloc
  <2> QED BY <2>1, <2>2
<1> HIDE DEF u
<1>4. Strong(u)
  BY <1>2, <1>3 DEF Strong, Agrees
<1> QED BY <1>4 DEF u, After

\* What GetOrAllocate does to the names before its I/O
Takes(d, c, gone) ==
    /\ d \in Domains /\ c \in Addrs /\ gone \subseteq Domains /\ byDomain[d] = Nil
    /\ byDomain' = [x \in Domains |-> IF x = d THEN c
                                      ELSE IF x \in gone THEN Nil ELSE byDomain[x]]
    /\ pendingDeletes' = pendingDeletes \cup gone
    /\ writer' = [op |-> "alloc", domain |-> d, address |-> c, attached |-> TRUE,
                  startedAt |-> now, removed |-> pendingDeletes \cup gone]
    /\ Cardinality(Occupied) < MaxMappings
    /\ \A x \in Domains \ gone : byDomain[x] # Nil => byDomain[x] \in Occupied
    /\ \A x \in gone : byDomain[x] # Nil

LEMMA AllocateTakes ==
    ASSUME IndexInv, NEW d \in Domains, Allocate(d)
    PROVE  (\E c, gone : Takes(d, c, gone)) /\ WriterKept'
<1>1. PICK i \in ScanRange :
          /\ StopsAt(i)
          /\ Insert(d, Candidate(i))
          /\ pendingDeletes' = pendingDeletes \cup Tracked(Expired)
          /\ writer' = [op |-> "alloc", domain |-> d, address |-> Candidate(i),
                        attached |-> TRUE, startedAt |-> now,
                        removed |-> pendingDeletes \cup Tracked(Expired)]
    BY DEF Allocate
<1>2. i \in 0 .. Capacity /\ i + 1 \in 0 .. Capacity
  BY OccupiedFinite, AttemptsType, CapacityAssumption DEF ScanRange
<1> DEFINE c == Candidate(i)
           gone == {x \in Domains : byDomain[x] \in Expired}
           e == [domain |-> d, expiresAt |-> now + MappingTTL, references |-> 0]
<1>3. c \in Addrs
  BY <1>2, CandidateType DEF IndexInv, TypeOK
<1>4. e \in Entry /\ byAddress'[c] = e /\ now' = now /\ now \in Nat /\ MaxPersistDelay \in Nat
  BY <1>1, <1>3, TTLAssumption DEF Insert, Entry, IndexInv, TypeOK, Allocate
<1>5. WriterKept'
  <2>1. byAddress'[c] # Nil /\ byAddress'[c].domain = d /\ byAddress'[c].expiresAt = now + MappingTTL
    BY <1>4, NilAssumption
  <2> HIDE DEF c
  <2>2. writer'.address = c /\ writer'.domain = d /\ writer'.startedAt = now /\ writer'.attached
    BY <1>1 DEF c
  <2>3. now' <= now + MaxPersistDelay
    BY <1>4
  <2> QED BY <2>1, <2>2, <2>3 DEF WriterKept
<1>6. Expired \in SUBSET Addrs /\ \A a \in Expired : byAddress[a] # Nil
  BY DEF Expired, Reclaimable
<1>7. Tracked(Expired) = gone
  <2>1. ASSUME NEW a \in Expired PROVE byAddress[a].domain \in gone
    <3>1. byAddress[a] # Nil /\ byAddress[a] \in Entry
      BY <1>6 DEF IndexInv, TypeOK
    <3> QED BY <1>6, <3>1 DEF IndexInv, IndexesInverse, Entry
  <2>2. ASSUME NEW x \in gone PROVE byDomain[x] \in Expired /\ byAddress[byDomain[x]].domain = x
    <3>1. byDomain[x] # Nil
      BY <1>6, NilAssumption
    <3> QED BY <3>1 DEF IndexInv, IndexesInverse
  <2> QED BY <2>1, <2>2 DEF Tracked
<1>8. \A x \in gone : byDomain[x] # Nil
  BY <1>6, NilAssumption
<1>9. \A x \in Domains \ gone : byDomain[x] # Nil => byDomain[x] \in Occupied
  BY DEF Occupied, IndexInv, IndexesInverse, TypeOK
<1>10. byDomain' = [x \in Domains |-> IF x = d THEN c
                                      ELSE IF x \in gone THEN Nil ELSE byDomain[x]]
  BY <1>1 DEF Insert
<1>11. byDomain[d] = Nil /\ Cardinality(Occupied) < MaxMappings
  BY DEF Allocate, BelowLimit
<1>12. Takes(d, c, gone)
  <2> HIDE DEF gone, c
  <2>1. writer' = [op |-> "alloc", domain |-> d, address |-> c, attached |-> TRUE,
                   startedAt |-> now, removed |-> pendingDeletes \cup gone]
    BY <1>1, <1>7 DEF c
  <2>2. pendingDeletes' = pendingDeletes \cup gone
    BY <1>1, <1>7
  <2>3. gone \subseteq Domains
    BY DEF gone
  <2> QED BY <1>3, <1>8, <1>9, <1>10, <1>11, <2>1, <2>2, <2>3 DEF Takes
<1> QED BY <1>5, <1>12

\* The files are as before: they hold what was known before the allocation, and its
\* record will fit.
LEMMA TakesKeeps ==
    ASSUME IndexInv, PendingInv, writer = Nil, NEW d, NEW c, NEW gone, Takes(d, c, gone),
           NEW t, Table(t), Strong(t), NEW r, r.removed = pendingDeletes \cup gone,
           r.mapping.domain = d, r.mapping.address = c
    PROVE  /\ PendingInv' /\ Weak(t)'
           /\ Cardinality(Left(t, r)) < MaxMappings
<1>1. /\ writer' # Nil /\ writer'.op = "alloc" /\ writer'.domain = d
      /\ writer'.removed = pendingDeletes \cup gone
  <2>1. pendingDeletes \cup gone \in SUBSET Domains /\ now \in Nat
    BY DEF Takes, IndexInv, TypeOK
  <2>2. writer' \in Writer
    BY <2>1 DEF Takes, Writer
  <2> QED BY <2>2, NilAssumption DEF Takes
<1>2. InFlight' = {d}
  BY <1>1 DEF InFlight, Alloc
<1>3. \A x \in pendingDeletes : byDomain[x] = Nil
  BY DEF PendingInv, InFlight, Alloc
<1>4. pendingDeletes \subseteq Domains /\ \A m \in t : m.domain \in Domains
  BY DEF IndexInv, TypeOK, Table, Mapping
<1>5. PendingInv'
  BY <1>1, <1>2, <1>3, <1>4 DEF PendingInv, Takes
<1>6. Agrees(t, byDomain, Domains, pendingDeletes)
  BY DEF Strong, Unrecorded
<1>7. Weak(t)'
  <2>1. \A x \in Domains \ {d} : byDomain'[x] # Nil => Lists(t, x, byDomain'[x])
    BY <1>6 DEF Agrees, Takes
  <2>2. \A m \in t : byDomain'[m.domain] = m.address \/ m.domain \in pendingDeletes'
    <3> SUFFICES ASSUME NEW m \in t, m.domain \notin pendingDeletes'
                 PROVE  byDomain'[m.domain] = m.address
      OBVIOUS
    <3>1. byDomain[m.domain] = m.address /\ m.domain \notin gone
      BY <1>6 DEF Agrees, Takes
    <3>2. m.address # Nil
      BY NilAssumption DEF Table, Mapping
    <3> QED BY <1>4, <3>1, <3>2 DEF Takes
  <2> QED BY <1>2, <2>1, <2>2 DEF Weak, Agrees
<1>8. \A m \in Left(t, r) : m.address \in Occupied
  <2> SUFFICES ASSUME NEW m \in Left(t, r) PROVE m.address \in Occupied
    OBVIOUS
  <2>1. m \in t /\ m.domain \notin pendingDeletes \cup gone
    BY DEF Left
  <2>2. byDomain[m.domain] = m.address /\ m.address # Nil /\ m.domain \in Domains
    BY <1>6, <2>1, NilAssumption DEF Agrees, Table, Mapping
  <2> QED BY <2>1, <2>2 DEF Takes
<1>9. Left(t, r) \in SUBSET Mapping /\ Distinct(Left(t, r)) /\ Occupied \in SUBSET Addrs
  BY DEF Left, Table, Distinct, Occupied
<1>10. /\ Cardinality(Left(t, r)) \in Nat /\ Cardinality(Left(t, r)) <= Cardinality(Occupied)
       /\ Cardinality(Occupied) \in Nat
  BY <1>8, <1>9, TableBound, OccupiedFinite
<1> QED BY <1>5, <1>7, <1>10, LimitAssumption DEF Takes

\* snapshotLocked lists the pool.
LEMMA SnapshotTable ==
    ASSUME IndexInv, WithinLimit
    PROVE  Table(Snapshot) /\ \A P : Agrees(Snapshot, byDomain, Domains, P)
<1> DEFINE Used == {a \in Addrs : byAddress[a] # Nil}
<1>1. \A m \in Snapshot : /\ m \in Mapping /\ m.address \in Used
                          /\ m.domain = byAddress[m.address].domain
                          /\ m.expiresAt = byAddress[m.address].expiresAt
                          /\ byDomain[m.domain] = m.address
  <2> SUFFICES ASSUME NEW a \in Used
               PROVE  /\ byAddress[a] \in Entry /\ byDomain[byAddress[a].domain] = a
    BY DEF Snapshot, Mapping, Entry
  <2> QED BY DEF IndexInv, TypeOK, IndexesInverse
<1>2. Snapshot \in SUBSET Mapping /\ Distinct(Snapshot)
  <2>1. ASSUME NEW m \in Snapshot, NEW n \in Snapshot,
               m.domain = n.domain \/ m.address = n.address
        PROVE  m = n
    <3>1. m.address = n.address /\ m.domain = n.domain /\ m.expiresAt = n.expiresAt
      BY <1>1, <2>1
    <3> QED BY <1>1, <3>1 DEF Mapping
  <2> QED BY <1>1, <2>1 DEF Distinct
<1>3. Used \in SUBSET Addrs
  OBVIOUS
<1>4. Cardinality(Snapshot) \in Nat /\ Cardinality(Snapshot) <= Cardinality(Used)
  <2> HIDE DEF Used
  <2> QED BY <1>1, <1>2, <1>3, TableBound
<1>5. Cardinality(Snapshot) <= MaxMappings
  BY <1>3, <1>4, AddrSetFinite, LimitAssumption DEF WithinLimit
<1>6. ASSUME NEW d \in Domains, byDomain[d] # Nil PROVE Lists(Snapshot, d, byDomain[d])
  <2> DEFINE a == byDomain[d]
  <2>1. a \in Used /\ byAddress[a].domain = d
    BY <1>6 DEF IndexInv, TypeOK, IndexesInverse
  <2>2. [domain |-> byAddress[a].domain, address |-> a, expiresAt |-> byAddress[a].expiresAt]
          \in Snapshot
    BY <2>1 DEF Snapshot
  <2> QED BY <2>1, <2>2 DEF Lists
<1> QED BY <1>1, <1>2, <1>5, <1>6 DEF Table, Agrees

\* Nothing is in progress
Asleep == writer = Nil /\ pendingDeletes = {} /\ flows = [f \in Flows |-> Nil]

\* The pool has no mapping
Empty == byDomain = [d \in Domains |-> Nil] /\ byAddress = [a \in Addrs |-> Nil]

\* The rest of the pool's state
Typed == now \in Nat /\ next \in Addrs /\ answers \subseteq Answer

LEMMA EmptyKeeps ==
    ASSUME Typed, Asleep, Empty
    PROVE  IndexInv /\ WithinLimit /\ \A P : Agrees({}, byDomain, Domains, P)
<1>1. TypeOK
  BY DEF TypeOK, Typed, Asleep, Empty
<1>2. IndexesInverse /\ FlowDomain /\ WriterEntry
  BY DEF Asleep, Empty, IndexesInverse, FlowDomain, WriterEntry
<1>3. {a \in Addrs : byAddress[a] # Nil} = {}
  BY DEF Empty
<1>4. WithinLimit
  BY <1>3, FS_EmptySet, LimitAssumption DEF WithinLimit
<1>5. \A P : Agrees({}, byDomain, Domains, P)
  BY DEF Empty, Agrees
<1> QED BY <1>1, <1>2, <1>4, <1>5 DEF IndexInv

\* A table that is restored is what the pool then has, with every mapping protected for
\* as long as a client may know it.
LEMMA RestoreKeeps ==
    ASSUME Typed, Typed', Asleep', now' = now, NEW t, Table(t), RestoreTable(t)
    PROVE  /\ IndexInv' /\ WithinLimit' /\ \A P : Agrees(t, byDomain', Domains, P)
           /\ \A m \in t : /\ byAddress'[m.address] # Nil
                           /\ byAddress'[m.address].domain = m.domain
                           /\ byAddress'[m.address].expiresAt >= now + DnsTTL
<1> DEFINE Of(a) == CHOOSE m \in t : m.address = a
           E(a) == [domain |-> Of(a).domain, expiresAt |-> Protected(Of(a).expiresAt),
                    references |-> 0]
           Named(d) == CHOOSE m \in t : m.domain = d
<1>1. \A m \in t : m \in Mapping /\ m.domain \in Domains /\ m.address \in Addrs
                   /\ m.expiresAt \in Nat /\ m.address # Nil
  BY NilAssumption DEF Table, Mapping
<1>2. ASSUME NEW m \in t PROVE Of(m.address) = m /\ Named(m.domain) = m
  <2>1. Of(m.address) \in t /\ Of(m.address).address = m.address
    BY Zenon
  <2>2. Named(m.domain) \in t /\ Named(m.domain).domain = m.domain
    BY Zenon
  <2> HIDE DEF Of, Named
  <2> QED BY <2>1, <2>2 DEF Table, Distinct
<1>3. ASSUME NEW m \in t
      PROVE  /\ byDomain'[m.domain] = m.address /\ byAddress'[m.address] = E(m.address)
  BY <1>1, <1>2 DEF RestoreTable
<1>4. ASSUME NEW e \in Nat PROVE Protected(e) \in Nat /\ Protected(e) >= now + DnsTTL
  BY TTLAssumption DEF Protected, Typed
<1>5. ASSUME NEW m \in t
      PROVE  /\ E(m.address) \in Entry /\ E(m.address).domain = m.domain
             /\ E(m.address).expiresAt >= now + DnsTTL
  <2>1. E(m.address) = [domain |-> m.domain, expiresAt |-> Protected(m.expiresAt),
                        references |-> 0]
    BY <1>2
  <2> QED BY <1>1, <1>4, <2>1 DEF Entry
<1>6. ASSUME NEW d \in Domains, ~\E m \in t : m.domain = d PROVE byDomain'[d] = Nil
  BY <1>6 DEF RestoreTable
<1>7. ASSUME NEW a \in Addrs, ~\E m \in t : m.address = a PROVE byAddress'[a] = Nil
  BY <1>7 DEF RestoreTable
<1> HIDE DEF E, Of, Named
<1>8. \A m \in t : byAddress'[m.address] \in Entry /\ byAddress'[m.address].domain = m.domain
        /\ byAddress'[m.address].expiresAt >= now + DnsTTL /\ byAddress'[m.address] # Nil
  BY <1>3, <1>5, NilAssumption
<1>9. TypeOK'
  <2>1. byDomain' \in [Domains -> Addrs \cup {Nil}]
    <3>1. \A d \in Domains : byDomain'[d] \in Addrs \cup {Nil}
      BY <1>1, <1>3, <1>6
    <3>2. byDomain' = [d \in Domains |-> byDomain'[d]]
      BY DEF RestoreTable
    <3> QED BY <3>1, <3>2
  <2>2. byAddress' \in [Addrs -> Entry \cup {Nil}]
    <3>1. \A a \in Addrs : byAddress'[a] \in Entry \cup {Nil}
      BY <1>7, <1>8
    <3>2. byAddress' = [a \in Addrs |-> byAddress'[a]]
      BY DEF RestoreTable
    <3> QED BY <3>1, <3>2
  <2> QED BY <2>1, <2>2 DEF TypeOK, Typed, Asleep
<1>10. IndexesInverse'
  <2>1. \A d \in Domains : byDomain'[d] # Nil =>
          byAddress'[byDomain'[d]] # Nil /\ byAddress'[byDomain'[d]].domain = d
    BY <1>3, <1>6, <1>8
  <2>2. \A a \in Addrs : byAddress'[a] # Nil => byDomain'[byAddress'[a].domain] = a
    BY <1>3, <1>7, <1>8
  <2> QED BY <2>1, <2>2 DEF IndexesInverse
<1>11. FlowDomain' /\ WriterEntry'
  BY DEF Asleep, FlowDomain, WriterEntry
<1>12. \A P : Agrees(t, byDomain', Domains, P)
  BY <1>1, <1>3, <1>6 DEF Agrees, Lists
<1>13. WithinLimit'
  <2> DEFINE Used == {a \in Addrs : byAddress'[a] # Nil}
             f == [m \in t |-> m.address]
  <2>1. f \in Surjection(t, Used)
    <3>1. \A m \in t : f[m] \in Used
      BY <1>1, <1>8
    <3>2. \A a \in Used : \E m \in t : f[m] = a
      BY <1>7
    <3> QED BY <3>1, <3>2 DEF Surjection
  <2>2. IsFiniteSet(t) /\ Cardinality(t) \in Nat /\ Cardinality(t) <= MaxMappings
    BY TableFinite DEF Table
  <2>3. Used \in SUBSET Addrs
    OBVIOUS
  <2> HIDE DEF f, Used
  <2>4. Cardinality(Used) <= Cardinality(t) /\ Cardinality(Used) \in Nat
    BY <2>1, <2>2, <2>3, FS_Surjection, AddrSetFinite
  <2>5. Cardinality(Used) <= MaxMappings
    BY <2>2, <2>4, LimitAssumption
  <2> QED BY <2>5 DEF Used, WithinLimit
<1> QED BY <1>8, <1>9, <1>10, <1>11, <1>12, <1>13 DEF IndexInv

-----------------------------------------------------------------------------
\* The inductive invariant: as long as no call has failed, what the files are and may
\* become at every step of the I/O.

PoolInv == IndexInv /\ WithinLimit /\ WriterKept /\ PendingInv

IOType == [pc : IOStates \ {"err"}, table : SUBSET Mapping, epoch : 0 .. MaxEpoch,
           prior : JournalFile, elsewhere : SUBSET {Nil}]

\* Epochs are drawn in increasing order; what is in a file was drawn before.
FilesInv ==
    /\ proc \in {"down", "snapshot", "init", "up"}
    /\ snap \in snapMay /\ journal \in journalMay
    /\ \A s \in snapMay : SnapOK(s) /\ (s \in SnapFile => s.epoch < nextEpoch)
    /\ \A j \in journalMay : j \in JournalFile /\ Below(j, nextEpoch)
    /\ epoch \in 0 .. MaxEpoch /\ nextEpoch \in 1 .. MaxEpoch + 1 /\ epoch < nextEpoch
    /\ io \in IOType

\* Nothing of the files is left to be synced.
Settled == snapMay = {snap} /\ journalMay = {journal}

\* A process that is not running, that has read the snapshot, that writes its first one
StartInv ==
    /\ proc = "down" => Settled /\ Asleep /\ Empty /\ io = IdleIO
    /\ proc = "snapshot" =>
         /\ journalMay = {journal} /\ Asleep /\ io = IdleIO
         /\ snap = Nil => Empty /\ \A s \in snapMay : ~ValidSnap(s)
         /\ snap # Nil => /\ snapMay = {snap} /\ ValidSnap(snap)
                          /\ Agrees(snap.table, byDomain, Domains, {})
    /\ proc = "init" =>
         Asleep /\ io.pc \in {"temp", "rename", "snapsync", "clear", "clearsync", "ok"}

\* A process that serves
UpInv == proc = "up" =>
    /\ epoch # NoEpoch
    /\ io.pc = "idle" <=> writer = Nil
    /\ io.pc \in {"record", "sync", "close"} => Alloc
    /\ \A s \in snapMay, j \in journalMay : Weak(Recovered(s, j))

\* record()
RecordInv == proc = "up" =>
    /\ io.pc = "record" =>
         /\ Settled /\ Sound(snap, journal, epoch)
         /\ Cardinality(Left(Recovered(snap, journal), NewRecord)) < MaxMappings
    /\ io.pc \in {"sync", "close"} =>
         /\ snapMay = {snap} /\ Sound(snap, journal, epoch)
         /\ Strong(Recovered(snap, journal))
         /\ io.elsewhere = IF io.prior = Nil THEN {Nil} ELSE {}
         /\ io.elsewhere \subseteq journalMay
    /\ io.pc = "close" => journalMay = io.elsewhere \cup {journal}

\* checkpoint(), and the files when either is done
CheckpointInv == proc \in {"init", "up"} =>
    /\ io.pc \in {"temp", "rename", "snapsync", "clear", "clearsync"} =>
         /\ Table(io.table) /\ Strong(io.table)
         /\ journal # Nil => journalMay \subseteq {journal, Nil}
    /\ io.pc \in {"rename", "snapsync", "clear", "clearsync"} =>
         /\ io.epoch \in 1 .. MaxEpoch /\ io.epoch < nextEpoch
         /\ \A j \in journalMay : Below(j, io.epoch)
    /\ io.pc \in {"snapsync", "clear", "clearsync"} =>
         snap = [epoch |-> io.epoch, table |-> io.table]
    /\ io.pc \in {"clear", "clearsync"} => snapMay = {snap} /\ epoch = io.epoch
    /\ io.pc = "clear" => journalMay = {journal}
    /\ io.pc = "clearsync" => journal = Nil
    /\ io.pc \in {"idle", "ok"} =>
         /\ Settled /\ epoch # NoEpoch /\ Sound(snap, journal, epoch)
         /\ Strong(Recovered(snap, journal))

Clean == PoolInv /\ FilesInv /\ StartInv /\ UpInv /\ RecordInv /\ CheckpointInv

\* Steps that leave the pool alone
LEMMA PoolSame ==
    ASSUME PoolInv, UNCHANGED poolVars
    PROVE  /\ PoolInv' /\ (Asleep' <=> Asleep) /\ (Empty' <=> Empty) /\ (Alloc' <=> Alloc)
           /\ InFlight' = InFlight /\ Unrecorded' = Unrecorded
           /\ byDomain' = byDomain /\ pendingDeletes' = pendingDeletes /\ writer' = writer
<1> USE DEF poolVars
<1>1. /\ (Asleep' <=> Asleep) /\ (Empty' <=> Empty) /\ (Alloc' <=> Alloc)
      /\ InFlight' = InFlight /\ Unrecorded' = Unrecorded
  BY DEF Asleep, Empty, Alloc, InFlight, Unrecorded
<1>2. IndexInv' /\ WithinLimit'
  BY IndexInvStep, LimitStep DEF PoolInv
<1>3. WriterKept' /\ PendingInv'
  BY <1>1 DEF PoolInv, WriterKept, PendingInv
<1> QED BY <1>1, <1>2, <1>3 DEF PoolInv

LEMMA BelowMore ==
    ASSUME NEW j \in JournalFile, NEW e \in Nat, Below(j, e)
    PROVE  Below(j, e + 1)
<1>1. Readable(j) \in Seq(Record)
  BY ReadableType
<1>2. \A i \in DOMAIN Readable(j) : Readable(j)[i] \in Record
  BY <1>1
<1>3. \A r \in Record : r.epoch \in Nat
  BY DEF Record
<1> QED BY <1>2, <1>3 DEF Below

\* What can be restored at any time is a table.
LEMMA CleanTables ==
    ASSUME FilesInv
    PROVE  \A s \in snapMay, j \in journalMay : /\ Table(Recovered(s, j))
                                                /\ Recovered(s, j) \in SUBSET Mapping
BY RecoveredTable DEF FilesInv, Table

\* The record that is to be written
LEMMA NewRecordType ==
    ASSUME PoolInv, FilesInv, Alloc, epoch # NoEpoch
    PROVE  NewRecord \in Record /\ NewRecord.epoch = epoch
<1>1. /\ writer \in Writer /\ writer.domain \in Domains /\ writer.address \in Addrs
      /\ writer.removed \in SUBSET Domains /\ writer.startedAt + MappingTTL \in Nat
  BY TTLAssumption DEF PoolInv, IndexInv, TypeOK, Alloc, WriterEntry, Writer
<1>2. epoch \in 1 .. MaxEpoch
  BY WalAssumption DEF FilesInv, NoEpoch
<1> QED BY <1>1, <1>2 DEF NewRecord, Record, Mapping

-----------------------------------------------------------------------------
\* record()

LEMMA CleanRecordWrite ==
    ASSUME Clean, RecordWrite PROVE Clean'
<1> DEFINE old == Recovered(snap, journal)
           r == NewRecord
           new == After(old, r)
           k == Append(Lines(journal), r)
           h == Append(Lines(journal), Torn)
<1>1. /\ proc = "up" /\ io.pc = "record" /\ Alloc /\ Settled /\ Sound(snap, journal, epoch)
      /\ epoch # NoEpoch /\ Cardinality(Left(old, r)) < MaxMappings /\ io \in IOType
      /\ journal \in JournalFile /\ SnapOK(snap) /\ Weak(old) /\ old \in SUBSET Mapping
      /\ ~HasTorn(journal)
  <2>1. proc = "up" /\ io.pc = "record"
    BY DEF RecordWrite, Clean, StartInv, FilesInv, IdleIO
  <2> QED BY <2>1, CleanTables DEF Clean, UpInv, RecordInv, FilesInv, Settled, Sound
<1>2. r \in Record /\ r.epoch = epoch
  BY <1>1, NewRecordType DEF Clean
<1>3. Sound(snap, k, epoch) /\ Recovered(snap, k) = new
  <2>1. Cardinality(Left(Recovered(snap, journal), r)) < MaxMappings
    BY <1>1
  <2>2. k = Append(Lines(journal), r)
    OBVIOUS
  <2>3. /\ SnapOK(snap) /\ journal \in JournalFile /\ Sound(snap, journal, epoch)
        /\ epoch # NoEpoch
    BY <1>1
  <2> HIDE DEF r, k
  <2> QED BY <1>2, <2>1, <2>2, <2>3, RecoveredAppend, ZenonT(60)
<1>4. /\ k \in JournalFile /\ h \in JournalFile /\ Lines(journal) \in JournalFile
      /\ Readable(k) = Append(Readable(journal), r) /\ Readable(h) = Readable(journal)
      /\ Readable(Lines(journal)) = Readable(journal) /\ k # Nil
  BY <1>1, <1>2, ReadableAppend
<1>5. /\ journal' = k /\ snap' = snap /\ snapMay' = snapMay /\ epoch' = epoch
      /\ nextEpoch' = nextEpoch /\ proc' = proc
      /\ journalMay' \subseteq {journal, Lines(journal), k, h}
      /\ {journal, k} \subseteq journalMay'
      /\ io' = [io EXCEPT !.pc = "sync", !.prior = journal, !.elsewhere = Elsewhere]
      /\ UNCHANGED poolVars
  BY <1>1 DEF RecordWrite, Existing, Unsynced, Lines, Settled
<1>6. Elsewhere = IF journal = Nil THEN {Nil} ELSE {}
  BY <1>1 DEF Elsewhere, Settled
<1>7. /\ io' \in IOType /\ io'.pc = "sync" /\ io'.prior = journal /\ io'.elsewhere = Elsewhere
  BY <1>1, <1>5, <1>6 DEF IOType, IOStates
<1>8. /\ PoolInv' /\ byDomain' = byDomain /\ pendingDeletes' = pendingDeletes
      /\ InFlight' = InFlight /\ Unrecorded' = Unrecorded /\ (Alloc' <=> Alloc) /\ writer' = writer
  BY <1>5, PoolSame DEF Clean
<1>9. Strong(new) /\ Weak(new)
  <2>1. Strong(new)
    BY <1>1, RecordStrong DEF Clean, PoolInv
  <2> HIDE DEF new
  <2> QED BY <2>1, StrongIsWeak
<1>10. \A j \in {journal, Lines(journal), k, h} : Recovered(snap, j) = old \/ Recovered(snap, j) = new
  BY <1>3, <1>4, RecoveredReads
<1>11. \A j \in {journal, Lines(journal), k, h} : j \in JournalFile /\ Below(j, nextEpoch)
  <2>1. Below(journal, nextEpoch) /\ epoch < nextEpoch
    BY DEF Clean, FilesInv
  <2>2. Below(k, nextEpoch)
    <3>1. Readable(journal) \in Seq(Record)
      BY <1>1, ReadableType
    <3> QED BY <1>2, <1>4, <2>1, <3>1 DEF Below
  <2>3. Below(h, nextEpoch) /\ Below(Lines(journal), nextEpoch)
    BY <1>4, <2>1 DEF Below
  <2> QED BY <1>1, <1>4, <2>1, <2>2, <2>3
<1> HIDE DEF old, new, k, h, r
<1>12. FilesInv'
  BY <1>5, <1>7, <1>11 DEF FilesInv, Clean
<1>13. StartInv'
  BY <1>1, <1>5 DEF StartInv
<1>14. UpInv'
  <2>1. \A s \in snapMay', j \in journalMay' : Weak(Recovered(s, j))
    BY <1>1, <1>5, <1>9, <1>10 DEF Settled, old
  <2>2. \A s \in snapMay', j \in journalMay' :
          Agrees(Recovered(s, j), byDomain', Domains \ InFlight', pendingDeletes')
    BY <1>8, <2>1 DEF Weak
  <2> QED BY <1>1, <1>5, <1>7, <1>8, <2>2 DEF UpInv, Weak, Alloc
<1>15. RecordInv'
  <2>1. Agrees(Recovered(snap', journal'), byDomain', Domains, Unrecorded')
    BY <1>3, <1>5, <1>8, <1>9 DEF Strong
  <2> QED BY <1>1, <1>3, <1>5, <1>6, <1>7, <2>1 DEF RecordInv, Strong, Settled
<1>16. CheckpointInv'
  BY <1>7 DEF CheckpointInv
<1> QED BY <1>8, <1>12, <1>13, <1>14, <1>15, <1>16 DEF Clean

CheckpointPcs == {"temp", "rename", "snapsync", "clear", "clearsync", "ok"}
RecordPcs == {"record", "sync", "close"}

\* A step of the I/O leaves the pool alone: what remains to be shown is about the files.
LEMMA IOStep ==
    ASSUME Clean, UNCHANGED poolVars, proc' = proc, io.pc # "idle",
           io'.pc \in RecordPcs \cup CheckpointPcs,
           io'.pc \in RecordPcs => io.pc \in RecordPcs,
           epoch' # NoEpoch \/ epoch' = epoch,
           proc = "up" => \A s \in snapMay', j \in journalMay' : Weak(Recovered(s, j)),
           FilesInv', RecordInv', CheckpointInv'
    PROVE  Clean'
<1>1. /\ PoolInv' /\ (Asleep' <=> Asleep) /\ (Alloc' <=> Alloc) /\ InFlight' = InFlight
      /\ byDomain' = byDomain /\ pendingDeletes' = pendingDeletes /\ writer' = writer
  BY PoolSame DEF Clean
<1>2. proc \in {"init", "up"}
  BY DEF Clean, FilesInv, StartInv, IdleIO
<1>3. StartInv'
  <2>1. proc = "init" => io.pc \in CheckpointPcs /\ Asleep
    BY DEF Clean, StartInv, CheckpointPcs
  <2> QED BY <1>1, <1>2, <2>1 DEF StartInv, CheckpointPcs, RecordPcs
<1>4. UpInv'
  <2> SUFFICES ASSUME proc = "up" PROVE UpInv'
    BY DEF UpInv
  <2>1. /\ epoch # NoEpoch /\ writer # Nil /\ (io.pc \in RecordPcs => Alloc)
    BY DEF Clean, UpInv, RecordPcs
  <2>2. io'.pc # "idle" /\ epoch' # NoEpoch
    BY <2>1 DEF RecordPcs, CheckpointPcs
  <2>3. \A s \in snapMay', j \in journalMay' :
          Agrees(Recovered(s, j), byDomain', Domains \ InFlight', pendingDeletes')
    BY <1>1 DEF Weak
  <2> QED BY <1>1, <2>1, <2>2, <2>3 DEF UpInv, Weak, RecordPcs
<1> QED BY <1>1, <1>3, <1>4 DEF Clean

\* Where the I/O is
LEMMA Busy ==
    ASSUME Clean, io.pc # "idle"
    PROVE  /\ proc \in {"init", "up"} /\ io \in IOType
           /\ io.pc \in RecordPcs => proc = "up" /\ Alloc
           /\ proc = "up" => \A s \in snapMay, j \in journalMay : Weak(Recovered(s, j))
<1>1. proc \in {"init", "up"} /\ io \in IOType
  BY DEF Clean, FilesInv, StartInv, IdleIO
<1> QED BY <1>1 DEF Clean, StartInv, UpInv, RecordPcs

LEMMA StrongSame ==
    ASSUME PoolInv, UNCHANGED poolVars
    PROVE  \A t : Strong(t) => Agrees(t, byDomain', Domains, Unrecorded')
BY PoolSame DEF Strong

LEMMA CleanRecordTooBig == ASSUME Clean, RecordTooBig PROVE Clean'
<1>1. /\ io.pc = "record" /\ UNCHANGED poolVars
      /\ proc' = proc /\ snap' = snap /\ snapMay' = snapMay /\ journal' = journal
      /\ journalMay' = journalMay /\ epoch' = epoch /\ nextEpoch' = nextEpoch
      /\ io' = [io EXCEPT !.pc = "temp", !.table = Snapshot]
  BY DEF RecordTooBig, diskVars
<1>3. proc = "up" /\ Alloc /\ io \in IOType /\ Settled
      /\ \A s \in snapMay, j \in journalMay : Weak(Recovered(s, j))
  BY <1>1, Busy DEF Clean, RecordInv, RecordPcs
<1>4. Table(Snapshot) /\ Strong(Snapshot)
  BY SnapshotTable DEF Clean, PoolInv, Strong
<1>5. io' \in IOType /\ io'.pc = "temp" /\ io'.table = Snapshot
  BY <1>1, <1>3, <1>4 DEF IOType, IOStates, Table
<1>6. FilesInv'
  BY <1>1, <1>5 DEF Clean, FilesInv
<1>7. RecordInv'
  BY <1>5 DEF RecordInv
<1>8. CheckpointInv'
  <2>1. Agrees(Snapshot, byDomain', Domains, Unrecorded')
    BY <1>1, <1>4, StrongSame DEF Clean
  <2>2. journalMay' = {journal'}
    BY <1>1, <1>3 DEF Settled
  <2> QED BY <1>4, <1>5, <2>1, <2>2 DEF CheckpointInv, Strong
<1> QED BY <1>1, <1>3, <1>5, <1>6, <1>7, <1>8, IOStep DEF RecordPcs, CheckpointPcs

LEMMA CleanJournalSync == ASSUME Clean, JournalSync PROVE Clean'
<1>1. /\ io.pc = "sync" /\ UNCHANGED poolVars /\ proc' = proc /\ snap' = snap
      /\ snapMay' = snapMay /\ journal' = journal /\ epoch' = epoch /\ nextEpoch' = nextEpoch
      /\ journalMay' = io.elsewhere \cup {journal} /\ io' = [io EXCEPT !.pc = "close"]
  BY DEF JournalSync, Goto
<1>2. proc = "up" /\ Alloc /\ io \in IOType
      /\ \A s \in snapMay, j \in journalMay : Weak(Recovered(s, j))
  BY <1>1, Busy DEF RecordPcs
<1>3. /\ snapMay = {snap} /\ Sound(snap, journal, epoch) /\ Strong(Recovered(snap, journal))
      /\ io.elsewhere = (IF io.prior = Nil THEN {Nil} ELSE {})
      /\ io.elsewhere \subseteq journalMay /\ journal \in journalMay
  BY <1>1, <1>2 DEF Clean, RecordInv, FilesInv
<1>4. /\ io' \in IOType /\ io'.pc = "close" /\ io'.prior = io.prior
      /\ io'.elsewhere = io.elsewhere
  BY <1>1, <1>2 DEF IOType, IOStates
<1>5. journalMay' \subseteq journalMay
  BY <1>1, <1>3
<1>6. FilesInv'
  BY <1>1, <1>4, <1>5 DEF Clean, FilesInv
<1>7. RecordInv'
  <2>1. Agrees(Recovered(snap', journal'), byDomain', Domains, Unrecorded')
    BY <1>1, <1>3, StrongSame DEF Clean
  <2> QED BY <1>1, <1>3, <1>4, <2>1 DEF RecordInv, Strong
<1>8. CheckpointInv'
  BY <1>4 DEF CheckpointInv
<1> QED BY <1>1, <1>2, <1>4, <1>5, <1>6, <1>7, <1>8, IOStep DEF RecordPcs, CheckpointPcs

LEMMA CleanJournalClose == ASSUME Clean, JournalClose PROVE Clean'
<1>1. /\ io.pc = "close" /\ UNCHANGED poolVars /\ proc' = proc /\ snap' = snap
      /\ journal' = journal /\ epoch' = epoch /\ nextEpoch' = nextEpoch
      /\ io' = [io EXCEPT !.pc = "ok"]
      /\ IF io.prior = Nil THEN snapMay' = {snap} /\ journalMay' = {journal}
         ELSE snapMay' = snapMay /\ journalMay' = journalMay
  BY DEF JournalClose, Goto
<1>2. proc = "up" /\ Alloc /\ io \in IOType /\ epoch # NoEpoch
      /\ \A s \in snapMay, j \in journalMay : Weak(Recovered(s, j))
  BY <1>1, Busy DEF RecordPcs, Clean, UpInv
<1>3. /\ snapMay = {snap} /\ Sound(snap, journal, epoch) /\ Strong(Recovered(snap, journal))
      /\ io.elsewhere = (IF io.prior = Nil THEN {Nil} ELSE {})
      /\ journalMay = io.elsewhere \cup {journal}
  BY <1>1, <1>2 DEF Clean, RecordInv
<1>4. io' \in IOType /\ io'.pc = "ok"
  BY <1>1, <1>2 DEF IOType, IOStates
<1>5. snapMay' = {snap} /\ journalMay' = {journal}
  BY <1>1, <1>3
<1>6. FilesInv'
  BY <1>1, <1>3, <1>4, <1>5 DEF Clean, FilesInv
<1>7. RecordInv'
  BY <1>4 DEF RecordInv
<1>8. CheckpointInv'
  <2>1. Agrees(Recovered(snap', journal'), byDomain', Domains, Unrecorded')
    BY <1>1, <1>3, StrongSame DEF Clean
  <2>2. Settled' /\ epoch' # NoEpoch /\ Sound(snap', journal', epoch')
    BY <1>1, <1>2, <1>3, <1>5 DEF Settled
  <2> QED BY <1>4, <2>1, <2>2 DEF CheckpointInv, Strong
<1> QED BY <1>1, <1>2, <1>3, <1>4, <1>5, <1>6, <1>7, <1>8, IOStep DEF RecordPcs, CheckpointPcs

-----------------------------------------------------------------------------
\* checkpoint()

LEMMA CleanSnapshotTemp == ASSUME Clean, SnapshotTemp PROVE Clean'
<1>1. /\ io.pc = "temp" /\ UNCHANGED poolVars /\ proc' = proc /\ snap' = snap
      /\ snapMay' = snapMay /\ journal' = journal /\ journalMay' = journalMay
      /\ epoch' = epoch /\ nextEpoch' = nextEpoch + 1 /\ nextEpoch <= MaxEpoch
      /\ io' = [io EXCEPT !.pc = "rename", !.epoch = nextEpoch]
  BY DEF SnapshotTemp, diskVars
<1>2. /\ proc \in {"init", "up"} /\ io \in IOType
      /\ proc = "up" => \A s \in snapMay, j \in journalMay : Weak(Recovered(s, j))
  BY <1>1, Busy
<1>3. /\ Table(io.table) /\ Strong(io.table)
      /\ journal # Nil => journalMay \subseteq {journal, Nil}
  BY <1>1, <1>2 DEF Clean, CheckpointInv
<1>4. nextEpoch \in 1 .. MaxEpoch /\ MaxEpoch \in Nat
  BY <1>1, WalAssumption DEF Clean, FilesInv
<1>5. /\ io' \in IOType /\ io'.pc = "rename" /\ io'.epoch = nextEpoch /\ io'.table = io.table
  <2>1. nextEpoch \in 0 .. MaxEpoch /\ "rename" \in IOStates \ {"err"}
    BY <1>4 DEF IOStates
  <2>2. ASSUME NEW e \in 0 .. MaxEpoch, NEW p \in IOStates \ {"err"}
        PROVE  [io EXCEPT !.pc = p, !.epoch = e] \in IOType
    BY <1>2 DEF IOType
  <2>3. io' \in IOType
    BY <1>1, <2>1, <2>2
  <2> QED BY <1>1, <1>2, <2>3 DEF IOType
<1>6. FilesInv'
  <2>1. \A j \in journalMay' : j \in JournalFile /\ Below(j, nextEpoch')
    BY <1>1, <1>4, BelowMore DEF Clean, FilesInv
  <2>2. \A s \in snapMay' : SnapOK(s) /\ (s \in SnapFile => s.epoch < nextEpoch')
    <3>1. \A s \in SnapFile : s.epoch \in Nat
      BY DEF SnapFile
    <3> QED BY <1>1, <1>4, <3>1 DEF Clean, FilesInv
  <2>3. epoch' \in 0 .. MaxEpoch /\ nextEpoch' \in 1 .. MaxEpoch + 1 /\ epoch' < nextEpoch'
    BY <1>1, <1>4 DEF Clean, FilesInv
  <2> QED BY <1>1, <1>5, <2>1, <2>2, <2>3 DEF Clean, FilesInv
<1>7. RecordInv'
  BY <1>5 DEF RecordInv
<1>8. CheckpointInv'
  <2>1. Agrees(io.table, byDomain', Domains, Unrecorded')
    BY <1>1, <1>3, StrongSame DEF Clean
  <2>2. \A j \in journalMay' : Below(j, io'.epoch)
    BY <1>1, <1>5 DEF Clean, FilesInv
  <2>3. io'.epoch \in 1 .. MaxEpoch /\ io'.epoch < nextEpoch'
    BY <1>1, <1>4, <1>5
  <2> QED BY <1>1, <1>3, <1>5, <2>1, <2>2, <2>3 DEF CheckpointInv, Strong
<1> QED BY <1>1, <1>2, <1>5, <1>6, <1>7, <1>8, IOStep DEF RecordPcs, CheckpointPcs

\* The new snapshot supersedes whatever journal is there.
LEMMA Supersedes ==
    ASSUME Clean, proc \in {"init", "up"}, io.pc \in {"rename", "snapsync", "clear", "clearsync"},
           NEW s, s = [epoch |-> io.epoch, table |-> io.table]
    PROVE  /\ SnapOK(s) /\ s \in SnapFile /\ s.epoch = io.epoch /\ io.epoch \in 1 .. MaxEpoch
           /\ io.epoch # NoEpoch /\ io.epoch < nextEpoch
           /\ \A j \in journalMay \cup {Nil} : Recovered(s, j) = io.table
           /\ Sound(s, Nil, io.epoch)
           /\ Strong(io.table) /\ Weak(io.table) /\ Table(io.table)
           /\ journal # Nil => journalMay \subseteq {journal, Nil}
           /\ \A j \in journalMay \cup {Nil} : Below(j, io.epoch) /\ j \in JournalFile
<1>1. /\ Table(io.table) /\ Strong(io.table) /\ io.epoch \in 1 .. MaxEpoch /\ io.epoch < nextEpoch
      /\ journal # Nil => journalMay \subseteq {journal, Nil}
      /\ \A j \in journalMay : Below(j, io.epoch) /\ j \in JournalFile
  BY DEF Clean, CheckpointInv, FilesInv
<1>2. Readable(Nil) = <<>> /\ Nil \in JournalFile /\ ~HasTorn(Nil)
  BY DEF Readable, JournalFile, HasTorn
<1>3. \A j \in journalMay \cup {Nil} : Below(j, io.epoch) /\ j \in JournalFile
  BY <1>1, <1>2 DEF Below
<1>4. \A j \in journalMay \cup {Nil} : /\ ValidSnap(s) /\ SnapOK(s) /\ ~JournalRefused(s, j)
                                       /\ Recovered(s, j) = io.table /\ s \in SnapFile
  BY <1>1, <1>3, RecoveredFresh
<1>5. Weak(io.table)
  BY <1>1, StrongIsWeak
<1>6. s.epoch = io.epoch /\ io.epoch # NoEpoch
  BY <1>1 DEF NoEpoch
<1>7. Sound(s, Nil, io.epoch)
  BY <1>2, <1>4, <1>6 DEF Sound
<1> QED BY <1>1, <1>3, <1>4, <1>5, <1>6, <1>7

LEMMA CleanSnapshotRename == ASSUME Clean, SnapshotRename PROVE Clean'
<1> DEFINE n == [epoch |-> io.epoch, table |-> io.table]
<1>1. /\ io.pc = "rename" /\ UNCHANGED poolVars /\ proc' = proc /\ snap' = n
      /\ snapMay' = snapMay \cup {n} /\ journal' = journal /\ journalMay' = journalMay
      /\ epoch' = epoch /\ nextEpoch' = nextEpoch /\ io' = [io EXCEPT !.pc = "snapsync"]
  BY DEF SnapshotRename, Goto
<1>2. /\ proc \in {"init", "up"} /\ io \in IOType
      /\ proc = "up" => \A s \in snapMay, j \in journalMay : Weak(Recovered(s, j))
  BY <1>1, Busy
<1>3. /\ SnapOK(n) /\ n \in SnapFile /\ n.epoch = io.epoch /\ io.epoch \in 1 .. MaxEpoch
      /\ io.epoch < nextEpoch
      /\ \A j \in journalMay : Recovered(n, j) = io.table
      /\ Strong(io.table) /\ Weak(io.table) /\ Table(io.table)
      /\ journal # Nil => journalMay \subseteq {journal, Nil}
      /\ \A j \in journalMay : Below(j, io.epoch)
  <2> HIDE DEF n
  <2>1. n = [epoch |-> io.epoch, table |-> io.table]
    BY DEF n
  <2> QED BY <1>1, <1>2, <2>1, Supersedes
<1>4. /\ io' \in IOType /\ io'.pc = "snapsync" /\ io'.epoch = io.epoch /\ io'.table = io.table
  BY <1>1, <1>2 DEF IOType, IOStates
<1>5. snap' = [epoch |-> io'.epoch, table |-> io'.table]
  BY <1>1, <1>4
<1> HIDE DEF n
<1>6. FilesInv'
  BY <1>1, <1>3, <1>4 DEF Clean, FilesInv
<1>7. RecordInv'
  BY <1>4 DEF RecordInv
<1>8. CheckpointInv'
  <2>1. Agrees(io.table, byDomain', Domains, Unrecorded')
    BY <1>1, <1>3, StrongSame DEF Clean
  <2> QED BY <1>1, <1>3, <1>4, <1>5, <2>1 DEF CheckpointInv, Strong
<1>9. proc = "up" => \A s \in snapMay', j \in journalMay' : Weak(Recovered(s, j))
  BY <1>1, <1>2, <1>3
<1> QED BY <1>1, <1>4, <1>6, <1>7, <1>8, <1>9, IOStep DEF RecordPcs, CheckpointPcs

LEMMA CleanSnapshotSync == ASSUME Clean, SnapshotSync PROVE Clean'
<1>1. /\ io.pc = "snapsync" /\ UNCHANGED poolVars /\ proc' = proc /\ snap' = snap
      /\ snapMay' = {snap} /\ journal' = journal
      /\ journalMay' = (IF journal = Nil THEN {Nil} ELSE journalMay \ {Nil})
      /\ epoch' = io.epoch /\ nextEpoch' = nextEpoch /\ io' = [io EXCEPT !.pc = "clear"]
  BY DEF SnapshotSync, Goto, SyncDirectory
<1>2. /\ proc \in {"init", "up"} /\ io \in IOType
      /\ proc = "up" => \A s \in snapMay, j \in journalMay : Weak(Recovered(s, j))
      /\ snap \in snapMay /\ journal \in journalMay
      /\ snap = [epoch |-> io.epoch, table |-> io.table]
  BY <1>1, Busy DEF Clean, FilesInv, CheckpointInv
<1>3. /\ io.epoch \in 1 .. MaxEpoch /\ io.epoch # NoEpoch
      /\ io.epoch < nextEpoch
      /\ Strong(io.table) /\ Table(io.table)
      /\ journal # Nil => journalMay \subseteq {journal, Nil}
      /\ \A j \in journalMay : Below(j, io.epoch)
  BY <1>1, <1>2, Supersedes
<1>4. /\ io' \in IOType /\ io'.pc = "clear" /\ io'.epoch = io.epoch /\ io'.table = io.table
  BY <1>1, <1>2 DEF IOType, IOStates
<1>5. journalMay' = {journal}
  BY <1>1, <1>2, <1>3
<1>6. FilesInv'
  BY <1>1, <1>2, <1>3, <1>4, <1>5 DEF Clean, FilesInv
<1>7. RecordInv'
  BY <1>4 DEF RecordInv
<1>8. CheckpointInv'
  <2>1. Agrees(io.table, byDomain', Domains, Unrecorded')
    BY <1>1, <1>3, StrongSame DEF Clean
  <2> QED BY <1>1, <1>2, <1>3, <1>4, <1>5, <2>1 DEF CheckpointInv, Strong
<1>9. proc = "up" => \A s \in snapMay', j \in journalMay' : Weak(Recovered(s, j))
  BY <1>1, <1>2, <1>5
<1> QED BY <1>1, <1>3, <1>4, <1>6, <1>7, <1>8, <1>9, IOStep DEF RecordPcs, CheckpointPcs

\* A checkpoint is done when the journal is gone.
LEMMA Cleared ==
    ASSUME Clean, UNCHANGED poolVars, proc' = proc, io.pc \in {"clear", "clearsync"},
           snap' = snap, snapMay' = {snap}, journal' = Nil, journalMay' = {Nil},
           epoch' = epoch, nextEpoch' = nextEpoch, io' = [io EXCEPT !.pc = "ok"]
    PROVE  Clean'
<1>1. /\ proc \in {"init", "up"} /\ io \in IOType
      /\ snap = [epoch |-> io.epoch, table |-> io.table] /\ epoch = io.epoch
  BY Busy DEF Clean, CheckpointInv
<1>2. /\ SnapOK(snap) /\ io.epoch # NoEpoch /\ Recovered(snap, Nil) = io.table
      /\ Sound(snap, Nil, io.epoch) /\ Strong(io.table) /\ Weak(io.table)
      /\ Below(Nil, io.epoch) /\ Nil \in JournalFile
  BY <1>1, Supersedes
<1>3. io' \in IOType /\ io'.pc = "ok"
  BY <1>1 DEF IOType, IOStates
<1>4. FilesInv'
  <2>1. Below(Nil, nextEpoch)
    BY DEF Below, Readable
  <2> QED BY <1>2, <1>3, <2>1 DEF Clean, FilesInv
<1>5. RecordInv'
  BY <1>3 DEF RecordInv
<1>6. CheckpointInv'
  <2>1. Agrees(Recovered(snap', journal'), byDomain', Domains, Unrecorded')
    BY <1>2, StrongSame DEF Clean
  <2>2. Settled' /\ epoch' # NoEpoch /\ Sound(snap', journal', epoch')
    BY <1>1, <1>2 DEF Settled
  <2> QED BY <1>3, <2>1, <2>2 DEF CheckpointInv, Strong
<1>7. proc = "up" => \A s \in snapMay', j \in journalMay' : Weak(Recovered(s, j))
  BY <1>2
<1> QED BY <1>1, <1>3, <1>4, <1>5, <1>6, <1>7, IOStep DEF RecordPcs, CheckpointPcs

LEMMA CleanClearJournal == ASSUME Clean, ClearJournal PROVE Clean'
<1>1. /\ io.pc = "clear" /\ UNCHANGED poolVars /\ proc' = proc /\ snap' = snap
      /\ snapMay' = snapMay /\ journal' = Nil /\ journalMay' = journalMay \cup {Nil}
      /\ epoch' = epoch /\ nextEpoch' = nextEpoch
      /\ io' = [io EXCEPT !.pc = IF journal = Nil THEN "ok" ELSE "clearsync"]
  BY DEF ClearJournal, Goto
<1>2. /\ proc \in {"init", "up"} /\ io \in IOType
      /\ snap = [epoch |-> io.epoch, table |-> io.table] /\ epoch = io.epoch
      /\ snapMay = {snap} /\ journalMay = {journal}
  BY <1>1, Busy DEF Clean, CheckpointInv
<1>3. CASE journal = Nil
  BY <1>1, <1>2, <1>3, Cleared
<1>4. CASE journal # Nil
  <2>1. /\ SnapOK(snap) /\ io.epoch # NoEpoch /\ io.epoch \in 1 .. MaxEpoch /\ io.epoch < nextEpoch
        /\ \A j \in journalMay \cup {Nil} : Recovered(snap, j) = io.table
        /\ Strong(io.table) /\ Weak(io.table) /\ Table(io.table)
        /\ \A j \in journalMay \cup {Nil} : Below(j, io.epoch) /\ j \in JournalFile
    BY <1>1, <1>2, Supersedes
  <2>2. /\ io' \in IOType /\ io'.pc = "clearsync" /\ io'.epoch = io.epoch
        /\ io'.table = io.table
    BY <1>1, <1>2, <1>4 DEF IOType, IOStates
  <2>3. FilesInv'
    <3>1. Below(Nil, nextEpoch)
      BY DEF Below, Readable
    <3> QED BY <1>1, <2>1, <2>2, <3>1 DEF Clean, FilesInv
  <2>4. RecordInv'
    BY <2>2 DEF RecordInv
  <2>5. CheckpointInv'
    <3>1. Agrees(io.table, byDomain', Domains, Unrecorded')
      BY <1>1, <2>1, StrongSame DEF Clean
    <3> QED BY <1>1, <1>2, <2>1, <2>2, <3>1 DEF CheckpointInv, Strong
  <2>6. proc = "up" => \A s \in snapMay', j \in journalMay' : Weak(Recovered(s, j))
    BY <1>1, <1>2, <2>1
  <2> QED BY <1>1, <2>2, <2>3, <2>4, <2>5, <2>6, IOStep DEF RecordPcs, CheckpointPcs
<1> QED BY <1>3, <1>4

LEMMA CleanClearSync == ASSUME Clean, ClearSync PROVE Clean'
<1>1. /\ io.pc = "clearsync" /\ UNCHANGED poolVars /\ proc' = proc /\ snap' = snap
      /\ snapMay' = {snap} /\ journal' = journal
      /\ journalMay' = (IF journal = Nil THEN {Nil} ELSE journalMay \ {Nil})
      /\ epoch' = epoch /\ nextEpoch' = nextEpoch /\ io' = [io EXCEPT !.pc = "ok"]
  BY DEF ClearSync, Goto, SyncDirectory
<1>2. journal = Nil
  BY <1>1, Busy DEF Clean, CheckpointInv
<1> QED BY <1>1, <1>2, Cleared

-----------------------------------------------------------------------------
\* The pool's operations

LEMMA IdleIOType ==
    IdleIO \in IOType /\ IdleIO.pc = "idle"
    /\ \A p \in IOStates \ {"err"}, t \in SUBSET Mapping :
         /\ [IdleIO EXCEPT !.pc = p, !.table = t] \in IOType
         /\ [IdleIO EXCEPT !.pc = p] \in IOType
<1>1. NoEpoch \in 0 .. MaxEpoch /\ Nil \in JournalFile /\ "idle" \in IOStates \ {"err"}
  BY WalAssumption DEF NoEpoch, JournalFile, IOStates
<1> QED BY <1>1 DEF IdleIO, IOType

LEMMA CleanPoolOnly ==
    ASSUME PromptIO, Clean, PoolOnly, proc # "up" => Tick, UNCHANGED walVars
    PROVE  Clean'
<1>1. /\ proc' = proc /\ snap' = snap /\ snapMay' = snapMay /\ journal' = journal
      /\ journalMay' = journalMay /\ epoch' = epoch /\ nextEpoch' = nextEpoch /\ io' = io
  BY DEF walVars
<1>2. (\E gone : Vanish(gone)) /\ WriterKept'
  BY PoolOnlyVanishes DEF Clean, PoolInv
<1>3. PICK gone : Vanish(gone)
  BY <1>2
<1>4. /\ PendingInv' /\ InFlight' = InFlight
      /\ \A t \in SUBSET Mapping : Weak(t) =>
           Agrees(t, byDomain', Domains \ InFlight', pendingDeletes')
      /\ \A t \in SUBSET Mapping : Strong(t) => Agrees(t, byDomain', Domains, Unrecorded')
  BY <1>3, VanishKeeps DEF Clean, PoolInv, Weak, Strong
<1>5. IndexInv' /\ WithinLimit'
  <2>1. Next
    BY DEF PoolOnly, Next
  <2> QED BY <2>1, IndexInvStep, LimitStep DEF Clean, PoolInv
<1>6. PoolInv'
  BY <1>2, <1>4, <1>5 DEF PoolInv
<1>7. FilesInv'
  BY <1>1 DEF Clean, FilesInv
<1>8. StartInv'
  <2>1. proc # "up" => byDomain' = byDomain /\ (Asleep' <=> Asleep) /\ (Empty' <=> Empty)
    BY DEF Tick, Asleep, Empty
  <2> QED BY <1>1, <2>1 DEF Clean, StartInv, Settled
<1>9. /\ Alloc' <=> Alloc
      /\ writer' = Nil <=> writer = Nil
      /\ Alloc => NewRecord' = NewRecord
  BY <1>1, <1>3 DEF Vanish, Alloc, NewRecord
<1>10. \A s \in snapMay, j \in journalMay : Recovered(s, j) \in SUBSET Mapping
  BY CleanTables DEF Clean
<1>11. snap \in snapMay /\ journal \in journalMay /\ io.table \in SUBSET Mapping
  BY DEF Clean, FilesInv, IOType
<1>12. UpInv'
  BY <1>1, <1>4, <1>9, <1>10 DEF Clean, UpInv, Weak
<1>13. RecordInv'
  <2> SUFFICES ASSUME proc = "up" PROVE RecordInv'
    BY <1>1 DEF RecordInv
  <2>1. ASSUME io.pc = "record"
        PROVE  /\ Settled' /\ Sound(snap', journal', epoch')
               /\ Cardinality(Left(Recovered(snap', journal'), NewRecord')) < MaxMappings
    <3>1. NewRecord' = NewRecord
      BY <1>9, <2>1 DEF Clean, UpInv
    <3> QED BY <1>1, <2>1, <3>1 DEF Clean, RecordInv, Settled
  <2>2. ASSUME io.pc \in {"sync", "close"}
        PROVE  Agrees(Recovered(snap', journal'), byDomain', Domains, Unrecorded')
    BY <1>1, <1>4, <1>10, <1>11, <2>2 DEF Clean, RecordInv
  <2> QED BY <1>1, <2>1, <2>2 DEF Clean, RecordInv, Strong
<1>14. CheckpointInv'
  <2>1. Strong(io.table) => Agrees(io.table, byDomain', Domains, Unrecorded')
    BY <1>4, <1>11
  <2>2. Strong(Recovered(snap, journal)) =>
          Agrees(Recovered(snap, journal), byDomain', Domains, Unrecorded')
    BY <1>4, <1>10, <1>11
  <2>3. Settled' <=> Settled
    BY <1>1 DEF Settled
  <2> QED BY <1>1, <2>1, <2>2, <2>3 DEF Clean, CheckpointInv, Strong
<1> QED BY <1>6, <1>7, <1>8, <1>12, <1>13, <1>14 DEF Clean

LEMMA CleanMemory == ASSUME PromptIO, Clean, Memory PROVE Clean'
<1>1. PoolOnly /\ (proc # "up" => Tick) /\ UNCHANGED walVars
  BY DEF Memory, PoolOnly
<1> QED BY <1>1, CleanPoolOnly

\* A process that serves and has no call in progress
LEMMA Idle ==
    ASSUME Clean, proc = "up", writer = Nil
    PROVE  /\ Settled /\ epoch # NoEpoch /\ Sound(snap, journal, epoch)
           /\ Strong(Recovered(snap, journal)) /\ Table(Recovered(snap, journal))
<1>1. io.pc = "idle"
  BY DEF Clean, UpInv
<1> QED BY <1>1, CleanTables DEF Clean, CheckpointInv, FilesInv

LEMMA CleanBeginAllocate ==
    ASSUME PromptIO, Clean, NEW d \in Domains, BeginAllocate(d) PROVE Clean'
<1> DEFINE t == Recovered(snap, journal)
<1>1. /\ proc = "up" /\ proc' = proc /\ snap' = snap /\ snapMay' = snapMay /\ journal' = journal
      /\ journalMay' = journalMay /\ epoch' = epoch /\ nextEpoch' = nextEpoch
      /\ Allocate(d) /\ writer = Nil /\ io' = [IdleIO EXCEPT !.pc = "record"]
  BY DEF BeginAllocate, diskVars, Allocate
<1>2. Settled /\ epoch # NoEpoch /\ Sound(snap, journal, epoch) /\ Strong(t) /\ Table(t)
  BY <1>1, Idle
<1>3. (\E c, gone : Takes(d, c, gone)) /\ WriterKept'
  BY <1>1, AllocateTakes DEF Clean, PoolInv
<1>4. PICK c, gone : Takes(d, c, gone)
  BY <1>3
<1>5. /\ NewRecord'.removed = pendingDeletes \cup gone
      /\ NewRecord'.mapping.domain = d /\ NewRecord'.mapping.address = c
  BY <1>4 DEF NewRecord, Takes
<1> HIDE DEF t
<1>6. /\ PendingInv' /\ Agrees(t, byDomain', Domains \ InFlight', pendingDeletes')
      /\ Cardinality(Left(t, NewRecord')) < MaxMappings
  BY <1>1, <1>2, <1>4, <1>5, TakesKeeps DEF Clean, PoolInv, Weak
<1>7. IndexInv' /\ WithinLimit'
  <2>1. Next
    BY <1>1 DEF Next
  <2> QED BY <2>1, IndexInvStep, LimitStep DEF Clean, PoolInv
<1>8. PoolInv'
  BY <1>3, <1>6, <1>7 DEF PoolInv
<1>9. io' \in IOType /\ io'.pc = "record"
  <2>1. "record" \in IOStates \ {"err"}
    BY DEF IOStates
  <2> QED BY <1>1, <2>1, IdleIOType DEF IOType, IdleIO
<1>10. FilesInv'
  BY <1>1, <1>9 DEF Clean, FilesInv
<1>11. Alloc' /\ writer' # Nil
  <2>1. writer' \in Writer \cup {Nil} /\ writer'.op = "alloc"
    BY <1>4, <1>7 DEF Takes, IndexInv, TypeOK
  <2>2. writer' # Nil
    <3>1. pendingDeletes \cup gone \in SUBSET Domains /\ now \in Nat
      BY <1>4 DEF Takes, Clean, PoolInv, IndexInv, TypeOK
    <3>2. writer' \in Writer
      BY <1>4, <3>1 DEF Takes, Writer
    <3> QED BY <3>2, NilAssumption
  <2> QED BY <2>1, <2>2 DEF Alloc
<1>12. StartInv'
  BY <1>1 DEF StartInv
<1>13. UpInv'
  <2>1. \A s \in snapMay', j \in journalMay' : Recovered(s, j) = t
    BY <1>1, <1>2 DEF Settled, t
  <2> QED BY <1>1, <1>2, <1>6, <1>9, <1>11, <2>1 DEF UpInv, Weak
<1>14. RecordInv'
  <2>1. Settled' /\ Sound(snap', journal', epoch') /\ Recovered(snap', journal') = t
    BY <1>1, <1>2 DEF Settled, t
  <2> QED BY <1>6, <1>9, <2>1 DEF RecordInv
<1>15. CheckpointInv'
  BY <1>9 DEF CheckpointInv
<1> QED BY <1>8, <1>10, <1>12, <1>13, <1>14, <1>15 DEF Clean

LEMMA CleanBeginFlush == ASSUME Clean, BeginFlush PROVE Clean'
<1>1. /\ proc = "up" /\ proc' = proc /\ snap' = snap /\ snapMay' = snapMay /\ journal' = journal
      /\ journalMay' = journalMay /\ epoch' = epoch /\ nextEpoch' = nextEpoch
      /\ FlushBegin /\ writer = Nil
      /\ io' = [IdleIO EXCEPT !.pc = "temp", !.table = Snapshot]
      /\ byDomain' = byDomain /\ pendingDeletes' = pendingDeletes
  BY DEF BeginFlush, diskVars, FlushBegin
<1>2. Settled /\ epoch # NoEpoch
  BY <1>1, Idle
<1>3. Table(Snapshot) /\ \A P : Agrees(Snapshot, byDomain, Domains, P)
  BY SnapshotTable DEF Clean, PoolInv
<1>4. IndexInv' /\ WithinLimit'
  <2>1. Next
    BY <1>1 DEF Next
  <2> QED BY <2>1, IndexInvStep, LimitStep DEF Clean, PoolInv
<1>5. /\ writer' # Nil /\ writer'.op = "flush" /\ writer'.removed = pendingDeletes
  <2>1. writer' \in Writer
    BY <1>1 DEF FlushBegin, Writer, Clean, PoolInv, IndexInv, TypeOK
  <2> QED BY <1>1, <2>1, NilAssumption DEF FlushBegin
<1>6. ~Alloc' /\ InFlight' = {} /\ InFlight = {}
  BY <1>1, <1>5 DEF Alloc, InFlight
<1>7. PoolInv'
  <2>1. WriterKept'
    BY <1>6 DEF WriterKept
  <2>2. PendingInv'
    BY <1>1, <1>5, <1>6 DEF PendingInv, Clean, PoolInv
  <2> QED BY <1>4, <2>1, <2>2 DEF PoolInv
<1>8. io' \in IOType /\ io'.pc = "temp" /\ io'.table = Snapshot
  <2>1. "temp" \in IOStates \ {"err"} /\ Snapshot \in SUBSET Mapping
    BY <1>3 DEF IOStates, Table
  <2> QED BY <1>1, <2>1, IdleIOType DEF IOType, IdleIO
<1>9. FilesInv'
  BY <1>1, <1>8 DEF Clean, FilesInv
<1>10. StartInv'
  BY <1>1 DEF StartInv
<1>11. UpInv'
  <2>1. \A s \in snapMay', j \in journalMay' :
          Agrees(Recovered(s, j), byDomain', Domains \ InFlight', pendingDeletes')
    BY <1>1, <1>6 DEF Clean, UpInv, Weak
  <2> QED BY <1>1, <1>2, <1>5, <1>8, <2>1 DEF UpInv, Weak
<1>12. RecordInv'
  BY <1>8 DEF RecordInv
<1>13. CheckpointInv'
  <2>1. Agrees(io'.table, byDomain', Domains, Unrecorded')
    BY <1>1, <1>3, <1>8
  <2>2. journalMay' = {journal'}
    BY <1>1, <1>2 DEF Settled
  <2> QED BY <1>3, <1>8, <2>1, <2>2 DEF CheckpointInv, Strong
<1> QED BY <1>7, <1>9, <1>10, <1>11, <1>12, <1>13 DEF Clean

LEMMA CleanEndAllocate == ASSUME Clean, EndAllocate PROVE Clean'
<1>1. io.pc = "ok" /\ PersistOk
  BY DEF EndAllocate, Clean, FilesInv, IOType
<1>2. /\ proc' = proc /\ snap' = snap /\ snapMay' = snapMay /\ journal' = journal
      /\ journalMay' = journalMay /\ epoch' = epoch /\ nextEpoch' = nextEpoch
      /\ writer # Nil /\ Alloc /\ writer' = Nil /\ io' = IdleIO
      /\ byDomain' = byDomain /\ pendingDeletes' = pendingDeletes \ writer.removed
  BY <1>1 DEF EndAllocate, diskVars, PersistOk, Alloc
<1>3. proc = "up"
  BY <1>2 DEF Clean, FilesInv, StartInv, Asleep
<1>4. /\ Settled /\ epoch # NoEpoch /\ Sound(snap, journal, epoch)
      /\ Strong(Recovered(snap, journal))
  BY <1>1, <1>3 DEF Clean, CheckpointInv
<1>5. IndexInv' /\ WithinLimit'
  <2>1. Next
    BY <1>1 DEF Next
  <2> QED BY <2>1, IndexInvStep, LimitStep DEF Clean, PoolInv
<1>6. ~Alloc' /\ InFlight' = {} /\ Unrecorded' = Unrecorded /\ pendingDeletes' = Unrecorded
  BY <1>2 DEF Alloc, InFlight, Unrecorded
<1>7. PoolInv'
  <2>1. WriterKept'
    BY <1>6 DEF WriterKept
  <2>2. PendingInv'
    BY <1>2, <1>6 DEF PendingInv, Clean, PoolInv
  <2> QED BY <1>5, <2>1, <2>2 DEF PoolInv
<1>8. io' \in IOType /\ io'.pc = "idle"
  BY <1>2, IdleIOType
<1>9. FilesInv'
  BY <1>2, <1>8 DEF Clean, FilesInv
<1>10. StartInv'
  BY <1>2, <1>3 DEF StartInv
<1>11. Agrees(Recovered(snap, journal), byDomain', Domains, Unrecorded')
  BY <1>2, <1>4, <1>6 DEF Strong
<1>12. UpInv'
  <2>1. \A s \in snapMay', j \in journalMay' :
          Agrees(Recovered(s, j), byDomain', Domains \ InFlight', pendingDeletes')
    BY <1>2, <1>4, <1>6, <1>11 DEF Settled
  <2> QED BY <1>2, <1>4, <1>8, <2>1 DEF UpInv, Weak
<1>13. RecordInv'
  BY <1>8 DEF RecordInv
<1>14. CheckpointInv'
  <2>1. Settled' /\ epoch' # NoEpoch /\ Sound(snap', journal', epoch')
    BY <1>2, <1>4 DEF Settled
  <2> QED BY <1>2, <1>8, <1>11, <2>1 DEF CheckpointInv, Strong
<1> QED BY <1>7, <1>9, <1>10, <1>12, <1>13, <1>14 DEF Clean

-----------------------------------------------------------------------------
\* A process that ends, and one that starts

\* Nothing runs; the files are whatever they became.
Down ==
    /\ proc = "down" /\ Settled /\ Asleep /\ Empty /\ Typed /\ io = IdleIO
    /\ epoch \in 0 .. MaxEpoch /\ nextEpoch \in 1 .. MaxEpoch + 1 /\ epoch < nextEpoch
    /\ SnapOK(snap) /\ (snap \in SnapFile => snap.epoch < nextEpoch)
    /\ journal \in JournalFile /\ Below(journal, nextEpoch)

LEMMA AsleepKeeps == Asleep => WriterKept /\ PendingInv /\ InFlight = {} /\ Unrecorded = {}
BY DEF Asleep, WriterKept, PendingInv, Alloc, InFlight, Unrecorded

LEMMA AsleepKeepsNext ==
    (Asleep => WriterKept /\ PendingInv /\ InFlight = {} /\ Unrecorded = {})'
BY AsleepKeeps, PTL

LEMMA DownIsClean == Down => Clean
<1> SUFFICES ASSUME Down PROVE Clean
  OBVIOUS
<1>1. PoolInv
  BY AsleepKeeps, EmptyKeeps DEF Down, PoolInv
<1>2. FilesInv
  BY IdleIOType DEF Down, FilesInv, Settled
<1>3. StartInv
  BY DEF Down, StartInv
<1>4. UpInv /\ RecordInv /\ CheckpointInv
  BY DEF Down, UpInv, RecordInv, CheckpointInv
<1> QED BY <1>1, <1>2, <1>3, <1>4 DEF Clean

LEMMA DownIsCleanNext == (Down => Clean)'
BY DownIsClean, PTL

LEMMA CleanForget ==
    ASSUME Clean, ForgetMemory, now' = now, answers' = answers, nextEpoch' = nextEpoch,
           snap' \in snapMay, journal' \in journalMay, Settled'
    PROVE  Clean'
<1>1. /\ proc' = "down" /\ Asleep' /\ Empty' /\ io' = IdleIO /\ epoch' \in 0 .. MaxEpoch
      /\ epoch' < nextEpoch'
  BY WalAssumption DEF ForgetMemory, Asleep, Empty, NoEpoch, Clean, FilesInv
<1>2. Typed'
  BY CapacityAssumption DEF ForgetMemory, Typed, Clean, PoolInv, IndexInv, TypeOK, Addrs
<1>3. /\ nextEpoch' \in 1 .. MaxEpoch + 1
      /\ SnapOK(snap') /\ (snap' \in SnapFile => snap'.epoch < nextEpoch')
      /\ journal' \in JournalFile /\ Below(journal', nextEpoch')
  BY DEF Clean, FilesInv
<1>4. Down'
  BY <1>1, <1>2, <1>3 DEF Down
<1> QED BY <1>4, DownIsCleanNext

LEMMA CleanEndFlush == ASSUME Clean, EndFlush PROVE Clean'
<1>1. io.pc = "ok" /\ writer # Nil
  BY DEF EndFlush, Clean, FilesInv, IOType
<1>2. proc = "up"
  BY <1>1 DEF Clean, FilesInv, StartInv, Asleep
<1>3. Settled /\ snap \in snapMay /\ journal \in journalMay
  BY <1>1, <1>2 DEF Clean, CheckpointInv, FilesInv
<1>4. /\ snap' = snap /\ snapMay' = snapMay /\ journal' = journal /\ journalMay' = journalMay
      /\ ForgetMemory /\ now' = now /\ answers' = answers /\ nextEpoch' = nextEpoch
  BY DEF EndFlush, diskVars
<1>5. Settled'
  BY <1>3, <1>4 DEF Settled
<1> QED BY <1>3, <1>4, <1>5, CleanForget

LEMMA CleanCrash == ASSUME Clean, Crash PROVE Clean'
<1>1. snap \in snapMay /\ journal \in journalMay
  BY DEF Clean, FilesInv
<1>2. /\ snap' \in snapMay /\ journal' \in journalMay
      /\ ForgetMemory /\ now' = now /\ answers' = answers /\ nextEpoch' = nextEpoch
  BY <1>1 DEF Crash
<1>3. Settled'
  BY DEF Crash, Settled
<1> QED BY <1>2, <1>3, CleanForget

\* While nothing runs, a file is replaced.
LEMMA DownFiles ==
    ASSUME Clean, proc = "down", answers' = {}, Settled',
           UNCHANGED <<now, next, byDomain, byAddress, pendingDeletes, writer, flows, proc,
                       epoch, nextEpoch, io>>,
           snap' \in {Nil, Corrupt}, journal' \in {journal, Nil}
    PROVE  Clean'
<1>1. /\ proc' = "down" /\ Asleep' /\ Empty' /\ io' = IdleIO
  BY DEF Clean, StartInv, Asleep, Empty
<1>2. /\ Typed' /\ epoch' \in 0 .. MaxEpoch /\ nextEpoch' \in 1 .. MaxEpoch + 1
      /\ epoch' < nextEpoch'
  BY DEF Typed, Clean, PoolInv, IndexInv, TypeOK, FilesInv
<1>3. SnapOK(snap') /\ snap' \notin SnapFile
  BY KindsAssumption DEF SnapOK, IsSnap
<1>4. journal' \in JournalFile /\ Below(journal', nextEpoch')
  <2>1. Below(Nil, nextEpoch) /\ Nil \in JournalFile
    BY DEF Below, Readable, JournalFile
  <2> QED BY <2>1 DEF Clean, FilesInv
<1>5. Down'
  BY <1>1, <1>2, <1>3, <1>4 DEF Down
<1> QED BY <1>5, DownIsCleanNext

LEMMA CleanBitRot == ASSUME Clean, BitRot PROVE Clean'
<1>1. journalMay = {journal}
  BY DEF BitRot, Clean, StartInv, Settled
<1>2. Settled'
  BY <1>1 DEF BitRot, Settled
<1> QED BY <1>2, DownFiles DEF BitRot

LEMMA CleanClearPersistence == ASSUME Clean, ClearPersistence(TRUE, TRUE) PROVE Clean'
<1>1. Settled'
  BY DEF ClearPersistence, Settled
<1> QED BY <1>1, DownFiles DEF ClearPersistence

LEMMA CleanOpenSnapshot == ASSUME Clean, OpenSnapshot PROVE Clean'
<1>1. /\ proc = "down" /\ proc' = "snapshot" /\ journal' = journal /\ journalMay' = journalMay
      /\ epoch' = epoch /\ nextEpoch' = nextEpoch /\ io' = io /\ now' = now /\ next' = next
      /\ pendingDeletes' = pendingDeletes /\ writer' = writer /\ flows' = flows
      /\ answers' = answers
  BY DEF OpenSnapshot
<1>2. Settled /\ Asleep /\ Empty /\ io = IdleIO
  BY <1>1 DEF Clean, StartInv
<1>3. Asleep' /\ Typed' /\ Typed
  BY <1>1, <1>2 DEF Asleep, Typed, Clean, PoolInv, IndexInv, TypeOK
<1>4. UpInv' /\ RecordInv' /\ CheckpointInv'
  BY <1>1 DEF UpInv, RecordInv, CheckpointInv
<1>5. ASSUME IndexInv', WithinLimit' PROVE PoolInv'
  BY <1>3, <1>5, AsleepKeepsNext DEF PoolInv
<1>6. CASE ValidSnap(snap)
  <2>1. RestoreTable(snap.table) /\ snap' = snap /\ snapMay' = snapMay
    BY <1>6 DEF OpenSnapshot
  <2>2. Table(snap.table) /\ snap # Nil
    BY <1>6, ValidTable DEF Clean, FilesInv
  <2>3. IndexInv' /\ WithinLimit' /\ Agrees(snap.table, byDomain', Domains, {})
    BY <1>1, <1>3, <2>1, <2>2, RestoreKeeps
  <2>4. FilesInv'
    BY <1>1, <2>1 DEF Clean, FilesInv
  <2>5. StartInv'
    BY <1>1, <1>2, <1>3, <1>6, <2>1, <2>2, <2>3 DEF StartInv, Settled
  <2> QED BY <1>4, <1>5, <2>3, <2>4, <2>5 DEF Clean
<1>7. CASE ~ValidSnap(snap)
  <2>1. /\ snap' = Nil /\ snapMay' = {snap, Nil} /\ byDomain' = byDomain
        /\ byAddress' = byAddress
    BY <1>2, <1>7 DEF OpenSnapshot, Settled
  <2>2. UNCHANGED poolVars
    BY <1>1, <2>1 DEF poolVars
  <2>3. PoolInv' /\ Empty'
    BY <1>2, <2>2, PoolSame DEF Clean
  <2>4. SnapOK(Nil) /\ Nil \notin SnapFile /\ ~ValidSnap(Nil)
    BY KindsAssumption DEF SnapOK, IsSnap, ValidSnap
  <2>5. FilesInv'
    BY <1>1, <2>1, <2>4 DEF Clean, FilesInv
  <2>6. StartInv'
    BY <1>1, <1>2, <1>3, <1>7, <2>1, <2>3, <2>4 DEF StartInv, Settled
  <2> QED BY <1>4, <2>3, <2>5, <2>6 DEF Clean
<1> QED BY <1>6, <1>7

LEMMA SnapshotStrong == IndexInv /\ WithinLimit => Table(Snapshot) /\ Strong(Snapshot)
BY SnapshotTable DEF Strong

LEMMA SnapshotStrongNext == (IndexInv /\ WithinLimit => Table(Snapshot) /\ Strong(Snapshot))'
BY SnapshotStrong, PTL

\* One epoch is drawn; no file changes, or the journal goes.
LEMMA FilesMore ==
    ASSUME Clean, snap' = snap, snapMay' = snapMay, proc' \in {"init", "up"},
           \/ journal' = journal /\ journalMay' = journalMay
           \/ journal' = Nil /\ journalMay' = journalMay \cup {Nil},
           \/ nextEpoch' = nextEpoch /\ epoch' < nextEpoch
           \/ nextEpoch' = nextEpoch + 1 /\ epoch' = nextEpoch /\ nextEpoch <= MaxEpoch,
           epoch' \in 0 .. MaxEpoch, io' \in IOType
    PROVE  FilesInv'
<1>1. nextEpoch \in 1 .. MaxEpoch + 1 /\ MaxEpoch \in Nat
  BY WalAssumption DEF Clean, FilesInv
<1>2. \A j \in journalMay \cup {Nil} : j \in JournalFile /\ Below(j, nextEpoch)
  <2>1. Nil \in JournalFile /\ Below(Nil, nextEpoch)
    BY DEF Below, Readable, JournalFile
  <2> QED BY <2>1 DEF Clean, FilesInv
<1>3. \A j \in journalMay' : j \in JournalFile /\ Below(j, nextEpoch')
  BY <1>1, <1>2, BelowMore
<1>4. \A s \in snapMay' : SnapOK(s) /\ (s \in SnapFile => s.epoch < nextEpoch')
  <2>1. \A s \in SnapFile : s.epoch \in Nat
    BY DEF SnapFile
  <2> QED BY <1>1, <2>1 DEF Clean, FilesInv
<1>5. snap' \in snapMay' /\ journal' \in journalMay'
  BY DEF Clean, FilesInv
<1>6. nextEpoch' \in 1 .. MaxEpoch + 1 /\ epoch' < nextEpoch'
  BY <1>1
<1> QED BY <1>3, <1>4, <1>5, <1>6 DEF FilesInv

LEMMA CleanOpenJournal == ASSUME Clean, OpenJournal PROVE Clean'
<1> DEFINE records == Readable(journal)
           refused == JournalRefused(snap, journal)
           bad == HasTorn(journal) \/ refused
           fresh == refused \/ snap = Nil \/ WantedEpoch(snap, records) = NoEpoch
           repair == bad \/ snap = Nil
<1>1. /\ proc = "snapshot" /\ now' = now /\ next' = next
      /\ pendingDeletes' = pendingDeletes /\ writer' = writer /\ flows' = flows
      /\ answers' = answers /\ snap' = snap /\ snapMay' = snapMay
      /\ IF refused \/ snap = Nil THEN byDomain' = byDomain /\ byAddress' = byAddress
         ELSE RestoreTable(Replay(snap, records))
      /\ IF bad THEN journal' = Nil /\ journalMay' = journalMay \cup {Nil}
                ELSE journal' = journal /\ journalMay' = journalMay
      /\ fresh => nextEpoch <= MaxEpoch
      /\ epoch' = (IF fresh THEN nextEpoch ELSE WantedEpoch(snap, records))
      /\ nextEpoch' = (IF fresh THEN nextEpoch + 1 ELSE nextEpoch)
      /\ proc' = (IF repair THEN "init" ELSE "up")
      /\ io' = (IF repair THEN [IdleIO EXCEPT !.pc = "temp", !.table = Snapshot'] ELSE IdleIO)
  BY Zenon DEF OpenJournal
<1>2. /\ journalMay = {journal} /\ Asleep /\ journal \in JournalFile
      /\ snap # Nil => snapMay = {snap} /\ ValidSnap(snap) /\ snap \in SnapFile
                       /\ snap.epoch < nextEpoch /\ SnapOK(snap)
  <2>1. /\ journalMay = {journal} /\ Asleep /\ journal \in JournalFile /\ SnapOK(snap)
        /\ snap # Nil => snapMay = {snap} /\ ValidSnap(snap)
        /\ snap \in SnapFile => snap.epoch < nextEpoch
    BY <1>1 DEF Clean, StartInv, FilesInv
  <2> QED BY <2>1, ValidTable
<1> HIDE DEF refused, bad, fresh, repair, records
<1>3. Asleep' /\ Typed' /\ Typed /\ WriterKept' /\ PendingInv' /\ InFlight' = {}
      /\ Unrecorded' = {} /\ pendingDeletes' = {} /\ writer' = Nil
  BY <1>1, <1>2, AsleepKeepsNext DEF Asleep, Typed, Clean, PoolInv, IndexInv, TypeOK
<1>4. /\ IndexInv' /\ WithinLimit'
      /\ ~refused /\ snap # Nil =>
           \A P : Agrees(Recovered(snap, journal), byDomain', Domains, P)
  <2>1. CASE refused \/ snap = Nil
    <3>1. UNCHANGED poolVars
      BY <1>1, <2>1 DEF poolVars
    <3> QED BY <2>1, <3>1, PoolSame DEF Clean, PoolInv
  <2>2. CASE ~refused /\ snap # Nil
    <3>1. Recovered(snap, journal) = Replay(snap, records)
      BY <1>2, <2>2 DEF Recovered, refused, records
    <3>2. Table(Recovered(snap, journal))
      BY <1>2, <2>2, RecoveredTable
    <3>3. RestoreTable(Recovered(snap, journal))
      BY <1>1, <2>2, <3>1
    <3> QED BY <1>1, <1>3, <3>2, <3>3, RestoreKeeps
  <2> QED BY <2>1, <2>2
<1>5. PoolInv' /\ Table(Snapshot') /\ Agrees(Snapshot', byDomain', Domains, Unrecorded')
  <2>1. (Table(Snapshot))' /\ Strong(Snapshot)'
    BY <1>4, SnapshotStrongNext
  <2> QED BY <1>3, <1>4, <2>1 DEF PoolInv, Strong
<1>6. io' \in IOType
  <2>1. "temp" \in IOStates \ {"err"} /\ Snapshot' \in SUBSET Mapping
    BY <1>5 DEF IOStates, Table
  <2> QED BY <1>1, <2>1, IdleIOType
<1>7. ~fresh => /\ snap # Nil /\ ~refused /\ WantedEpoch(snap, records) # NoEpoch
                /\ WantedEpoch(snap, records) \in 0 .. MaxEpoch
                /\ WantedEpoch(snap, records) < nextEpoch
  <2>1. ~fresh => snap # Nil /\ ~refused /\ WantedEpoch(snap, records) # NoEpoch
    BY DEF fresh
  <2>2. records \in Seq(Record)
    BY <1>2, ReadableType DEF records
  <2>3. Below(journal, nextEpoch)
    BY <1>2 DEF Clean, FilesInv
  <2>4. records # <<>> => Head(records) \in Record /\ Head(records).epoch < nextEpoch
    BY <2>2, <2>3 DEF Below, records
  <2>5. \A r \in Record : r.epoch \in 0 .. MaxEpoch
    BY DEF Record
  <2>6. snap \in SnapFile => snap.epoch \in 0 .. MaxEpoch
    BY DEF SnapFile
  <2> QED BY <1>2, <2>1, <2>4, <2>5, <2>6 DEF WantedEpoch
<1>8. epoch' \in 0 .. MaxEpoch /\ epoch' # NoEpoch
      /\ \/ nextEpoch' = nextEpoch /\ epoch' < nextEpoch
         \/ nextEpoch' = nextEpoch + 1 /\ epoch' = nextEpoch /\ nextEpoch <= MaxEpoch
  <2>1. nextEpoch \in 1 .. MaxEpoch + 1 /\ MaxEpoch \in Nat
    BY WalAssumption DEF Clean, FilesInv
  <2>2. CASE fresh
    BY <1>1, <2>1, <2>2 DEF NoEpoch
  <2>3. CASE ~fresh
    BY <1>1, <1>7, <2>1, <2>3
  <2> QED BY <2>2, <2>3
<1>9. FilesInv'
  <2>1. proc' \in {"init", "up"}
    BY <1>1
  <2>2. \/ journal' = journal /\ journalMay' = journalMay
        \/ journal' = Nil /\ journalMay' = journalMay \cup {Nil}
    BY <1>1
  <2> QED BY <1>1, <1>6, <1>8, <2>1, <2>2, FilesMore
<1>10. CASE repair
  <2>1. proc' = "init" /\ io'.pc = "temp" /\ io'.table = Snapshot'
    BY <1>1, <1>10 DEF IdleIO
  <2>2. StartInv'
    BY <1>3, <2>1 DEF StartInv
  <2>3. UpInv' /\ RecordInv'
    BY <2>1 DEF UpInv, RecordInv
  <2>4. CheckpointInv'
    <3>1. journal' # Nil => journalMay' \subseteq {journal', Nil}
      BY <1>1, <1>2
    <3> QED BY <1>5, <2>1, <3>1 DEF CheckpointInv, Strong
  <2> QED BY <1>5, <1>9, <2>2, <2>3, <2>4 DEF Clean
<1>11. CASE ~repair
  <2>1. /\ proc' = "up" /\ io' = IdleIO /\ io'.pc = "idle" /\ ~bad /\ snap # Nil /\ ~refused
        /\ ~HasTorn(journal) /\ journal' = journal /\ journalMay' = {journal}
        /\ snapMay' = {snap} /\ snap' = snap
    BY <1>1, <1>2, <1>11, IdleIOType DEF repair, bad
  <2>2. Agrees(Recovered(snap, journal), byDomain', Domains, {})
    BY <1>4, <2>1
  <2>3. Sound(snap, journal, epoch')
    <3>1. \/ snap.epoch = epoch'
          \/ snap.epoch = NoEpoch /\ \A i \in DOMAIN records : records[i].epoch = epoch'
      <4>1. CASE fresh
        <5>1. WantedEpoch(snap, records) = NoEpoch
          BY <2>1, <4>1 DEF fresh
        <5>2. records \in Seq(Record)
          BY <1>2, ReadableType DEF records
        <5>3. records # <<>> => Head(records) \in Record
          BY <5>2
        <5>4. \A r \in Record : r.epoch # NoEpoch
          BY DEF Record, NoEpoch
        <5>5. snap.epoch = NoEpoch /\ records = <<>>
          BY <5>1, <5>3, <5>4 DEF WantedEpoch
        <5> QED BY <5>5
      <4>2. CASE ~fresh
        <5>1. epoch' = WantedEpoch(snap, records) /\ ~MixedEpochs(snap, records)
          BY <1>1, <2>1, <4>2 DEF refused, JournalRefused, records
        <5>2. CASE snap.epoch # NoEpoch
          BY <5>1, <5>2 DEF WantedEpoch
        <5>3. CASE snap.epoch = NoEpoch
          BY <5>1, <5>3 DEF MixedEpochs
        <5> QED BY <5>2, <5>3
      <4> QED BY <4>1, <4>2
    <3> QED BY <1>2, <2>1, <3>1 DEF Sound, refused, records
  <2>4. StartInv'
    BY <2>1 DEF StartInv
  <2>5. UpInv'
    <3>1. \A s \in snapMay', j \in journalMay' :
            Agrees(Recovered(s, j), byDomain', Domains \ InFlight', pendingDeletes')
      BY <1>3, <2>1, <2>2
    <3> QED BY <1>3, <1>8, <2>1, <3>1 DEF UpInv, Weak
  <2>6. RecordInv'
    BY <2>1 DEF RecordInv
  <2>7. CheckpointInv'
    <3>1. Agrees(Recovered(snap', journal'), byDomain', Domains, Unrecorded')
      BY <1>3, <2>1, <2>2
    <3>2. Settled' /\ epoch' # NoEpoch /\ Sound(snap', journal', epoch')
      BY <1>8, <2>1, <2>3 DEF Settled
    <3> QED BY <2>1, <3>1, <3>2 DEF CheckpointInv, Strong
  <2> QED BY <1>5, <1>9, <2>4, <2>5, <2>6, <2>7 DEF Clean
<1> QED BY <1>10, <1>11

LEMMA CleanOpenDone == ASSUME Clean, OpenDone PROVE Clean'
<1>1. proc = "init" /\ io.pc = "ok" /\ proc' = "up" /\ io' = IdleIO /\ UNCHANGED <<poolVars, epoch>>
  BY DEF OpenDone, Clean, FilesInv, IOType
<1>2. /\ snap' = snap /\ snapMay' = snapMay /\ journal' = journal
      /\ journalMay' = journalMay /\ epoch' = epoch /\ nextEpoch' = nextEpoch
  BY <1>1 DEF OpenDone, diskVars
<1>3. /\ Settled /\ epoch # NoEpoch /\ Sound(snap, journal, epoch)
      /\ Strong(Recovered(snap, journal)) /\ Asleep /\ writer = Nil
  BY <1>1 DEF Clean, CheckpointInv, StartInv, Asleep
<1>4. /\ PoolInv' /\ byDomain' = byDomain /\ pendingDeletes' = pendingDeletes
      /\ InFlight' = InFlight /\ Unrecorded' = Unrecorded /\ writer' = Nil
  BY <1>1, <1>3, PoolSame DEF Clean
<1>5. io' \in IOType /\ io'.pc = "idle"
  BY <1>1, IdleIOType
<1>6. FilesInv'
  BY <1>1, <1>2, <1>5 DEF Clean, FilesInv
<1>7. StartInv'
  BY <1>1 DEF StartInv
<1>8. UpInv'
  <2>1. Weak(Recovered(snap, journal))
    BY <1>3, StrongIsWeak
  <2>2. \A s \in snapMay', j \in journalMay' :
          Agrees(Recovered(s, j), byDomain', Domains \ InFlight', pendingDeletes')
    BY <1>2, <1>3, <1>4, <2>1 DEF Settled, Weak
  <2> QED BY <1>2, <1>3, <1>4, <1>5, <2>2 DEF UpInv, Weak
<1>9. RecordInv'
  BY <1>5 DEF RecordInv
<1>10. CheckpointInv'
  <2>1. Agrees(Recovered(snap', journal'), byDomain', Domains, Unrecorded')
    BY <1>2, <1>3, <1>4 DEF Strong
  <2>2. Settled' /\ epoch' # NoEpoch /\ Sound(snap', journal', epoch')
    BY <1>2, <1>3 DEF Settled
  <2> QED BY <1>5, <2>1, <2>2 DEF CheckpointInv, Strong
<1> QED BY <1>4, <1>6, <1>7, <1>8, <1>9, <1>10 DEF Clean

-----------------------------------------------------------------------------
\* Steps without a failing call keep the invariant, and no step takes a failure back.

WalInv == ioErrors \in Nat /\ (PromptIO /\ ioErrors = 0 => Clean)

LEMMA FailureStays ==
    ASSUME ioErrors \in Nat, [WalNext]_vars
    PROVE  /\ ioErrors' \in Nat /\ (ioErrors' = 0 => ioErrors = 0)
           /\ ~\E n \in {1, 2} : ioErrors' = 0 /\ FailWith(n)
<1>1. \A n \in {0, 1, 2} : FailWith(n) => ioErrors' \in Nat /\ ioErrors' = ioErrors + n
  BY DEF FailWith
<1>2. ASSUME NEW both \in BOOLEAN, NEW synced \in BOOLEAN, ClearPersistence(both, synced)
      PROVE  \E n \in {0, 1, 2} : FailWith(n)
  <2>1. (IF both THEN 0 ELSE 1) + (IF synced THEN 0 ELSE 1) \in {0, 1, 2}
    BY <1>2
  <2> QED BY <1>2, <2>1 DEF ClearPersistence
<1>3. ASSUME NEW undone \in BOOLEAN, RecordWriteFails(undone) \/ JournalSyncFails(undone)
      PROVE  \E n \in {0, 1, 2} : FailWith(n)
  BY <1>3 DEF RecordWriteFails, JournalSyncFails
<1>4. ASSUME JournalCloseFails \/ CheckpointFails \/ OpenFails
      PROVE  \E n \in {0, 1, 2} : FailWith(n)
  BY <1>4 DEF JournalCloseFails, CheckpointFails, OpenFails
<1>5. ioErrors' = ioErrors \/ \E n \in {0, 1, 2} : FailWith(n)
  <2>1. ASSUME \/ \E d \in Domains : BeginAllocate(d)
               \/ BeginFlush \/ EndAllocate \/ EndFlush \/ Memory \/ UNCHANGED vars
        PROVE  ioErrors' = ioErrors
    BY <2>1 DEF BeginAllocate, BeginFlush, EndAllocate, EndFlush, Memory, vars, walVars
  <2>2. ASSUME \/ RecordWrite \/ RecordTooBig \/ JournalSync \/ JournalClose \/ SnapshotTemp
               \/ SnapshotRename \/ SnapshotSync \/ ClearJournal \/ ClearSync
        PROVE  ioErrors' = ioErrors
    BY <2>2 DEF RecordWrite, RecordTooBig, JournalSync, JournalClose, SnapshotTemp,
                SnapshotRename, SnapshotSync, ClearJournal, ClearSync
  <2>3. ASSUME Crash \/ BitRot \/ OpenSnapshot \/ OpenJournal \/ OpenDone
        PROVE  ioErrors' = ioErrors
    BY <2>3 DEF Crash, BitRot, OpenSnapshot, OpenJournal, OpenDone
  <2> QED BY <1>2, <1>3, <1>4, <2>1, <2>2, <2>3 DEF WalNext
<1> QED BY <1>1, <1>5

LEMMA CleanStep ==
    ASSUME PromptIO, Clean, ioErrors \in Nat, ioErrors' = 0, [WalNext]_vars
    PROVE  Clean'
<1>1. ~\E n \in {1, 2} : FailWith(n)
  BY FailureStays
<1>2. ASSUME \/ \E d \in Domains : BeginAllocate(d)
             \/ BeginFlush \/ EndAllocate \/ EndFlush \/ Memory
      PROVE  Clean'
  BY <1>2, CleanBeginAllocate, CleanBeginFlush, CleanEndAllocate, CleanEndFlush, CleanMemory
<1>3. ASSUME \/ RecordWrite \/ RecordTooBig \/ JournalSync \/ JournalClose \/ SnapshotTemp
             \/ SnapshotRename \/ SnapshotSync \/ ClearJournal \/ ClearSync
      PROVE  Clean'
  BY <1>3, CleanRecordWrite, CleanRecordTooBig, CleanJournalSync, CleanJournalClose,
     CleanSnapshotTemp, CleanSnapshotRename, CleanSnapshotSync, CleanClearJournal,
     CleanClearSync
<1>4. ASSUME Crash \/ BitRot \/ OpenSnapshot \/ OpenJournal \/ OpenDone
      PROVE  Clean'
  BY <1>4, CleanCrash, CleanBitRot, CleanOpenSnapshot, CleanOpenJournal, CleanOpenDone
<1>5. ASSUME NEW undone \in BOOLEAN, RecordWriteFails(undone) \/ JournalSyncFails(undone)
      PROVE  FALSE
  BY <1>1, <1>5 DEF RecordWriteFails, JournalSyncFails
<1>6. ~(JournalCloseFails \/ CheckpointFails \/ OpenFails)
  BY <1>1 DEF JournalCloseFails, CheckpointFails, OpenFails
<1>7. ASSUME NEW both \in BOOLEAN, NEW synced \in BOOLEAN, ClearPersistence(both, synced)
      PROVE  Clean'
  <2>1. FailWith((IF both THEN 0 ELSE 1) + (IF synced THEN 0 ELSE 1))
    BY <1>7 DEF ClearPersistence
  <2>2. both = TRUE /\ synced = TRUE
    BY <1>1, <2>1
  <2> QED BY <1>7, <2>2, CleanClearPersistence
<1>8. CASE UNCHANGED vars
  <2>1. UNCHANGED poolVars /\ UNCHANGED walVars
    BY <1>8 DEF vars
  <2>2. /\ proc' = proc /\ snap' = snap /\ snapMay' = snapMay /\ journal' = journal
        /\ journalMay' = journalMay /\ epoch' = epoch /\ nextEpoch' = nextEpoch /\ io' = io
    BY <2>1 DEF walVars
  <2>3. /\ PoolInv' /\ (Asleep' <=> Asleep) /\ (Empty' <=> Empty) /\ (Alloc' <=> Alloc)
        /\ InFlight' = InFlight /\ Unrecorded' = Unrecorded /\ NewRecord' = NewRecord
        /\ byDomain' = byDomain /\ pendingDeletes' = pendingDeletes /\ writer' = writer
    BY <2>1, <2>2, PoolSame DEF Clean, NewRecord
  <2>4. FilesInv' /\ StartInv'
    BY <2>2, <2>3 DEF Clean, FilesInv, StartInv, Settled
  <2>5. UpInv' /\ RecordInv' /\ CheckpointInv'
    BY <2>2, <2>3 DEF Clean, UpInv, RecordInv, CheckpointInv, Settled, Weak, Strong
  <2> QED BY <2>3, <2>4, <2>5 DEF Clean
<1> QED BY <1>2, <1>3, <1>4, <1>5, <1>6, <1>7, <1>8 DEF WalNext

LEMMA WalInitClean == WalInit => Clean
<1> SUFFICES ASSUME WalInit PROVE Clean
  OBVIOUS
<1>1. Asleep /\ Empty /\ Typed
  BY CapacityAssumption DEF WalInit, Init, Asleep, Empty, Typed, Addrs
<1>2. /\ proc = "down" /\ Settled /\ io = IdleIO /\ epoch = 0 /\ nextEpoch = 1 /\ MaxEpoch \in Nat
      /\ journal = Nil
  BY WalAssumption DEF WalInit, Settled, NoEpoch
<1>3. SnapOK(snap) /\ (snap \in SnapFile => snap.epoch < nextEpoch)
  <2>1. CASE snap = Nil
    BY <2>1, KindsAssumption DEF SnapOK, IsSnap
  <2>2. CASE snap = [epoch |-> 0, table |-> {}]
    <3>1. snap.epoch = 0 /\ snap.table = {} /\ snap \in SnapFile
      BY <1>2, <2>2 DEF SnapFile
    <3> QED BY <1>2, <3>1, EmptyTable DEF SnapOK, IsSnap
  <2> QED BY <2>1, <2>2 DEF WalInit, NoEpoch
<1>4. journal \in JournalFile /\ Below(journal, nextEpoch)
  BY <1>2 DEF JournalFile, Below, Readable
<1>5. Down
  BY <1>1, <1>2, <1>3, <1>4 DEF Down
<1> QED BY <1>5, DownIsClean

LEMMA WalInvHolds == WalSpec => []WalInv
<1>1. WalInit => WalInv
  BY WalInitClean DEF WalInit, WalInv
<1>2. WalInv /\ [WalNext]_vars => WalInv'
  <2> SUFFICES ASSUME WalInv, [WalNext]_vars PROVE WalInv'
    OBVIOUS
  <2>1. ioErrors' \in Nat /\ (ioErrors' = 0 => ioErrors = 0)
    BY FailureStays DEF WalInv
  <2>2. PromptIO /\ ioErrors' = 0 => Clean'
    BY <2>1, CleanStep DEF WalInv
  <2> QED BY <2>1, <2>2 DEF WalInv, PromptIO
<1> QED BY <1>1, <1>2, PTL DEF WalSpec

\* What the files of a process that serves restore, by name
LEMMA CleanCrashConsistent == Clean => CrashConsistent
<1> SUFFICES ASSUME Clean, proc = "up", NEW s \in snapMay, NEW j \in journalMay
             PROVE  /\ Names(Committed) \subseteq Names(Recovered(s, j))
                    /\ \A m \in Recovered(s, j) : \/ <<m.domain, m.address>> \in Names(Snapshot)
                                                  \/ m.domain \in pendingDeletes
  BY DEF CrashConsistent
<1> DEFINE r == Recovered(s, j)
<1>1. Weak(r) /\ r \in SUBSET Mapping
  BY CleanTables DEF Clean, UpInv
<1>2. Table(Snapshot) /\ Agrees(Snapshot, byDomain, Domains, {})
  BY SnapshotTable DEF Clean, PoolInv
<1> HIDE DEF r
<1>3. ASSUME NEW m \in Committed PROVE <<m.domain, m.address>> \in Names(r)
  <2>1. /\ m \in Snapshot /\ m.domain \in Domains /\ m.address \in Addrs
        /\ Alloc => writer.address # m.address
    BY <1>2 DEF Committed, Table, Mapping, Alloc
  <2>2. byDomain[m.domain] = m.address /\ byDomain[m.domain] # Nil
    BY <1>2, <2>1, NilAssumption DEF Agrees
  <2>3. Alloc => byDomain[writer.domain] = writer.address
    BY DEF Clean, PoolInv, WriterKept, IndexInv, WriterEntry, Alloc
  <2>4. m.domain \in Domains \ InFlight
    BY <2>1, <2>2, <2>3 DEF InFlight
  <2>5. PICK n \in r : n.domain = m.domain /\ n.address = m.address
    BY <1>1, <2>2, <2>4 DEF Weak, Agrees, Lists
  <2> QED BY <2>5 DEF Names
<1>4. ASSUME NEW m \in r, m.domain \notin pendingDeletes
      PROVE  <<m.domain, m.address>> \in Names(Snapshot)
  <2>1. m.domain \in Domains /\ m.address \in Addrs
    BY <1>1 DEF Mapping
  <2>2. byDomain[m.domain] = m.address /\ byDomain[m.domain] # Nil
    BY <1>1, <1>4, <2>1, NilAssumption DEF Weak, Agrees
  <2>3. PICK n \in Snapshot : n.domain = m.domain /\ n.address = m.address
    BY <1>2, <2>1, <2>2 DEF Agrees, Lists
  <2> QED BY <2>3 DEF Names
<1>5. Names(Committed) \subseteq Names(r)
  BY <1>3 DEF Names
<1> QED BY <1>4, <1>5 DEF r

\* persistence.go: as long as no call fails, whatever a power loss leaves of the snapshot
\* and of the journal, OpenPersistence restores every mapping that GetOrAllocate has
\* returned at its address and resurrects no domain but those whose deletion is pending.
\* PromptIO: one call's I/O is shorter than the margin between the two TTLs.
THEOREM WalCrashConsistent == PromptIO => (WalSpec => []CrashConsistent)
<1> SUFFICES ASSUME PromptIO PROVE WalSpec => []CrashConsistent
  OBVIOUS
<1>1. WalInv => CrashConsistent
  BY CleanCrashConsistent DEF WalInv, CrashConsistent
<1> QED BY <1>1, WalInvHolds, PTL

-----------------------------------------------------------------------------
\* The answers that clients hold, over restarts.  One power loss may leave part of a
\* record: the journal is then quarantined before the first checkpoint, and only a second
\* one in between would find neither.

Covers(A, t) == \A x \in A : Lists(t, x.domain, x.address)

\* The pool's mapping under an answer outlives it.
Backed(x) == /\ byAddress[x.address] # Nil
             /\ byAddress[x.address].domain = x.domain
             /\ x.until <= byAddress[x.address].expiresAt

Cached == \A x \in answers : now < x.until /\ x.until <= now + DnsTTL

TornInv == \A j \in journalMay : HasTorn(j) =>
             crashes >= TornFrom \/ (proc = "up" /\ crashes + 1 >= TornFrom)

AnswersInv ==
    /\ Cached /\ TornInv
    /\ proc \in {"down", "snapshot"} => Covers(answers, Recovered(snap, journal))
    /\ proc = "snapshot" /\ snap # Nil =>
         \A x \in answers : Lists(snap.table, x.domain, x.address) => Backed(x)
    /\ proc \in {"init", "up"} => CacheInv
    /\ proc = "init" /\ crashes < TornFrom =>
         \A s \in snapMay, j \in journalMay : Covers(answers, Recovered(s, j))

LEMMA MemoryCovers ==
    ASSUME PromptIO, PoolInv, CacheInv, NEW t
    PROVE  (Weak(t) \/ Strong(t)) => Covers(answers, t)
<1> SUFFICES ASSUME Weak(t), NEW x \in answers PROVE Lists(t, x.domain, x.address)
  BY StrongIsWeak DEF Covers
<1>1. /\ x.domain \in Domains /\ x.address \in Addrs /\ byAddress[x.address] # Nil
      /\ byAddress[x.address].domain = x.domain /\ (Alloc => x.address # writer.address)
  BY DEF PoolInv, IndexInv, TypeOK, Answer, CacheInv, Alloc
<1>2. byDomain[x.domain] = x.address /\ x.address # Nil
  BY <1>1, NilAssumption DEF PoolInv, IndexInv, IndexesInverse
<1>3. Alloc => byDomain[writer.domain] = writer.address
  BY DEF PoolInv, WriterKept, IndexInv, WriterEntry, Alloc
<1>4. x.domain \in Domains \ InFlight
  BY <1>1, <1>2, <1>3 DEF InFlight
<1> QED BY <1>2, <1>4 DEF Weak, Agrees

LEMMA AnswersUp ==
    ASSUME PromptIO, Clean, AnswersInv, proc = "up", proc' = "up", crashes' = crashes,
           [Next]_poolVars,
           \A j \in journalMay' : j \in journalMay \/ ~HasTorn(j) \/ crashes + 1 >= TornFrom
    PROVE  AnswersInv'
<1>1. CacheInv'
  BY CacheInvStep DEF AnswersInv, Clean, PoolInv
<1>2. Cached'
  BY <1>1 DEF CacheInv, Cached, PromptIO
<1>3. TornInv'
  BY DEF AnswersInv, TornInv
<1> QED BY <1>1, <1>2, <1>3 DEF AnswersInv

LEMMA AnswersInit ==
    ASSUME PromptIO, Clean, AnswersInv, proc = "init", proc' \in {"init", "up"},
           crashes' = crashes, [Next]_poolVars, answers' \subseteq answers,
           \A j \in journalMay' : j \in journalMay \/ ~HasTorn(j),
           \A s \in snapMay', j \in journalMay' :
             \/ s \in snapMay /\ j \in journalMay
             \/ Strong(Recovered(s, j))
    PROVE  AnswersInv'
<1>1. CacheInv' /\ CacheInv
  BY CacheInvStep DEF AnswersInv, Clean, PoolInv
<1>2. Cached'
  BY <1>1 DEF CacheInv, Cached, PromptIO
<1>3. TornInv'
  BY DEF AnswersInv, TornInv
<1>4. crashes' < TornFrom => \A s \in snapMay', j \in journalMay' : Covers(answers', Recovered(s, j))
  <2>1. \A s, j : Strong(Recovered(s, j)) => Covers(answers, Recovered(s, j))
    BY <1>1, MemoryCovers DEF Clean
  <2>2. ASSUME crashes' < TornFrom, NEW s \in snapMay', NEW j \in journalMay'
        PROVE  Covers(answers, Recovered(s, j))
    BY <2>1, <2>2 DEF AnswersInv
  <2> QED BY <2>2 DEF Covers
<1> QED BY <1>1, <1>2, <1>3, <1>4 DEF AnswersInv

LEMMA AnswersDown ==
    ASSUME AnswersInv, proc' = "down", answers' \subseteq answers, now' = now,
           Covers(answers', Recovered(snap', journal')),
           journalMay' = {journal'}, HasTorn(journal') => crashes' >= TornFrom
    PROVE  AnswersInv'
<1>1. Cached' /\ TornInv'
  BY DEF AnswersInv, Cached, TornInv
<1> QED BY <1>1 DEF AnswersInv

\* The I/O
LEMMA RecordTorn ==
    ASSUME Clean, RecordWrite
    PROVE  \A j \in journalMay' : j \in journalMay \/ ~HasTorn(j) \/ crashes + 1 >= TornFrom
<1>1. proc = "up" /\ io.pc = "record" /\ Alloc
  BY Busy DEF RecordWrite, RecordPcs
<1>2. ~HasTorn(journal) /\ journal \in JournalFile /\ epoch # NoEpoch
  BY <1>1 DEF Clean, RecordInv, Sound, FilesInv, UpInv
<1>3. NewRecord \in Record
  BY <1>1, <1>2, NewRecordType DEF Clean
<1>4. ~HasTorn(Lines(journal)) /\ ~HasTorn(Append(Lines(journal), NewRecord))
  BY <1>2, <1>3, ReadableAppend
<1>5. Existing = Lines(journal)
  BY DEF Existing, Lines
<1> QED BY <1>4, <1>5 DEF RecordWrite, Unsynced

LEMMA CheckpointFiles ==
    ASSUME Clean,
           SnapshotTemp \/ SnapshotRename \/ SnapshotSync \/ ClearJournal \/ ClearSync
    PROVE  /\ \A j \in journalMay' : j \in journalMay \/ ~HasTorn(j)
           /\ \A s \in snapMay', j \in journalMay' :
                \/ s \in snapMay /\ j \in journalMay
                \/ Strong(Recovered(s, j))
<1>0. ~HasTorn(Nil) /\ journal \in journalMay /\ snap \in snapMay
  BY DEF HasTorn, Clean, FilesInv
<1>1. CASE SnapshotTemp
  BY <1>1 DEF SnapshotTemp, diskVars
<1>2. CASE SnapshotRename
  <2> DEFINE n == [epoch |-> io.epoch, table |-> io.table]
  <2>1. /\ io.pc = "rename" /\ snapMay' = snapMay \cup {n} /\ journalMay' = journalMay
    BY <1>2 DEF SnapshotRename
  <2>2. n = [epoch |-> io.epoch, table |-> io.table]
    OBVIOUS
  <2> HIDE DEF n
  <2>3. Strong(io.table) /\ \A j \in journalMay : Recovered(n, j) = io.table
    BY <2>1, <2>2, Busy, Supersedes
  <2> QED BY <2>1, <2>3
<1>3. CASE SnapshotSync \/ ClearSync
  BY <1>0, <1>3 DEF SnapshotSync, ClearSync, SyncDirectory
<1>4. CASE ClearJournal
  <2>1. /\ io.pc = "clear" /\ snapMay' = snapMay /\ journalMay' = journalMay \cup {Nil}
    BY <1>4 DEF ClearJournal
  <2>2. /\ proc \in {"init", "up"} /\ snapMay = {snap}
        /\ snap = [epoch |-> io.epoch, table |-> io.table]
    BY <2>1, Busy DEF Clean, CheckpointInv
  <2>3. Strong(io.table) /\ \A j \in journalMay \cup {Nil} : Recovered(snap, j) = io.table
    BY <2>1, <2>2, Supersedes
  <2> QED BY <1>0, <2>1, <2>2, <2>3
<1> QED BY <1>1, <1>2, <1>3, <1>4

LEMMA AnswersIO ==
    ASSUME PromptIO, Clean, AnswersInv,
           \/ RecordWrite \/ RecordTooBig \/ JournalSync \/ JournalClose \/ SnapshotTemp
           \/ SnapshotRename \/ SnapshotSync \/ ClearJournal \/ ClearSync
    PROVE  AnswersInv'
<1>1. /\ proc' = proc /\ crashes' = crashes /\ UNCHANGED poolVars /\ answers' = answers
  BY DEF RecordWrite, RecordTooBig, JournalSync, JournalClose, SnapshotTemp,
         SnapshotRename, SnapshotSync, ClearJournal, ClearSync, poolVars
<1>2. io.pc # "idle"
  BY DEF RecordWrite, RecordTooBig, JournalSync, JournalClose, SnapshotTemp,
         SnapshotRename, SnapshotSync, ClearJournal, ClearSync
<1>3. ASSUME RecordWrite \/ RecordTooBig \/ JournalSync \/ JournalClose
      PROVE  /\ proc = "up"
             /\ \A j \in journalMay' : \/ j \in journalMay \/ ~HasTorn(j)
                                       \/ crashes + 1 >= TornFrom
  <2>1. io.pc \in RecordPcs
    BY <1>3 DEF RecordWrite, RecordTooBig, JournalSync, JournalClose, RecordPcs
  <2>2. proc = "up" /\ journal \in journalMay
    BY <1>2, <2>1, Busy DEF Clean, FilesInv
  <2>3. CASE RecordWrite
    BY <2>2, <2>3, RecordTorn
  <2>4. CASE RecordTooBig
    BY <2>2, <2>4 DEF RecordTooBig, diskVars
  <2>5. CASE JournalSync
    BY <2>2, <2>5 DEF JournalSync, Clean, RecordInv
  <2>6. CASE JournalClose
    BY <2>2, <2>6 DEF JournalClose
  <2> QED BY <1>3, <2>2, <2>3, <2>4, <2>5, <2>6
<1>4. CASE RecordWrite \/ RecordTooBig \/ JournalSync \/ JournalClose
  BY <1>1, <1>3, <1>4, AnswersUp
<1>5. CASE SnapshotTemp \/ SnapshotRename \/ SnapshotSync \/ ClearJournal \/ ClearSync
  <2>1. proc \in {"init", "up"}
    BY <1>2, Busy
  <2>2. /\ \A j \in journalMay' : j \in journalMay \/ ~HasTorn(j)
        /\ \A s \in snapMay', j \in journalMay' :
             \/ s \in snapMay /\ j \in journalMay
             \/ Strong(Recovered(s, j))
    BY <1>5, CheckpointFiles
  <2>3. CASE proc = "up"
    BY <1>1, <2>2, <2>3, AnswersUp
  <2>4. CASE proc = "init"
    BY <1>1, <2>2, <2>4, AnswersInit
  <2> QED BY <2>1, <2>3, <2>4
<1> QED BY <1>4, <1>5

\* The pool's operations
LEMMA AnswersPool ==
    ASSUME PromptIO, Clean, AnswersInv,
           (\E d \in Domains : BeginAllocate(d)) \/ BeginFlush \/ EndAllocate
    PROVE  AnswersInv'
<1>1. /\ proc' = proc /\ crashes' = crashes /\ journalMay' = journalMay
  BY DEF BeginAllocate, BeginFlush, EndAllocate, diskVars
<1>2. Next
  BY DEF BeginAllocate, BeginFlush, EndAllocate, Next
<1>3. proc = "up"
  <2>1. CASE EndAllocate
    <3>1. writer # Nil
      BY <2>1 DEF EndAllocate, PersistOk, PersistFail
    <3> QED BY <3>1 DEF Clean, FilesInv, StartInv, Asleep
  <2> QED BY <2>1 DEF BeginAllocate, BeginFlush
<1> QED BY <1>1, <1>2, <1>3, AnswersUp

LEMMA AnswersMemory == ASSUME PromptIO, Clean, AnswersInv, Memory PROVE AnswersInv'
<1>1. /\ proc' = proc /\ crashes' = crashes /\ journalMay' = journalMay /\ snapMay' = snapMay
      /\ snap' = snap /\ journal' = journal
  BY DEF Memory, walVars
<1>2. Next /\ (proc # "up" => Tick)
  BY DEF Memory, Next
<1>3. CASE proc = "up"
  BY <1>1, <1>2, <1>3, AnswersUp
<1>4. CASE proc # "up"
  <2>1. /\ answers' \subseteq answers /\ now' = now + 1 /\ byAddress' = byAddress
        /\ \A x \in answers' : x.until > now + 1
    BY <1>2, <1>4 DEF Tick
  <2>2. CASE proc = "init"
    BY <1>1, <1>2, <2>1, <2>2, AnswersInit
  <2>3. CASE proc \in {"down", "snapshot"}
    <3>1. now \in Nat /\ DnsTTL \in Nat /\ answers \subseteq Answer
      BY TTLAssumption DEF Clean, PoolInv, IndexInv, TypeOK
    <3>2. \A x \in Answer : x.until \in Nat
      BY DEF Answer
    <3>3. Cached'
      <4> SUFFICES ASSUME NEW x \in answers' PROVE now' < x.until /\ x.until <= now' + DnsTTL
        BY DEF Cached
      <4>1. x.until \in Nat /\ x.until > now + 1 /\ x.until <= now + DnsTTL
        BY <2>1, <3>1, <3>2 DEF AnswersInv, Cached
      <4> QED BY <2>1, <3>1, <4>1
    <3>4. TornInv'
      BY <1>1 DEF AnswersInv, TornInv
    <3>5. Covers(answers', Recovered(snap', journal'))
      BY <1>1, <2>1, <2>3 DEF AnswersInv, Covers
    <3>6. proc' = "snapshot" /\ snap' # Nil =>
            \A x \in answers' : Lists(snap'.table, x.domain, x.address) => Backed(x)'
      BY <1>1, <2>1 DEF AnswersInv, Backed
    <3> QED BY <1>1, <2>3, <3>3, <3>4, <3>5, <3>6 DEF AnswersInv
  <2> QED BY <1>4, <2>2, <2>3 DEF Clean, FilesInv
<1> QED BY <1>3, <1>4

\* The end of a process
LEMMA AnswersEndFlush == ASSUME PromptIO, Clean, AnswersInv, EndFlush PROVE AnswersInv'
<1>1. /\ io.pc = "ok" /\ writer # Nil /\ proc' = "down" /\ answers' = answers /\ now' = now
      /\ snap' = snap /\ journal' = journal /\ journalMay' = journalMay /\ crashes' = crashes
  BY DEF EndFlush, ForgetMemory, diskVars, Clean, FilesInv, IOType
<1>2. proc = "up"
  BY <1>1 DEF Clean, FilesInv, StartInv, Asleep
<1>3. /\ journalMay = {journal} /\ snap \in snapMay /\ ~HasTorn(journal) /\ CacheInv
      /\ Weak(Recovered(snap, journal))
  BY <1>1, <1>2 DEF Clean, CheckpointInv, Settled, Sound, AnswersInv, UpInv
<1>4. Covers(answers, Recovered(snap, journal))
  BY <1>3, MemoryCovers DEF Clean
<1> QED BY <1>1, <1>3, <1>4, AnswersDown

LEMMA AnswersCrash ==
    ASSUME PromptIO, Clean, AnswersInv, Crash, crashes \in Nat, crashes' <= TornFrom
    PROVE  AnswersInv'
<1>1. /\ proc' = "down" /\ answers' = answers /\ now' = now /\ crashes' = crashes + 1
      /\ snap' \in snapMay /\ journal' \in journalMay /\ journalMay' = {journal'}
  BY DEF Crash, ForgetMemory, Clean, FilesInv
<1>2. TornFrom \in Nat /\ crashes < TornFrom
  BY <1>1, WalAssumption
<1>3. HasTorn(journal') => crashes' >= TornFrom
  BY <1>1, <1>2 DEF AnswersInv, TornInv
<1>4. Covers(answers, Recovered(snap', journal'))
  <2>1. CASE proc = "up"
    <3>1. Weak(Recovered(snap', journal')) /\ CacheInv
      BY <1>1, <2>1 DEF Clean, UpInv, AnswersInv
    <3> QED BY <3>1, MemoryCovers DEF Clean
  <2>2. CASE proc = "init"
    BY <1>1, <1>2, <2>2 DEF AnswersInv
  <2>3. CASE proc = "down"
    BY <1>1, <2>3 DEF Clean, StartInv, Settled, AnswersInv
  <2>4. CASE proc = "snapshot"
    <3>1. journal' = journal
      BY <1>1, <2>4 DEF Clean, StartInv
    <3>2. CASE snap # Nil
      BY <1>1, <2>4, <3>1, <3>2 DEF Clean, StartInv, AnswersInv
    <3>3. CASE snap = Nil
      <4>1. Recovered(snap', journal') = {} /\ Recovered(snap, journal) = {}
        BY <1>1, <2>4, <3>3 DEF Clean, StartInv, Recovered, ValidSnap
      <4> QED BY <2>4, <4>1 DEF AnswersInv
    <3> QED BY <3>2, <3>3
  <2> QED BY <2>1, <2>2, <2>3, <2>4 DEF Clean, FilesInv
<1> QED BY <1>1, <1>3, <1>4, AnswersDown

LEMMA AnswersDiscarded ==
    ASSUME Clean, AnswersInv, BitRot \/ ClearPersistence(TRUE, TRUE)
    PROVE  AnswersInv'
<1>1. /\ proc = "down" /\ proc' = proc /\ answers' = {} /\ now' = now /\ crashes' = crashes
      /\ journal' \in {journal, Nil} /\ journalMay' = {journal'}
  BY DEF BitRot, ClearPersistence, Clean, StartInv, Settled
<1>2. HasTorn(journal') => crashes' >= TornFrom
  BY <1>1 DEF AnswersInv, TornInv, HasTorn, Clean, FilesInv
<1>3. Covers(answers', Recovered(snap', journal'))
  BY <1>1 DEF Covers
<1> QED BY <1>1, <1>2, <1>3, AnswersDown

\* The start of a process
LEMMA AnswersOpenSnapshot == ASSUME Clean, AnswersInv, OpenSnapshot PROVE AnswersInv'
<1>1. /\ proc = "down" /\ proc' = "snapshot" /\ journal' = journal /\ journalMay' = journalMay
      /\ now' = now /\ next' = next /\ pendingDeletes' = pendingDeletes /\ writer' = writer
      /\ flows' = flows /\ answers' = answers /\ crashes' = crashes
  BY DEF OpenSnapshot
<1>2. Cached' /\ TornInv'
  BY <1>1 DEF AnswersInv, Cached, TornInv
<1>3. Covers(answers, Recovered(snap, journal)) /\ Asleep
  BY <1>1 DEF AnswersInv, Clean, StartInv
<1>4. CASE ValidSnap(snap)
  <2>1. RestoreTable(snap.table) /\ snap' = snap
    BY <1>4 DEF OpenSnapshot
  <2>2. Table(snap.table)
    BY <1>4, ValidTable DEF Clean, FilesInv
  <2>3. Asleep' /\ Typed' /\ Typed
    BY <1>1, <1>3 DEF Asleep, Typed, Clean, PoolInv, IndexInv, TypeOK
  <2>4. \A m \in snap.table : /\ byAddress'[m.address] # Nil
                              /\ byAddress'[m.address].domain = m.domain
                              /\ byAddress'[m.address].expiresAt >= now + DnsTTL
    BY <1>1, <2>1, <2>2, <2>3, RestoreKeeps
  <2>5. \A m \in snap.table : byAddress'[m.address] \in Entry
    <3>1. IndexInv'
      BY <1>1, <2>1, <2>2, <2>3, RestoreKeeps
    <3> QED BY <2>2, <2>4, <3>1 DEF IndexInv, TypeOK, Table, Mapping
  <2>6. ASSUME NEW x \in answers, Lists(snap.table, x.domain, x.address) PROVE Backed(x)'
    <3>1. PICK m \in snap.table : m.domain = x.domain /\ m.address = x.address
      BY <2>6 DEF Lists
    <3>2. x.until <= now + DnsTTL /\ x.until \in Nat /\ now \in Nat /\ DnsTTL \in Nat
      BY TTLAssumption DEF AnswersInv, Cached, Clean, PoolInv, IndexInv, TypeOK, Answer
    <3>3. byAddress'[x.address].expiresAt \in Nat
      BY <2>5, <3>1 DEF Entry
    <3> QED BY <2>4, <3>1, <3>2, <3>3 DEF Backed
  <2> QED BY <1>1, <1>2, <1>3, <2>1, <2>6 DEF AnswersInv
<1>5. CASE ~ValidSnap(snap)
  <2>1. snap' = Nil
    BY <1>5 DEF OpenSnapshot
  <2>2. Recovered(Nil, journal) = {} /\ Recovered(snap, journal) = {}
    BY <1>5 DEF Recovered, ValidSnap
  <2> QED BY <1>1, <1>2, <1>3, <2>1, <2>2 DEF AnswersInv
<1> QED BY <1>4, <1>5

LEMMA AnswersOpenJournal ==
    ASSUME PromptIO, Clean, AnswersInv, OpenJournal, crashes \in Nat PROVE AnswersInv'
<1> DEFINE refused == JournalRefused(snap, journal)
<1>1. /\ proc = "snapshot" /\ now' = now /\ next' = next
      /\ pendingDeletes' = pendingDeletes /\ writer' = writer /\ flows' = flows
      /\ answers' = answers /\ snap' = snap /\ snapMay' = snapMay /\ crashes' = crashes
      /\ IF refused \/ snap = Nil THEN byDomain' = byDomain /\ byAddress' = byAddress
         ELSE RestoreTable(Replay(snap, Readable(journal)))
      /\ journalMay' \subseteq journalMay \cup {Nil}
      /\ proc' \in {"init", "up"}
      /\ proc' = "init" => HasTorn(journal) \/ refused \/ snap = Nil
  BY Zenon DEF OpenJournal
<1>2. /\ journalMay = {journal} /\ Asleep /\ journal \in JournalFile
      /\ snap # Nil => snapMay = {snap} /\ ValidSnap(snap) /\ SnapOK(snap)
      /\ snap = Nil => \A s \in snapMay : ~ValidSnap(s)
      /\ Covers(answers, Recovered(snap, journal))
  BY <1>1 DEF Clean, StartInv, FilesInv, AnswersInv
<1> HIDE DEF refused
<1>3. Asleep' /\ Typed' /\ Typed /\ writer' = Nil
  BY <1>1, <1>2 DEF Asleep, Typed, Clean, PoolInv, IndexInv, TypeOK
<1>4. \A x \in answers : /\ x.until <= now + DnsTTL /\ x.until \in Nat /\ now \in Nat
                         /\ DnsTTL \in Nat
  BY TTLAssumption DEF AnswersInv, Cached, Clean, PoolInv, IndexInv, TypeOK, Answer
<1>5. snap = Nil => answers = {}
  <2>1. snap = Nil => Recovered(snap, journal) = {}
    BY DEF Recovered, ValidSnap
  <2> QED BY <1>2, <2>1 DEF Covers, Lists
<1>6. ASSUME NEW x \in answers PROVE Backed(x)'
  <2>1. snap # Nil
    BY <1>5, <1>6
  <2>2. CASE refused
    <3>1. Recovered(snap, journal) = snap.table
      BY <1>2, <2>1, <2>2 DEF Recovered, refused
    <3>2. Backed(x)
      BY <1>1, <1>2, <2>1, <3>1 DEF AnswersInv, Covers
    <3> QED BY <1>1, <2>2, <3>2 DEF Backed
  <2>3. CASE ~refused
    <3> DEFINE t == Recovered(snap, journal)
    <3>1. t = Replay(snap, Readable(journal))
      BY <1>2, <2>1, <2>3 DEF Recovered, refused
    <3>2. Table(t)
      BY <1>2, <2>1, RecoveredTable
    <3>3. RestoreTable(t)
      BY <1>1, <2>1, <2>3, <3>1
    <3> HIDE DEF t
    <3>4. /\ IndexInv'
          /\ \A m \in t : /\ byAddress'[m.address] # Nil
                          /\ byAddress'[m.address].domain = m.domain
                          /\ byAddress'[m.address].expiresAt >= now + DnsTTL
      BY <1>1, <1>3, <3>2, <3>3, RestoreKeeps
    <3>5. PICK m \in t : m.domain = x.domain /\ m.address = x.address
      BY <1>2 DEF Covers, Lists, t
    <3>6. byAddress'[x.address] \in Entry /\ byAddress'[x.address].expiresAt \in Nat
      BY <3>2, <3>4, <3>5 DEF IndexInv, TypeOK, Table, Mapping, Entry
    <3> QED BY <1>4, <3>4, <3>5, <3>6 DEF Backed
  <2> QED BY <2>2, <2>3
<1>7. CacheInv'
  BY <1>1, <1>3, <1>6 DEF CacheInv, Backed, AnswersInv, Cached
<1>8. Cached' /\ TornInv'
  <2>1. ~HasTorn(Nil)
    BY DEF HasTorn
  <2> QED BY <1>1, <2>1 DEF AnswersInv, Cached, TornInv
<1>9. ASSUME proc' = "init", crashes < TornFrom, NEW s \in snapMay', NEW j \in journalMay'
      PROVE  Covers(answers, Recovered(s, j))
  <2>1. CASE snap = Nil
    BY <1>5, <2>1 DEF Covers
  <2>2. CASE snap # Nil
    <3>1. ~HasTorn(journal)
      BY <1>1, <1>2, <1>9, WalAssumption DEF AnswersInv, TornInv
    <3>2. refused /\ s = snap /\ j \in {journal, Nil}
      BY <1>1, <1>2, <1>9, <2>2, <3>1
    <3>3. Recovered(snap, journal) = snap.table
      BY <1>2, <2>2, <3>2 DEF Recovered, refused
    <3>4. Recovered(snap, Nil) = snap.table
      <4>1. Readable(Nil) = <<>>
        BY DEF Readable
      <4> QED BY <1>2, <2>2, <4>1, RecoveredEmpty
    <3> QED BY <1>2, <3>2, <3>3, <3>4
  <2> QED BY <2>1, <2>2
<1> QED BY <1>1, <1>7, <1>8, <1>9 DEF AnswersInv

LEMMA AnswersOpenDone == ASSUME PromptIO, Clean, AnswersInv, OpenDone PROVE AnswersInv'
<1>1. /\ proc = "init" /\ proc' = "up" /\ UNCHANGED poolVars /\ answers' = answers
      /\ crashes' = crashes /\ journalMay' = journalMay /\ snapMay' = snapMay
  BY DEF OpenDone, Clean, FilesInv, IOType, diskVars, poolVars
<1> QED BY <1>1, AnswersInit

LEMMA AnswersStep ==
    ASSUME PromptIO, Clean, AnswersInv, ioErrors \in Nat, ioErrors' = 0, crashes \in Nat,
           crashes' <= TornFrom, [WalNext]_vars
    PROVE  AnswersInv'
<1>1. ~\E n \in {1, 2} : FailWith(n)
  BY FailureStays
<1>2. ASSUME \/ \E d \in Domains : BeginAllocate(d)
             \/ BeginFlush \/ EndAllocate \/ EndFlush \/ Memory
      PROVE  AnswersInv'
  BY <1>2, AnswersPool, AnswersEndFlush, AnswersMemory
<1>3. ASSUME \/ RecordWrite \/ RecordTooBig \/ JournalSync \/ JournalClose \/ SnapshotTemp
             \/ SnapshotRename \/ SnapshotSync \/ ClearJournal \/ ClearSync
      PROVE  AnswersInv'
  BY <1>3, AnswersIO
<1>4. ASSUME Crash \/ BitRot \/ OpenSnapshot \/ OpenJournal \/ OpenDone
      PROVE  AnswersInv'
  BY <1>4, AnswersCrash, AnswersDiscarded, AnswersOpenSnapshot, AnswersOpenJournal,
     AnswersOpenDone
<1>5. ASSUME NEW undone \in BOOLEAN, RecordWriteFails(undone) \/ JournalSyncFails(undone)
      PROVE  FALSE
  BY <1>1, <1>5 DEF RecordWriteFails, JournalSyncFails
<1>6. ~(JournalCloseFails \/ CheckpointFails \/ OpenFails)
  BY <1>1 DEF JournalCloseFails, CheckpointFails, OpenFails
<1>7. ASSUME NEW both \in BOOLEAN, NEW synced \in BOOLEAN, ClearPersistence(both, synced)
      PROVE  AnswersInv'
  <2>1. FailWith((IF both THEN 0 ELSE 1) + (IF synced THEN 0 ELSE 1))
    BY <1>7 DEF ClearPersistence
  <2>2. both = TRUE /\ synced = TRUE
    BY <1>1, <2>1
  <2> QED BY <1>7, <2>2, AnswersDiscarded
<1>8. CASE UNCHANGED vars
  <2>1. /\ UNCHANGED poolVars /\ proc' = proc /\ snap' = snap /\ snapMay' = snapMay
        /\ journal' = journal /\ journalMay' = journalMay /\ crashes' = crashes
    BY <1>8 DEF vars, walVars
  <2>2. CacheInv => CacheInv'
    BY <2>1, CacheInvStep DEF Clean, PoolInv
  <2>3. now' = now /\ answers' = answers /\ byAddress' = byAddress
    BY <2>1 DEF poolVars
  <2> QED BY <2>1, <2>2, <2>3 DEF AnswersInv, Cached, TornInv, Backed
<1> QED BY <1>2, <1>3, <1>4, <1>5, <1>6, <1>7, <1>8 DEF WalNext

LEMMA CrashesGrow ==
    ASSUME crashes \in Nat, [WalNext]_vars
    PROVE  crashes' \in Nat /\ crashes <= crashes'
<1>1. crashes' = crashes \/ crashes' = crashes + 1
  <2>1. ASSUME \/ \E d \in Domains : BeginAllocate(d)
               \/ BeginFlush \/ EndAllocate \/ EndFlush \/ Memory \/ UNCHANGED vars
        PROVE  crashes' = crashes
    BY <2>1 DEF BeginAllocate, BeginFlush, EndAllocate, EndFlush, Memory, vars, walVars
  <2>2. ASSUME \/ RecordWrite \/ RecordTooBig \/ JournalSync \/ JournalClose \/ SnapshotTemp
               \/ SnapshotRename \/ SnapshotSync \/ ClearJournal \/ ClearSync
        PROVE  crashes' = crashes
    BY <2>2 DEF RecordWrite, RecordTooBig, JournalSync, JournalClose, SnapshotTemp,
                SnapshotRename, SnapshotSync, ClearJournal, ClearSync
  <2>3. ASSUME Crash \/ BitRot \/ OpenSnapshot \/ OpenJournal \/ OpenDone
        PROVE  crashes' = crashes \/ crashes' = crashes + 1
    BY <2>3 DEF Crash, BitRot, OpenSnapshot, OpenJournal, OpenDone
  <2>4. ASSUME \/ \E undone \in BOOLEAN : RecordWriteFails(undone) \/ JournalSyncFails(undone)
               \/ JournalCloseFails \/ CheckpointFails \/ OpenFails
               \/ \E both, synced \in BOOLEAN : ClearPersistence(both, synced)
        PROVE  crashes' = crashes
    BY <2>4 DEF RecordWriteFails, JournalSyncFails, JournalCloseFails, CheckpointFails,
                OpenFails, ClearPersistence
  <2> QED BY <2>1, <2>2, <2>3, <2>4 DEF WalNext
<1> QED BY <1>1

\* No call has failed, and at most one power loss could leave part of a record.
Benign == ioErrors = 0 /\ crashes <= TornFrom

DurableInv == crashes \in Nat /\ (PromptIO /\ Benign => AnswersInv)

LEMMA DurableInvHolds == WalSpec => []DurableInv
<1>1. WalInit => DurableInv
  <2> SUFFICES ASSUME WalInit PROVE DurableInv
    OBVIOUS
  <2>1. /\ crashes \in Nat /\ answers = {} /\ proc = "down" /\ journalMay = {Nil}
    BY DEF WalInit, Init
  <2>2. Cached /\ TornInv /\ Covers(answers, Recovered(snap, journal))
    BY <2>1 DEF Cached, TornInv, HasTorn, Covers
  <2> QED BY <2>1, <2>2 DEF DurableInv, AnswersInv
<1>2. WalInv /\ DurableInv /\ [WalNext]_vars => DurableInv'
  <2> SUFFICES ASSUME WalInv, DurableInv, [WalNext]_vars PROVE DurableInv'
    OBVIOUS
  <2>1. /\ ioErrors' \in Nat /\ (ioErrors' = 0 => ioErrors = 0)
        /\ crashes' \in Nat /\ crashes <= crashes'
    BY FailureStays, CrashesGrow DEF WalInv, DurableInv
  <2>2. PromptIO /\ Benign' => AnswersInv'
    <3> SUFFICES ASSUME PromptIO, Benign' PROVE AnswersInv'
      OBVIOUS
    <3>1. ioErrors = 0 /\ crashes <= TornFrom /\ ioErrors' = 0 /\ crashes' <= TornFrom
          /\ crashes \in Nat
      BY <2>1, WalAssumption DEF Benign, DurableInv
    <3>2. Clean /\ AnswersInv /\ ioErrors \in Nat
      BY <3>1 DEF WalInv, DurableInv, Benign
    <3> QED BY <3>1, <3>2, AnswersStep
  <2> QED BY <2>1, <2>2 DEF DurableInv, PromptIO
<1> QED BY <1>1, <1>2, WalInvHolds, PTL DEF WalSpec

\* OpenPersistence's promise: with no failing call and at most one power loss that could
\* tear a record (any number that only loses unsynced data, any number of kills), every
\* answer that a client may still use resolves back to its domain in whatever process
\* serves, however often it was restarted.
THEOREM WalDurableAnswers == WalSpec => [](Benign => DurableAnswers)
<1>1. DurableInv => (Benign => DurableAnswers)
  BY DEF DurableInv, AnswersInv, DurableAnswers, AnswerStable, CacheInv
<1> QED BY <1>1, DurableInvHolds, PTL

\* Under the same conditions no two clients hold one address for two domains, also while
\* no process runs and while one is starting.
THEOREM WalAnswersAgree == PromptIO => (WalSpec => [](Benign => AnswersAgree))
<1> SUFFICES ASSUME PromptIO PROVE WalSpec => [](Benign => AnswersAgree)
  OBVIOUS
<1>1. WalInv /\ DurableInv => (Benign => AnswersAgree)
  <2> SUFFICES ASSUME WalInv, DurableInv, Benign, NEW x \in answers, NEW y \in answers,
                      x.address = y.address
               PROVE  x.domain = y.domain
    BY DEF AnswersAgree
  <2>1. Clean /\ AnswersInv
    BY DEF WalInv, DurableInv, Benign
  <2>2. CASE proc \in {"init", "up"}
    BY <2>1, <2>2 DEF AnswersInv, CacheInv
  <2>3. CASE proc \in {"down", "snapshot"}
    <3> DEFINE t == Recovered(snap, journal)
    <3>1. Covers(answers, t) /\ Table(t)
      BY <2>1, <2>3, CleanTables DEF AnswersInv, Clean, FilesInv
    <3> HIDE DEF t
    <3>2. PICK m \in t : m.domain = x.domain /\ m.address = x.address
      BY <3>1 DEF Covers, Lists
    <3>3. PICK n \in t : n.domain = y.domain /\ n.address = y.address
      BY <3>1 DEF Covers, Lists
    <3> QED BY <3>1, <3>2, <3>3 DEF Table, Distinct
  <2> QED BY <2>1, <2>2, <2>3 DEF Clean, FilesInv
<1> QED BY <1>1, WalInvHolds, DurableInvHolds, PTL

=============================================================================
