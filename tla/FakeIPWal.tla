------------------------------ MODULE FakeIPWal ------------------------------
(***************************************************************************)
(* internal/fakeip/persistence.go under the pool of FakeIPPool: a snapshot *)
(* file and a write-ahead journal, checkpoints that replace the snapshot   *)
(* and start a new journal epoch, I/O errors at every system call, power   *)
(* loss between any two, and recovery by OpenPersistence.                  *)
(*                                                                         *)
(* Each file has its current contents and the set of contents that a power *)
(* loss may leave: data that was not fsynced and directory changes that    *)
(* were not followed by an fsync of the directory may or may not survive.  *)
(* Killing the process is the case where the current contents survive.     *)
(***************************************************************************)
EXTENDS FakeIPPool, Sequences, SequencesExt

CONSTANTS
    MaxRemoved,    \* deletions that fit in one record (maxJournalRecordSize)
    MaxJournal,    \* journal size limit (maxPersistenceSize); a record has size 1,
    Long,          \*   that of a domain of this set size 2
    PowerLoss,     \* whether a crash can lose unsynced data, or only the process
    TornFrom,      \* the first power loss that can leave part of a record
    MaxCrashes,    \* bound on power losses
    MaxIOErrors,   \* bound on failing system calls
    Mixed,         \* whether crashes and failing calls come in one behaviour
    MaxEpoch,      \* bound on journal epochs
    Legacy,        \* whether the first start finds a snapshot without an epoch
    MediumErrors,  \* whether the snapshot can become unreadable
    Torn, Corrupt

ASSUME WalAssumption ==
    /\ MaxRemoved \in Nat /\ MaxJournal \in Nat /\ TornFrom \in Nat /\ Mixed \in BOOLEAN
    /\ Long \subseteq Domains /\ PowerLoss \in BOOLEAN
    /\ MediumErrors \in BOOLEAN /\ Legacy \in BOOLEAN
    /\ MaxCrashes \in Nat /\ MaxIOErrors \in Nat /\ MaxEpoch \in Nat

NoEpoch == 0
Mapping == [domain : Domains, address : Addrs, expiresAt : Nat]
Record == [epoch : 1 .. MaxEpoch, removed : SUBSET Domains, mapping : Mapping]
SnapFile == [epoch : 0 .. MaxEpoch, table : SUBSET Mapping]

\* Values of different kinds are different.
ASSUME KindsAssumption ==
    /\ Torn \notin Record /\ Nil \notin SnapFile /\ Corrupt \notin SnapFile
    /\ Nil \notin Seq(Record \cup {Torn}) /\ Nil \notin Mapping

VARIABLES
    proc,        \* "down", "snapshot" (snapshot read), "init" (first checkpoint), "up"
    snap,        \* the snapshot file: Nil, Corrupt or [epoch, table]
    snapMay,     \* what a power loss may leave of it
    journal,     \* the journal file: Nil or a sequence of records and Torn
    journalMay,  \* what a power loss may leave of it
    epoch,       \* persistence.journalEpoch
    nextEpoch,   \* newJournalEpoch draws a value never used before
    io,          \* the I/O in progress
    crashes, ioErrors

diskVars == <<snap, snapMay, journal, journalMay>>
walVars == <<proc, snap, snapMay, journal, journalMay, epoch, nextEpoch, io,
             crashes, ioErrors>>
vars == <<poolVars, walVars>>

\* prior: the journal before the append; elsewhere: what a power loss may leave at its
\* path as long as the directory entry is not durable.
IdleIO == [pc |-> "idle", table |-> {}, epoch |-> NoEpoch, prior |-> Nil, elsewhere |-> {}]
IOStates == {"idle", "record", "sync", "close", "temp", "rename", "snapsync",
             "clear", "clearsync", "ok", "err"}

IsSnap(s) == s = Nil \/ s = Corrupt \/ s \in SnapFile
IsJournal(j) == j = Nil \/ \A i \in DOMAIN j : j[i] = Torn \/ j[i] \in Record

\* The files, the epoch and the step of the I/O have their types.
WalTypeOK ==
    /\ TypeOK
    /\ proc \in {"down", "snapshot", "init", "up"}
    /\ IsSnap(snap) /\ \A s \in snapMay : IsSnap(s)
    /\ IsJournal(journal) /\ \A j \in journalMay : IsJournal(j)
    /\ epoch \in 0 .. MaxEpoch /\ nextEpoch \in 1 .. MaxEpoch + 1
    /\ io.pc \in IOStates /\ io.table \subseteq Mapping
    /\ crashes \in 0 .. MaxCrashes /\ ioErrors \in 0 .. MaxIOErrors

-----------------------------------------------------------------------------
\* A first start, or an upgrade from a release whose snapshots had no epoch.
WalInit ==
    /\ Init
    /\ proc = "down"
    /\ snap \in {Nil} \cup (IF Legacy THEN {[epoch |-> NoEpoch, table |-> {}]} ELSE {})
    /\ snapMay = {snap}
    /\ journal = Nil /\ journalMay = {Nil}
    /\ epoch = NoEpoch /\ nextEpoch = 1
    /\ io = IdleIO
    /\ crashes = 0 /\ ioErrors = 0

\* snapshotLocked
Snapshot == {[domain |-> byAddress[a].domain, address |-> a,
              expiresAt |-> byAddress[a].expiresAt] : a \in {x \in Addrs : byAddress[x] # Nil}}

\* A system call fails: charge the bound on I/O errors.
FailWith(n) ==
    /\ ioErrors + n <= MaxIOErrors /\ (n > 0 /\ crashes > 0 => Mixed)
    /\ ioErrors' = ioErrors + n

Goto(pc) == io' = [io EXCEPT !.pc = pc]

\* syncDirectory: creations, removals and renames so far are durable.
SyncDirectory ==
    /\ snapMay' = {snap}
    /\ journalMay' = IF journal = Nil THEN {Nil} ELSE journalMay \ {Nil}

-----------------------------------------------------------------------------
\* record(): append one record, or checkpoint when it would not fit.

Existing == IF journal = Nil THEN <<>> ELSE journal

RecordSize(d) == IF d \in Long THEN 2 ELSE 1

JournalSize == Len(Existing) + Cardinality({i \in DOMAIN Existing :
                  Existing[i] # Torn /\ Existing[i].mapping.domain \in Long})

TooBig == \/ Cardinality(writer.removed) > MaxRemoved
          \/ JournalSize + RecordSize(writer.domain) > MaxJournal

\* The journal line that describes the writer's allocation
NewRecord == [epoch |-> epoch, removed |-> writer.removed,
              mapping |-> [domain |-> writer.domain, address |-> writer.address,
                           expiresAt |-> writer.startedAt + MappingTTL]]

\* What may be on disk while an appended record is not yet synced
Unsynced(j) == {Existing, Append(Existing, j)}
                 \cup (IF crashes + 1 >= TornFrom THEN {Append(Existing, Torn)} ELSE {})

Elsewhere == IF Nil \in journalMay
             THEN journalMay \ (IF journal = Nil THEN {} ELSE {journal}) ELSE {}

RecordWrite ==
    /\ io.pc = "record" /\ ~TooBig
    /\ journal' = Append(Existing, NewRecord)
    /\ journalMay' = journalMay \cup Unsynced(NewRecord)
    /\ io' = [io EXCEPT !.pc = "sync", !.prior = journal, !.elsewhere = Elsewhere]
    /\ UNCHANGED <<poolVars, proc, snap, snapMay, epoch, nextEpoch, crashes, ioErrors>>

\* The journal cannot be inspected, opened or given its mode, or writeAll fails part
\* way; the truncation that undoes the write may fail as well.
RecordWriteFails(undone) ==
    /\ io.pc = "record" /\ ~TooBig
    /\ FailWith(IF undone THEN 1 ELSE 2)
    /\ IF undone THEN journal' \in {journal, Existing} ELSE journal' = Append(Existing, Torn)
    /\ journalMay' = Elsewhere \cup {journal'}
    /\ Goto("err")
    /\ UNCHANGED <<poolVars, proc, snap, snapMay, epoch, nextEpoch, crashes>>

RecordTooBig ==
    /\ io.pc = "record" /\ TooBig
    /\ io' = [io EXCEPT !.pc = "temp", !.table = Snapshot]
    /\ UNCHANGED <<poolVars, proc, diskVars, epoch, nextEpoch, crashes, ioErrors>>

\* Mutant of JournalSync: the record is not synced.
JournalSyncSkipped ==
    /\ io.pc = "sync"
    /\ Goto("close")
    /\ UNCHANGED <<poolVars, proc, diskVars, epoch, nextEpoch, crashes, ioErrors>>

\* file.Sync: the appended record is durable once the file itself is.
JournalSync ==
    /\ io.pc = "sync"
    /\ journalMay' = io.elsewhere \cup {journal}
    /\ Goto("close")
    /\ UNCHANGED <<poolVars, proc, snap, snapMay, journal, epoch, nextEpoch, crashes, ioErrors>>

\* file.Sync fails; rollback truncates to the old size, or fails as well.
JournalSyncFails(undone) ==
    /\ io.pc = "sync"
    /\ FailWith(IF undone THEN 1 ELSE 2)
    /\ journal' = IF ~undone THEN journal ELSE IF io.prior = Nil THEN <<>> ELSE io.prior
    /\ journalMay' = IF undone THEN io.elsewhere \cup {journal'} ELSE journalMay
    /\ Goto("err")
    /\ UNCHANGED <<poolVars, proc, snap, snapMay, epoch, nextEpoch, crashes>>

\* Close, and syncDirectory for a journal that was just created
JournalClose ==
    /\ io.pc = "close"
    /\ IF io.prior = Nil THEN snapMay' = {snap} /\ journalMay' = {journal}
                         ELSE UNCHANGED <<snapMay, journalMay>>
    /\ Goto("ok")
    /\ UNCHANGED <<poolVars, proc, snap, journal, epoch, nextEpoch, crashes, ioErrors>>

\* Close or syncDirectory fails: the error is returned, the record stays.
JournalCloseFails ==
    /\ io.pc = "close"
    /\ FailWith(1)
    /\ Goto("err")
    /\ UNCHANGED <<poolVars, proc, diskVars, epoch, nextEpoch, crashes>>

-----------------------------------------------------------------------------
\* checkpoint(): write a new snapshot with a new epoch, then drop the journal.

\* newJournalEpoch, CreateTemp, Encode, Sync and Close of the temporary file
SnapshotTemp ==
    /\ io.pc = "temp"
    /\ nextEpoch <= MaxEpoch
    /\ io' = [io EXCEPT !.pc = "rename", !.epoch = nextEpoch]
    /\ nextEpoch' = nextEpoch + 1
    /\ UNCHANGED <<poolVars, proc, diskVars, epoch, crashes, ioErrors>>

SnapshotRename ==
    /\ io.pc = "rename"
    /\ snap' = [epoch |-> io.epoch, table |-> io.table]
    /\ snapMay' = snapMay \cup {snap'}
    /\ Goto("snapsync")
    /\ UNCHANGED <<poolVars, proc, journal, journalMay, epoch, nextEpoch, crashes, ioErrors>>

\* The directory is synced and the epoch switches before the journal goes.
SnapshotSync ==
    /\ io.pc = "snapsync"
    /\ SyncDirectory
    /\ epoch' = io.epoch
    /\ Goto("clear")
    /\ UNCHANGED <<poolVars, proc, snap, journal, nextEpoch, crashes, ioErrors>>

\* clearJournal
ClearJournal ==
    /\ io.pc = "clear"
    /\ journal' = Nil
    /\ journalMay' = journalMay \cup {Nil}
    /\ Goto(IF journal = Nil THEN "ok" ELSE "clearsync")
    /\ UNCHANGED <<poolVars, proc, snap, snapMay, epoch, nextEpoch, crashes, ioErrors>>

ClearSync ==
    /\ io.pc = "clearsync"
    /\ SyncDirectory
    /\ Goto("ok")
    /\ UNCHANGED <<poolVars, proc, snap, journal, epoch, nextEpoch, crashes, ioErrors>>

\* Any call of checkpoint fails: its error is returned with the files as they are.
CheckpointFails ==
    /\ io.pc \in {"temp", "rename", "snapsync", "clear", "clearsync"}
    /\ FailWith(1)
    /\ Goto("err")
    /\ UNCHANGED <<poolVars, proc, diskVars, epoch, nextEpoch, crashes>>

-----------------------------------------------------------------------------
\* The pool's operations while the process is up

BeginAllocate(d) ==
    /\ proc = "up" /\ Allocate(d)
    /\ io' = [IdleIO EXCEPT !.pc = "record"]
    /\ UNCHANGED <<proc, diskVars, epoch, nextEpoch, crashes, ioErrors>>

\* Persistence.Flush, which Close calls once before the process exits
BeginFlush ==
    /\ proc = "up" /\ FlushBegin
    /\ io' = [IdleIO EXCEPT !.pc = "temp", !.table = Snapshot]
    /\ UNCHANGED <<proc, diskVars, epoch, nextEpoch, crashes, ioErrors>>

EndAllocate ==
    /\ \/ io.pc = "ok" /\ PersistOk
       \/ io.pc = "err" /\ PersistFail
    /\ io' = IdleIO
    /\ UNCHANGED <<proc, diskVars, epoch, nextEpoch, crashes, ioErrors>>

\* A process that ends releases its mappings; the clients keep their answers.
ForgetMemory ==
    /\ byDomain' = [d \in Domains |-> Nil]
    /\ byAddress' = [a \in Addrs |-> Nil]
    /\ flows' = [f \in Flows |-> Nil]
    /\ pendingDeletes' = {} /\ writer' = Nil /\ next' = 0
    /\ epoch' = NoEpoch /\ io' = IdleIO /\ proc' = "down"

EndFlush ==
    /\ io.pc \in {"ok", "err"} /\ writer # Nil /\ writer.op = "flush"
    /\ ForgetMemory
    /\ UNCHANGED <<now, answers, diskVars, nextEpoch, crashes, ioErrors>>

\* Operations that do no I/O
Memory ==
    /\ \/ /\ proc = "up"
          /\ \/ \E d \in Domains : Renew(d) \/ Exhausted(d)
             \/ \E a \in Addrs : LookupExpired(a)
             \/ \E f \in Flows : Release(f) \/ \E a \in Addrs : Acquire(f, a)
       \/ Tick
    /\ UNCHANGED walVars

-----------------------------------------------------------------------------
\* A power loss, or a kill: unsynced data may be lost, memory is.
Crash ==
    /\ crashes < MaxCrashes /\ (ioErrors > 0 => Mixed)
    /\ proc # "down" \/ snapMay # {snap} \/ journalMay # {journal}
    /\ crashes' = crashes + 1
    /\ snap' \in (IF PowerLoss THEN snapMay ELSE {snap}) /\ snapMay' = {snap'}
    /\ journal' \in (IF PowerLoss THEN journalMay ELSE {journal}) /\ journalMay' = {journal'}
    /\ ForgetMemory
    /\ UNCHANGED <<now, answers, nextEpoch, ioErrors>>

\* A medium error leaves a snapshot that does not decode.  No promise about the
\* answers given before survives it.
BitRot ==
    /\ MediumErrors
    /\ proc = "down" /\ snap # Nil /\ snap # Corrupt
    /\ snap' = Corrupt /\ snapMay' = {Corrupt}
    /\ answers' = {}
    /\ UNCHANGED <<now, next, byDomain, byAddress, pendingDeletes, writer, flows, proc,
                   journal, journalMay, epoch, nextEpoch, io, crashes, ioErrors>>

\* ClearPersistence: the operator discards the mappings.  The snapshot is removed
\* first; the journal stays behind when its removal fails, and the removals are not
\* durable when syncDirectory fails.
ClearPersistence(both, synced) ==
    /\ proc = "down" /\ (snap # Nil \/ journal # Nil)
    /\ both \/ (snap # Nil /\ journal # Nil)
    /\ FailWith((IF both THEN 0 ELSE 1) + (IF synced THEN 0 ELSE 1))
    /\ snap' = Nil
    /\ snapMay' = IF synced THEN {Nil} ELSE snapMay \cup {Nil}
    /\ journal' = IF both THEN Nil ELSE journal
    /\ journalMay' = IF synced /\ both THEN {Nil} ELSE journalMay \cup {journal'}
    /\ answers' = {}
    /\ UNCHANGED <<now, next, byDomain, byAddress, pendingDeletes, writer, flows,
                   proc, epoch, nextEpoch, io, crashes>>

-----------------------------------------------------------------------------
\* OpenPersistence

ProtectedVerbatim(e) == e

\* validateMapping: no restored mapping expires within the protection window,
\* which is the DNS TTL.
Protected(e) == IF e < now + DnsTTL THEN now + DnsTTL ELSE e

\* The pool after restoring the mappings of t (restore, restoreJournal)
RestoreTable(t) ==
    /\ byDomain' = [d \in Domains |->
         IF \E m \in t : m.domain = d THEN (CHOOSE m \in t : m.domain = d).address ELSE Nil]
    /\ byAddress' = [a \in Addrs |->
         IF \E m \in t : m.address = a
         THEN LET m == CHOOSE m \in t : m.address = a
              IN [domain |-> m.domain, expiresAt |-> Protected(m.expiresAt), references |-> 0]
         ELSE Nil]

\* The epoch whose records activeJournalRecords keeps
WantedEpoch(s, records) ==
    IF s.epoch # NoEpoch \/ records = <<>> THEN s.epoch ELSE Head(records).epoch

MixedEpochs(s, records) ==
    s.epoch = NoEpoch /\ \E i \in DOMAIN records : records[i].epoch # WantedEpoch(s, records)

\* restoreJournal fails: no set of mappings
Overflow == {Nil}

\* One record of restoreJournal: removals, then the record's own domain and
\* address are vacated, then the limit is checked and the mapping added.
ReplayRecord(t, r) ==
    IF t = Overflow THEN Overflow
    ELSE LET kept == {m \in t : /\ m.domain \notin r.removed \cup {r.mapping.domain}
                                /\ m.address # r.mapping.address}
         IN IF Cardinality(kept) >= MaxMappings THEN Overflow ELSE kept \cup {r.mapping}

\* The snapshot's mappings after the records of the wanted epoch
Replay(s, records) ==
    LET wanted == WantedEpoch(s, records)
    IN FoldLeft(LAMBDA t, r : IF r.epoch = wanted THEN ReplayRecord(t, r) ELSE t,
                s.table, records)

\* Mutant of Readable: a torn record makes the whole journal unreadable.
ReadableAllOrNothing(j) ==
    IF j = Nil \/ (\E i \in DOMAIN j : j[i] = Torn) THEN <<>> ELSE j

\* readJournal: the records before the first one that does not decode
Readable(j) ==
    IF j = Nil THEN <<>>
    ELSE IF \E i \in DOMAIN j : j[i] = Torn
         THEN SubSeq(j, 1, (CHOOSE i \in DOMAIN j :
                              j[i] = Torn /\ \A k \in 1 .. i - 1 : j[k] # Torn) - 1)
         ELSE j

HasTorn(j) == j # Nil /\ \E i \in DOMAIN j : j[i] = Torn

ValidSnap(s) == s # Nil /\ s # Corrupt /\ Cardinality(s.table) <= MaxMappings

\* A journal without its snapshot, of mixed epochs, or over the limit is refused.
JournalRefused(s, j) ==
    IF s = Nil THEN Readable(j) # <<>>
    ELSE \/ MixedEpochs(s, Readable(j))
         \/ Replay(s, Readable(j)) = Overflow

\* Read and restore the snapshot, or quarantine it.
OpenSnapshot ==
    /\ proc = "down"
    /\ proc' = "snapshot"
    /\ IF ValidSnap(snap)
       THEN RestoreTable(snap.table) /\ UNCHANGED <<snap, snapMay>>
       ELSE /\ snap' = Nil /\ snapMay' = snapMay \cup {Nil}
            /\ UNCHANGED <<byDomain, byAddress>>
    /\ UNCHANGED <<now, next, pendingDeletes, writer, flows, answers, journal, journalMay,
                   epoch, nextEpoch, io, crashes, ioErrors>>

\* Replay the journal, or quarantine it; then checkpoint if anything was repaired.
OpenJournal ==
    /\ proc = "snapshot"
    /\ LET records == Readable(journal)
           refused == JournalRefused(snap, journal)
           bad == HasTorn(journal) \/ refused
           fresh == refused \/ snap = Nil \/ WantedEpoch(snap, records) = NoEpoch
           repair == bad \/ snap = Nil
       IN /\ IF refused \/ snap = Nil THEN UNCHANGED <<byDomain, byAddress>>
             ELSE RestoreTable(Replay(snap, records))
          /\ IF bad THEN journal' = Nil /\ journalMay' = journalMay \cup {Nil}
                    ELSE UNCHANGED <<journal, journalMay>>
          /\ fresh => nextEpoch <= MaxEpoch
          /\ epoch' = IF fresh THEN nextEpoch ELSE WantedEpoch(snap, records)
          /\ nextEpoch' = IF fresh THEN nextEpoch + 1 ELSE nextEpoch
          /\ proc' = IF repair THEN "init" ELSE "up"
          /\ io' = IF repair THEN [IdleIO EXCEPT !.pc = "temp", !.table = Snapshot'] ELSE IdleIO
    /\ UNCHANGED <<now, next, pendingDeletes, writer, flows, answers, snap, snapMay,
                   crashes, ioErrors>>

\* Reading or quarantining the journal, or drawing an epoch, fails: OpenPersistence
\* returns and the process ends.
OpenFails ==
    /\ proc = "snapshot"
    /\ FailWith(1)
    /\ ForgetMemory
    /\ UNCHANGED <<now, answers, diskVars, nextEpoch, crashes>>

\* The first checkpoint is done: serve, or give up with the files as they are.
OpenDone ==
    /\ proc = "init"
    /\ \/ /\ io.pc = "ok"
          /\ proc' = "up" /\ io' = IdleIO
          /\ UNCHANGED <<poolVars, epoch>>
       \/ /\ io.pc = "err"
          /\ ForgetMemory
          /\ UNCHANGED <<now, answers>>
    /\ UNCHANGED <<diskVars, nextEpoch, crashes, ioErrors>>

-----------------------------------------------------------------------------
WalNext ==
    \/ \E d \in Domains : BeginAllocate(d)
    \/ BeginFlush
    \/ EndAllocate
    \/ EndFlush
    \/ Memory
    \/ RecordWrite
    \/ RecordTooBig
    \/ JournalSync
    \/ JournalClose
    \/ \E undone \in BOOLEAN : RecordWriteFails(undone) \/ JournalSyncFails(undone)
    \/ JournalCloseFails
    \/ SnapshotTemp
    \/ SnapshotRename
    \/ SnapshotSync
    \/ ClearJournal
    \/ ClearSync
    \/ CheckpointFails
    \/ Crash
    \/ BitRot
    \/ \E both, synced \in BOOLEAN : ClearPersistence(both, synced)
    \/ OpenSnapshot
    \/ OpenJournal
    \/ OpenFails
    \/ OpenDone

WalSpec == WalInit /\ [][WalNext]_vars

-----------------------------------------------------------------------------
\* OpenPersistence: "makes every new allocation durable before it can be returned
\* to DNS clients".  Once a process serves, after whatever restarts, every answer
\* that a client may still use resolves back to its domain.
DurableAnswers == proc = "up" => AnswerStable

\* Two clients never hold answers that give one address to two domains.
AnswersAgree == \A x, y \in answers : x.address = y.address => x.domain = y.domain

\* The mappings that GetOrAllocate has returned at least once
Committed == {m \in Snapshot : ~(writer # Nil /\ writer.op = "alloc"
                                 /\ writer.address = m.address)}

\* What OpenPersistence would restore from a snapshot s and a journal j
Recovered(s, j) ==
    IF ~ValidSnap(s) THEN {}
    ELSE IF JournalRefused(s, j) THEN s.table
    ELSE Replay(s, Readable(j))

Names(t) == {<<m.domain, m.address>> : m \in t}

\* Unless a call has failed: whatever a power loss leaves of the two files, recovery
\* finds every returned mapping at its address, and resurrects no other domain than
\* those whose deletion is still pending or whose allocation is in progress.
CrashConsistent ==
    proc = "up" /\ ioErrors = 0 => \A s \in snapMay, j \in journalMay :
        LET r == Recovered(s, j)
        IN /\ Names(Committed) \subseteq Names(r)
           /\ \A m \in r : \/ <<m.domain, m.address>> \in Names(Snapshot)
                           \/ m.domain \in pendingDeletes

=============================================================================
