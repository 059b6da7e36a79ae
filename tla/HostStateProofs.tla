--------------------------- MODULE HostStateProofs ---------------------------
(***************************************************************************)
(* What the recovery record guarantees for any number of instances,        *)
(* recoveries, services and routes, with any command or write failing.     *)
(*                                                                         *)
(* ShapeInv says which stages an instance and a recovery go through and    *)
(* what each has in memory there; it holds of any interleaving, and with   *)
(* it every step is a step of the lock protocol or leaves the lock alone.  *)
(* HostInv adds what holds as long as no process has overtaken another:    *)
(* one process at a time is in charge, its memory covers what is changed,  *)
(* and the lock keeps the others from taking charge next to it.            *)
(*                                                                         *)
(* Before these two comes the lock file alone, for any number of instances *)
(* and crash recoveries.  Its inductive invariant is LockInv: besides the  *)
(* properties themselves it needs PidWriter, which ties the PID in a file  *)
(* to the process that wrote it.                                           *)
(***************************************************************************)
EXTENDS HostState, TLAPS

-----------------------------------------------------------------------------
\* The lock file (InstanceLock)

\* The PID in a file is that of a process that has ended, or that still holds it.
PidWriter == \A i \in Inodes : pid[i] # Nil =>
    \/ lpc[pid[i]] \in {"gone", "refused"}
    \/ fd[pid[i]] = i /\ lpc[pid[i]] \in {"held", "removing", "unlinked"}

LockInv == LockTypeOK /\ OwnerAgrees /\ RemovesOwnInode /\ PidWriter /\ ClaimsOnlyDead

\* An actor's step is one of the named system calls.
AnyStep(x) ==
    \/ x \in Procs /\ (Open(x) \/ Truncate(x) \/ WritePid(x) \/ AcquireFails(x))
    \/ x \in Cleaners /\ (ClaimOpen(x) \/ ClaimClose(x)
          \/ \E e \in Procs : Claim(x, e) \/ ClaimMismatch(x, e))
    \/ Flock(x) \/ FlockBusy(x) \/ CloseCheck(x)
    \/ (\E ok \in BOOLEAN : CloseRemove(x, ok)) \/ CloseUnlock(x) \/ Kill(x)

\* LockNext lets one actor make one system call.
LEMMA StepOfActor == LockNext => \E x \in Actors : AnyStep(x)
BY DEF LockNext, InstanceStep, CleanerStep, AnyStep, Actors

\* The steps that close a descriptor: the actor leaves, nothing else changes.
Leaving(x) == (\E step \in {"refused", "gone"} : Leave(x, step)) /\ UNCHANGED <<path, pid>>

\* Every early return, close and kill is a Leaving step.
LEMMA LeavingSteps ==
    ASSUME NEW x \in Actors,
           \/ FlockBusy(x) \/ AcquireFails(x) \/ ClaimClose(x) \/ CloseUnlock(x) \/ Kill(x)
           \/ \E e \in Procs : ClaimMismatch(x, e)
    PROVE  Leaving(x)
BY DEF FlockBusy, AcquireFails, ClaimClose, CloseUnlock, Kill, ClaimMismatch, Leaving

\* The types and the span of a descriptor survive every step.
LEMMA TypeStep == LockInv /\ [LockNext]_lockVars => LockTypeOK'
<1> SUFFICES ASSUME LockInv, [LockNext]_lockVars PROVE LockTypeOK'
  OBVIOUS
<1> USE LockAssumption DEF LockInv, LockTypeOK, Actors, Inodes, Steps, Owning
<1>1. CASE UNCHANGED lockVars
  BY <1>1 DEF lockVars
<1>2. CASE \E x \in Actors : AnyStep(x)
  <2> PICK x \in Actors : AnyStep(x)
    BY <1>2
  <2>1. CASE Leaving(x)
    BY <2>1 DEF Leaving, Leave, Released, GotoLock
  <2>2. CASE x \in Procs /\ Open(x)
    BY <2>2 DEF Open, GotoLock
  <2>3. CASE Flock(x)
    BY <2>3 DEF Flock, GotoLock
  <2>4. CASE x \in Procs /\ Truncate(x)
    BY <2>4 DEF Truncate, GotoLock
  <2>5. CASE x \in Procs /\ WritePid(x)
    BY <2>5 DEF WritePid, GotoLock
  <2>6. CASE ClaimOpen(x)
    BY <2>6 DEF ClaimOpen, GotoLock
  <2>7. CASE \E e \in Procs : Claim(x, e)
    BY <2>7 DEF Claim, GotoLock
  <2>8. CASE CloseCheck(x)
    BY <2>8 DEF CloseCheck, GotoLock
  <2>9. CASE \E ok \in BOOLEAN : CloseRemove(x, ok)
    BY <2>9 DEF CloseRemove, GotoLock
  <2> QED
    BY <2>1, <2>2, <2>3, <2>4, <2>5, <2>6, <2>7, <2>8, <2>9, LeavingSteps DEF AnyStep
<1> QED
  BY <1>1, <1>2, StepOfActor

\* The kernel's flock table agrees with where the processes are after every step.
LEMMA OwnerStep == LockInv /\ [LockNext]_lockVars => OwnerAgrees'
<1> SUFFICES ASSUME LockInv, [LockNext]_lockVars PROVE OwnerAgrees'
  OBVIOUS
<1> USE LockAssumption DEF LockInv, LockTypeOK, OwnerAgrees, Actors, Inodes, Owning
<1>1. CASE UNCHANGED lockVars
  BY <1>1 DEF lockVars
<1>2. CASE \E x \in Actors : AnyStep(x)
  <2> PICK x \in Actors : AnyStep(x)
    BY <1>2
  <2>1. CASE Leaving(x)
    BY <2>1 DEF Leaving, Leave, Released, GotoLock
  <2>2. CASE x \in Procs /\ Open(x)
    BY <2>2 DEF Open, GotoLock
  <2>3. CASE Flock(x)
    BY <2>3 DEF Flock, GotoLock
  <2>4. CASE x \in Procs /\ Truncate(x)
    BY <2>4 DEF Truncate, GotoLock
  <2>5. CASE x \in Procs /\ WritePid(x)
    BY <2>5 DEF WritePid, GotoLock
  <2>6. CASE ClaimOpen(x)
    BY <2>6 DEF ClaimOpen, GotoLock
  <2>7. CASE \E e \in Procs : Claim(x, e)
    BY <2>7 DEF Claim, GotoLock
  <2>8. CASE CloseCheck(x)
    BY <2>8 DEF CloseCheck, GotoLock
  <2>9. CASE \E ok \in BOOLEAN : CloseRemove(x, ok)
    BY <2>9 DEF CloseRemove, GotoLock
  <2> QED
    BY <2>1, <2>2, <2>3, <2>4, <2>5, <2>6, <2>7, <2>8, <2>9, LeavingSteps DEF AnyStep
<1> QED
  BY <1>1, <1>2, StepOfActor

\* Two actors that are both between flock and unlock have different inodes.
LEMMA OneOwner ==
    ASSUME LockInv, NEW x \in Actors, NEW y \in Actors,
           lpc[x] \in Owning, lpc[y] \in Owning, fd[x] = fd[y]
    PROVE  x = y
<1>1. fd[x] \in Inodes /\ fd[x] # Nil
  BY LockAssumption DEF LockInv, LockTypeOK, Actors, Inodes
<1>2. owner[fd[x]] = x /\ owner[fd[x]] = y
  BY <1>1 DEF LockInv, OwnerAgrees
<1> QED
  BY <1>2

\* Between the SameFile check and the removal nobody else changes the path.
LEMMA RemovesStep == LockInv /\ [LockNext]_lockVars => RemovesOwnInode'
<1> SUFFICES ASSUME LockInv, [LockNext]_lockVars, NEW y \in Actors, lpc'[y] = "removing"
             PROVE  path' = fd'[y]
  BY DEF RemovesOwnInode
<1> USE LockAssumption DEF LockInv, LockTypeOK, RemovesOwnInode, Actors, Inodes, Owning
<1>1. CASE UNCHANGED lockVars
  BY <1>1 DEF lockVars
<1>2. CASE \E x \in Actors : AnyStep(x)
  <2> PICK x \in Actors : AnyStep(x)
    BY <1>2
  <2>1. CASE Leaving(x)
    BY <2>1 DEF Leaving, Leave, GotoLock
  <2>2. CASE x \in Procs /\ Open(x)
    BY <2>2 DEF Open, GotoLock
  <2>3. CASE Flock(x)
    BY <2>3 DEF Flock, GotoLock
  <2>4. CASE x \in Procs /\ Truncate(x)
    BY <2>4 DEF Truncate, GotoLock
  <2>5. CASE x \in Procs /\ WritePid(x)
    BY <2>5 DEF WritePid, GotoLock
  <2>6. CASE ClaimOpen(x)
    BY <2>6 DEF ClaimOpen, GotoLock
  <2>7. CASE \E e \in Procs : Claim(x, e)
    BY <2>7 DEF Claim, GotoLock
  <2>8. CASE CloseCheck(x)
    BY <2>8 DEF CloseCheck, GotoLock
  <2>9. CASE \E ok \in BOOLEAN : CloseRemove(x, ok)
    <3>1. lpc[x] = "removing" /\ lpc'[x] = "unlinked" /\ fd' = fd
      BY <2>9 DEF CloseRemove, GotoLock
    <3>2. x # y /\ lpc[y] = "removing"
      BY <2>9, <3>1 DEF CloseRemove, GotoLock
    <3>3. fd[x] = path /\ fd[y] = path
      BY <3>1, <3>2
    <3> QED
      BY <3>1, <3>2, <3>3, OneOwner
  <2> QED
    BY <2>1, <2>2, <2>3, <2>4, <2>5, <2>6, <2>7, <2>8, <2>9, LeavingSteps DEF AnyStep
<1> QED
  BY <1>1, <1>2, StepOfActor

\* A written PID stays tied to its process.
LEMMA PidStep == LockInv /\ [LockNext]_lockVars => PidWriter'
<1> SUFFICES ASSUME LockInv, [LockNext]_lockVars, NEW i \in Inodes, pid'[i] # Nil
             PROVE  \/ lpc'[pid'[i]] \in {"gone", "refused"}
                    \/ fd'[pid'[i]] = i /\ lpc'[pid'[i]] \in {"held", "removing", "unlinked"}
  BY DEF PidWriter
<1> USE LockAssumption DEF LockInv, LockTypeOK, PidWriter, Actors, Inodes, Owning
<1>1. CASE UNCHANGED lockVars
  BY <1>1 DEF lockVars
<1>2. CASE \E x \in Actors : AnyStep(x)
  <2> PICK x \in Actors : AnyStep(x)
    BY <1>2
  <2>1. CASE Leaving(x)
    BY <2>1 DEF Leaving, Leave, GotoLock
  <2>2. CASE x \in Procs /\ Open(x)
    BY <2>2 DEF Open, GotoLock
  <2>3. CASE Flock(x)
    BY <2>3 DEF Flock, GotoLock
  <2>4. CASE x \in Procs /\ Truncate(x)
    BY <2>4 DEF Truncate, GotoLock
  <2>5. CASE x \in Procs /\ WritePid(x)
    <3>1. CASE i = fd[x]
      BY <2>5, <3>1 DEF WritePid, GotoLock
    <3>2. CASE i # fd[x]
      BY <2>5, <3>2 DEF WritePid, GotoLock
    <3> QED
      BY <3>1, <3>2
  <2>6. CASE x \in Cleaners /\ ClaimOpen(x)
    BY <2>6 DEF ClaimOpen, GotoLock
  <2>7. CASE \E e \in Procs : Claim(x, e)
    BY <2>7 DEF Claim, GotoLock
  <2>8. CASE CloseCheck(x)
    BY <2>8 DEF CloseCheck, GotoLock
  <2>9. CASE \E ok \in BOOLEAN : CloseRemove(x, ok)
    BY <2>9 DEF CloseRemove, GotoLock
  <2> QED
    BY <2>1, <2>2, <2>3, <2>4, <2>5, <2>6, <2>7, <2>8, <2>9, LeavingSteps DEF AnyStep
<1> QED
  BY <1>1, <1>2, StepOfActor

\* A claimed file cannot also belong to the process whose PID it holds.
LEMMA ClaimsStep == LockInv /\ [LockNext]_lockVars => ClaimsOnlyDead'
<1> SUFFICES ASSUME LockInv, [LockNext]_lockVars, NEW c \in Cleaners,
                    lpc'[c] \in {"held", "removing"}
             PROVE  pid'[fd'[c]] # Nil /\ lpc'[pid'[fd'[c]]] \in {"gone", "refused"}
  BY DEF ClaimsOnlyDead
<1> USE LockAssumption DEF LockInv, LockTypeOK, ClaimsOnlyDead, Actors, Inodes, Owning
<1>1. CASE UNCHANGED lockVars
  BY <1>1 DEF lockVars
<1>2. CASE \E x \in Actors : AnyStep(x)
  <2> PICK x \in Actors : AnyStep(x)
    BY <1>2
  <2>1. CASE Leaving(x)
    BY <2>1 DEF Leaving, Leave, GotoLock
  <2>2. CASE x \in Procs /\ Open(x)
    BY <2>2 DEF Open, GotoLock
  <2>3. CASE Flock(x)
    BY <2>3 DEF Flock, GotoLock
  <2>4. CASE x \in Procs /\ (Truncate(x) \/ WritePid(x))
    <3>1. x # c /\ lpc[c] \in Owning /\ lpc[x] \in Owning /\ fd' = fd /\ lpc[c] = lpc'[c]
      BY <2>4 DEF Truncate, WritePid, GotoLock
    <3>2. fd[x] # fd[c]
      BY <3>1, OneOwner
    <3> QED
      BY <2>4, <3>1, <3>2 DEF Truncate, WritePid, GotoLock
  <2>6. CASE x \in Cleaners /\ ClaimOpen(x)
    BY <2>6 DEF ClaimOpen, GotoLock
  <2>7. CASE \E e \in Procs : Claim(x, e)
    <3>1. CASE x = c
      <4>1. lpc[c] = "locked" /\ fd[c] \in Inodes /\ fd' = fd /\ pid' = pid /\ pid[fd[c]] \in Procs
        BY <2>7, <3>1 DEF Claim, GotoLock
      <4>2. ~(lpc[pid[fd[c]]] \in Owning /\ fd[pid[fd[c]]] = fd[c])
        BY <4>1, OneOwner
      <4> QED
        BY <2>7, <3>1, <4>1, <4>2 DEF Claim, GotoLock, PidWriter
    <3>2. CASE x # c
      BY <2>7, <3>2 DEF Claim, GotoLock
    <3> QED
      BY <3>1, <3>2
  <2>8. CASE CloseCheck(x)
    BY <2>8 DEF CloseCheck, GotoLock
  <2>9. CASE \E ok \in BOOLEAN : CloseRemove(x, ok)
    BY <2>9 DEF CloseRemove, GotoLock
  <2> QED
    BY <2>1, <2>2, <2>3, <2>4, <2>6, <2>7, <2>8, <2>9, LeavingSteps DEF AnyStep
<1> QED
  BY <1>1, <1>2, StepOfActor

\* LockInv holds of a missing lock file and processes that have not started.
LEMMA LockInvInit == LockInit => LockInv
BY LockAssumption DEF LockInit, LockInv, LockTypeOK, OwnerAgrees, RemovesOwnInode, PidWriter,
   ClaimsOnlyDead, Actors, Inodes, Steps, Owning

\* LockInv survives every step of the lock protocol.
LEMMA LockInvStep == LockInv /\ [LockNext]_lockVars => LockInv'
BY TypeStep, OwnerStep, RemovesStep, PidStep, ClaimsStep DEF LockInv

\* LockInv is an invariant of the lock protocol.
LEMMA LockInvHolds == LockSpec => []LockInv
BY LockInvInit, LockInvStep, PTL DEF LockSpec

\* Every early return of Acquire and TryClaimStale closes its descriptor.
THEOREM LockTypeCorrect == LockSpec => []LockTypeOK
BY LockInvHolds, PTL DEF LockInv

\* The flock of an inode belongs to exactly the process between its flock and unlock.
THEOREM LockOwnerAgrees == LockSpec => []OwnerAgrees
BY LockInvHolds, PTL DEF LockInv

\* Lock.Close and StaleLock.Remove unlink no other inode than the one they checked,
\* for any number of instances and recoveries.
THEOREM LockRemovesOwnInode == LockSpec => []RemovesOwnInode
BY LockInvHolds, PTL DEF LockInv

\* TryClaimStale never hands out the file of an instance that is still running.
THEOREM LockClaimsOnlyDead == LockSpec => []ClaimsOnlyDead
BY LockInvHolds, PTL DEF LockInv

\* No step of another process unlinks the file of an instance that holds the lock.
THEOREM LockLiveLockStays == LockSpec => LiveLockStays
<1> USE LockAssumption DEF LockTypeOK, RemovesOwnInode, Actors, Inodes, Owning
<1>1. ASSUME LockInv, [LockNext]_lockVars, NEW p \in Procs,
             lpc[p] = "held", path = fd[p], lpc'[p] = "held"
      PROVE  path' = path
  <2>1. CASE UNCHANGED lockVars
    BY <2>1 DEF lockVars
  <2>2. CASE \E x \in Actors : AnyStep(x)
    <3> PICK x \in Actors : AnyStep(x)
      BY <2>2
    <3>1. CASE \E ok \in BOOLEAN : CloseRemove(x, ok)
      <4>1. lpc[x] = "removing" /\ lpc'[x] = "unlinked" /\ fd[x] = path
        BY <1>1, <3>1 DEF CloseRemove, GotoLock, LockInv
      <4>2. x = p
        BY <1>1, <4>1, OneOwner
      <4> QED
        BY <1>1, <4>1, <4>2
    <3>2. CASE x \in Procs /\ Open(x)
      BY <1>1, <3>2 DEF Open, LockInv
    <3>3. CASE Leaving(x)
      BY <3>3 DEF Leaving
    <3> QED
      BY <3>1, <3>2, <3>3, LeavingSteps DEF AnyStep, Flock, Truncate, WritePid, ClaimOpen, Claim,
         CloseCheck
  <2> QED
    BY <1>1, <2>1, <2>2, StepOfActor
<1>2. LockInv /\ [LockNext]_lockVars =>
        [\A p \in Procs : lpc[p] = "held" /\ path = fd[p] /\ lpc'[p] = "held"
                            => path' = path]_lockVars
  BY <1>1
<1> QED
  BY LockInvHolds, <1>2, PTL DEF LockSpec, LiveLockStays

-----------------------------------------------------------------------------
\* The record and the host (HostState)

CtlType ==
    [at : Stages, then : Stages, k : 0 .. NRoutes + 1, todo : SUBSET Services,
     svc : Services \cup {Nil}, errors : BOOLEAN, undoing : BOOLEAN, exists : BOOLEAN]

\* The stage that a process is at, or goes to when its record is written.
Toward(x) == IF ctl[x].at = "save" THEN ctl[x].then ELSE ctl[x].at

HostTypes ==
    /\ dns \in [Services -> Values \cup {"applied"}]
    /\ base \in [Services -> Values]
    /\ routes \in [Routes -> Procs \cup {"phys", Nil}]
    /\ tun \subseteq Procs
    /\ state \in State \cup {Nil}
    /\ mem \in [Actors -> State \cup {Nil}]
    /\ ctl \in [Actors -> CtlType]
    /\ faults \in 0 .. MaxFaults

CleanerStages == {"check", "claim", "save", "restore", "set", "restored", "routes", "unlock",
                  "remove", "abort", "done"}

CleanerShape(c) ==
    /\ ctl[c].at \in CleanerStages /\ ctl[c].undoing /\ ctl[c].exists
    /\ ctl[c].at = "save" => ctl[c].then \in {"restore", "restored", "routes"}
    /\ ctl[c].at \notin {"check", "done"} => mem[c] \in State

InstanceShape(p) ==
    /\ ctl[p].at \notin {"claim", "abort"}
    /\ ctl[p].at = "save" => ctl[p].then \in {"route", "add", "apply", "restored", "routes"}
    /\ ctl[p].at \notin {"check", "lock", "done"} => mem[p] \in State /\ mem[p].pid = p
    /\ Toward(p) = "add" => ctl[p].k \in Routes

\* A process is at a stage of its program, with the memory that it needs there; RestoreDNS
\* works on recorded values only.
ShapeOf(x) ==
    /\ x \in Cleaners => CleanerShape(x)
    /\ x \in Procs => InstanceShape(x)
    /\ Toward(x) \in {"restore", "set"} => \A s \in ctl[x].todo : mem[x].dns[s] # Nil
    /\ ctl[x].at = "save" => ctl[x].then # "set"
    /\ ctl[x].at = "set" => ctl[x].svc \in ctl[x].todo

ShapeInv == LockInv /\ HostTypes /\ \A x \in Actors : ShapeOf(x)

----------------------------------------------------------------------------
(* Every step is a step of the lock protocol *)

\* An instance that is past its lock has its own record in memory, a recovery the one it read.
LEMMA RecordInMemory ==
    ASSUME ShapeInv, NEW x \in Actors, ctl[x].at \notin {"check", "lock", "done"}
    PROVE  mem[x] \in State /\ mem[x].pid \in Procs
<1>1. mem[x] \in State
  BY DEF ShapeInv, ShapeOf, CleanerShape, InstanceShape, Actors
<1> QED
  BY <1>1 DEF State

LEMMA UndoLock ==
    ASSUME NEW x \in Actors, Undo(x)
    PROVE  AnyStep(x) \/ UNCHANGED lockVars
<1>1. CASE UnlockStep(x)
  BY <1>1 DEF UnlockStep, AnyStep
<1>2. CASE ~UnlockStep(x)
  BY <1>2 DEF Undo, Save, SetRestored, RemoveRoute, Remove, Restore, RestoreDone, Restored, RoutesDone
<1> QED
  BY <1>1, <1>2

LEMMA InstanceLockStep ==
    ASSUME NEW p \in Procs, Instance(p) \/ Rewrite(p) \/ Stop(p) \/ KillInstance(p)
    PROVE  AnyStep(p) \/ UNCHANGED lockVars
<1>0. p \in Actors
  BY DEF Actors
<1>1. CASE AcquireStep(p)
  BY <1>1 DEF AcquireStep, AnyStep
<1>2. CASE Undo(p)
  BY <1>0, <1>2, UndoLock
<1>3. CASE KillInstance(p)
  BY <1>3 DEF KillInstance, AnyStep
<1>4. CASE \E ok \in BOOLEAN : \/ FirstSave(p, ok) \/ CreateTun(p, ok) \/ AddRoute(p, ok)
                               \/ PlanDNS(p, ok) \/ Finish(p, ok) \/ CloseDevice(p, ok)
  BY <1>4 DEF FirstSave, CreateTun, AddRoute, PlanDNS, Finish, CloseDevice
<1>5. CASE CheckState(p) \/ RecordRoute(p) \/ Rewrite(p) \/ Stop(p)
  BY <1>5 DEF CheckState, RecordRoute, Rewrite, Stop
<1>6. CASE \E s \in Services, ok \in BOOLEAN : Apply(p, s, ok)
  BY <1>6 DEF Apply
<1> QED
  BY <1>1, <1>2, <1>3, <1>4, <1>5, <1>6 DEF Instance

LEMMA CleanerLockStep ==
    ASSUME ShapeInv, NEW c \in Cleaners, Cleanup(c) \/ KillCleaner(c)
    PROVE  AnyStep(c) \/ UNCHANGED lockVars
<1>0. c \in Actors
  BY DEF Actors
<1>1. CASE ClaimStep(c) \/ RemoveStale(c)
  <2>1. mem[c].pid \in Procs
    BY <1>0, <1>1, RecordInMemory DEF ClaimStep, RemoveStale, At
  <2> QED
    BY <1>1, <2>1 DEF ClaimStep, RemoveStale, AnyStep
<1>2. CASE Undo(c)
  BY <1>0, <1>2, UndoLock
<1>3. CASE Abort(c) \/ KillCleaner(c)
  BY <1>3 DEF Abort, KillCleaner, AnyStep
<1>4. CASE ReadState(c) \/ ProbeProcess(c)
  BY <1>4 DEF ReadState, ProbeProcess
<1> QED
  BY <1>1, <1>2, <1>3, <1>4 DEF Cleanup

\* What an actor does to the lock file is a step of LockNext.
LEMMA AnyStepIsLockNext ==
    ASSUME NEW x \in Actors, AnyStep(x)
    PROVE  LockNext
<1>1. CASE x \in Procs
  BY <1>1, LockAssumption DEF AnyStep, LockNext, InstanceStep
<1>2. CASE x \in Cleaners
  BY <1>2, LockAssumption DEF AnyStep, LockNext, CleanerStep
<1> QED
  BY <1>1, <1>2 DEF Actors

LEMMA HostLockStep == ShapeInv /\ [HostNext]_vars => [LockNext]_lockVars
<1> SUFFICES ASSUME ShapeInv, [HostNext]_vars
             PROVE  LockNext \/ UNCHANGED lockVars
  OBVIOUS
<1>1. CASE \E p \in Procs : Instance(p) \/ Rewrite(p) \/ Stop(p) \/ KillInstance(p)
  BY <1>1, InstanceLockStep, AnyStepIsLockNext DEF Actors
<1>2. CASE \E c \in Cleaners : Cleanup(c) \/ KillCleaner(c)
  BY <1>2, CleanerLockStep, AnyStepIsLockNext DEF Actors
<1>3. CASE \E s \in Services, v \in Values : UserSetsDNS(s, v)
  BY <1>3 DEF UserSetsDNS
<1>4. CASE UNCHANGED vars
  BY <1>4 DEF vars
<1> QED
  BY <1>1, <1>2, <1>3, <1>4 DEF HostNext

----------------------------------------------------------------------------
(* Types and stages *)

\* A step is of one process.
Local(x) == \A y \in Actors \ {x} : ctl'[y] = ctl[y] /\ mem'[y] = mem[y]

LEMMA StageNames ==
    /\ {"check", "lock", "first", "tun", "route", "add", "dns", "apply", "running"} \subseteq Stages
    /\ {"finish", "claim", "restore", "set", "restored", "routes", "device"} \subseteq Stages
    /\ {"unlock", "remove", "save", "abort", "done"} \subseteq Stages
BY DEF Stages

\* What Go and SaveThen leave alone.
LEMMA GoFacts ==
    ASSUME ctl \in [Actors -> CtlType], NEW x \in Actors, NEW stage \in Stages, Go(x, stage)
    PROVE  /\ ctl' \in [Actors -> CtlType]
           /\ ctl'[x].at = stage /\ ctl'[x].then = ctl[x].then /\ ctl'[x].k = ctl[x].k
           /\ ctl'[x].todo = ctl[x].todo /\ ctl'[x].errors = ctl[x].errors
           /\ ctl'[x].undoing = ctl[x].undoing /\ ctl'[x].exists = ctl[x].exists
           /\ \A y \in Actors \ {x} : ctl'[y] = ctl[y]
BY DEF Go, CtlType

LEMMA SaveThenFacts ==
    ASSUME ctl \in [Actors -> CtlType], NEW x \in Actors, NEW stage \in Stages, SaveThen(x, stage)
    PROVE  /\ ctl' \in [Actors -> CtlType]
           /\ ctl'[x].at = "save" /\ ctl'[x].then = stage /\ ctl'[x].k = ctl[x].k
           /\ ctl'[x].todo = ctl[x].todo /\ ctl'[x].errors = ctl[x].errors
           /\ ctl'[x].undoing = ctl[x].undoing /\ ctl'[x].exists = ctl[x].exists
           /\ \A y \in Actors \ {x} : ctl'[y] = ctl[y]
<1>1. "save" \in Stages
  BY StageNames
<1> QED
  BY <1>1 DEF SaveThen, CtlType

LEMMA ChargeFacts ==
    ASSUME faults \in 0 .. MaxFaults, NEW ok, Charge(ok)
    PROVE  faults' \in 0 .. MaxFaults
BY HostAssumption DEF Charge

LEMMA MemFacts ==
    ASSUME HostTypes, NEW x \in Actors, NEW r \in State, mem' = [mem EXCEPT ![x] = r]
    PROVE  /\ mem' \in [Actors -> State \cup {Nil}] /\ mem'[x] = r
           /\ \A y \in Actors \ {x} : mem'[y] = mem[y]
BY DEF HostTypes

LEMMA OthersShape ==
    ASSUME ShapeInv, NEW x \in Actors, Local(x), ShapeOf(x)'
    PROVE  \A y \in Actors : ShapeOf(y)'
<1> SUFFICES ASSUME NEW y \in Actors, y # x
             PROVE  ShapeOf(y)'
  OBVIOUS
<1>1. ctl'[y] = ctl[y] /\ mem'[y] = mem[y] /\ ShapeOf(y)
  BY DEF Local, ShapeInv
<1> QED
  BY <1>1 DEF ShapeOf, CleanerShape, InstanceShape, Toward

LEMMA TypesNow ==
    ASSUME ShapeInv, NEW x \in Actors
    PROVE  /\ HostTypes /\ ctl \in [Actors -> CtlType] /\ ctl[x] \in CtlType /\ ShapeOf(x)
           /\ faults \in 0 .. MaxFaults
BY DEF ShapeInv, HostTypes

\* Start, up to the lock
LEMMA ShapeCheckState ==
    ASSUME ShapeInv, NEW p \in Procs, CheckState(p)
    PROVE  HostTypes' /\ Local(p) /\ ShapeOf(p)'
<1>0. p \in Actors /\ p \notin Cleaners
  BY LockAssumption DEF Actors
<1>1. PICK stage \in {"lock", "done"} : Go(p, stage)
  BY DEF CheckState
<1>2. UNCHANGED <<dns, base, routes, tun, state, mem, faults>>
  BY DEF CheckState
<1>3. stage \in Stages
  BY DEF Stages
<1>4. ctl' \in [Actors -> CtlType] /\ ctl'[p].at = stage /\ \A y \in Actors \ {p} : ctl'[y] = ctl[y]
  BY <1>0, <1>1, <1>3, TypesNow, GoFacts
<1> QED
  BY <1>0, <1>2, <1>4, TypesNow DEF HostTypes, Local, ShapeOf, InstanceShape, Toward

LEMMA ShapeAcquire ==
    ASSUME ShapeInv, NEW p \in Procs, AcquireStep(p)
    PROVE  HostTypes' /\ Local(p) /\ ShapeOf(p)'
<1>0. p \in Actors /\ p \notin Cleaners
  BY LockAssumption DEF Actors
<1>1. PICK stage \in {"first", "done", "lock"} :
        Go(p, stage) /\ (stage = "first" => mem' = [mem EXCEPT ![p] = NewState(p)])
                     /\ (stage # "first" => mem' = mem)
  <2>1. mem' = [mem EXCEPT ![p] = IF lpc'[p] = "held" THEN NewState(p) ELSE @] /\ mem \in [Actors -> State \cup {Nil}]
    BY <1>0, TypesNow DEF AcquireStep, HostTypes
  <2> QED
    BY <1>0, <2>1 DEF AcquireStep
<1>2. UNCHANGED <<dns, base, routes, tun, state>> /\ faults' \in 0 .. MaxFaults
  BY <1>0, TypesNow, ChargeFacts DEF AcquireStep
<1>3. stage \in Stages /\ NewState(p) \in State /\ NewState(p).pid = p
  BY DEF Stages, State, NewState
<1>4. ctl' \in [Actors -> CtlType] /\ ctl'[p].at = stage /\ \A y \in Actors \ {p} : ctl'[y] = ctl[y]
  BY <1>0, <1>1, <1>3, TypesNow, GoFacts
<1>5. /\ mem' \in [Actors -> State \cup {Nil}] /\ (stage = "first" => mem'[p] = NewState(p))
      /\ \A y \in Actors \ {p} : mem'[y] = mem[y]
  BY <1>0, <1>1, <1>3, TypesNow, MemFacts DEF HostTypes
<1> QED
  BY <1>0, <1>2, <1>3, <1>4, <1>5, TypesNow DEF HostTypes, Local, ShapeOf, InstanceShape, Toward

\* Writing the record
LEMMA WriteStateFacts ==
    ASSUME HostTypes, NEW x \in Actors, mem[x] \in State, NEW ok \in BOOLEAN, WriteState(x, ok)
    PROVE  /\ state' \in State \cup {Nil} /\ state' \in {state, mem[x]} /\ (ok => state' = mem[x])
           /\ faults' \in 0 .. MaxFaults
BY ChargeFacts DEF WriteState, HostTypes

LEMMA ShapeFirstSave ==
    ASSUME ShapeInv, NEW p \in Procs, NEW ok \in BOOLEAN, FirstSave(p, ok)
    PROVE  HostTypes' /\ Local(p) /\ ShapeOf(p)'
<1>0. p \in Actors /\ p \notin Cleaners /\ ctl[p].at = "first"
  BY LockAssumption DEF Actors, FirstSave, At
<1>1. mem[p] \in State /\ mem[p].pid = p
  BY <1>0, TypesNow DEF ShapeOf, InstanceShape
<1>2. UNCHANGED <<dns, base, routes, tun, mem>> /\ WriteState(p, ok)
  BY DEF FirstSave
<1>3. state' \in State \cup {Nil} /\ faults' \in 0 .. MaxFaults
  BY <1>0, <1>1, <1>2, TypesNow, WriteStateFacts
<1>4. /\ ctl' \in [Actors -> CtlType] /\ ctl'[p].at \in {"tun", "unlock"}
      /\ \A y \in Actors \ {p} : ctl'[y] = ctl[y]
  BY <1>0, TypesNow DEF FirstSave, CtlType, Stages
<1> QED
  BY <1>0, <1>1, <1>2, <1>3, <1>4, TypesNow DEF HostTypes, Local, ShapeOf, InstanceShape, Toward

LEMMA SaveFields ==
    ASSUME ShapeInv, NEW x \in Actors, NEW ok \in BOOLEAN, Save(x, ok)
    PROVE  /\ ctl[x].at = "save" /\ mem[x] \in State
           /\ UNCHANGED <<dns, base, routes, tun, mem>>
           /\ state' \in State \cup {Nil} /\ state' \in {state, mem[x]} /\ (ok => state' = mem[x])
           /\ faults' \in 0 .. MaxFaults
           /\ ctl' \in [Actors -> CtlType]
           /\ ctl'[x].at = AfterSave(x, ok) /\ AfterSave(x, ok) \in {ctl[x].then, "finish", "abort"}
           /\ ctl'[x].then = ctl[x].then /\ ctl'[x].k = ctl[x].k /\ ctl'[x].todo = ctl[x].todo
           /\ ctl[x].errors => ctl'[x].errors
           /\ ctl'[x].undoing = ctl[x].undoing /\ ctl'[x].exists = ctl[x].exists
           /\ \A y \in Actors \ {x} : ctl'[y] = ctl[y]
<1>0. ctl[x].at = "save" /\ UNCHANGED <<dns, base, routes, tun, mem>> /\ WriteState(x, ok)
  BY DEF Save, At
<1>1. mem[x] \in State
  BY <1>0, RecordInMemory
<1>2. /\ state' \in State \cup {Nil} /\ state' \in {state, mem[x]} /\ (ok => state' = mem[x])
      /\ faults' \in 0 .. MaxFaults
  BY <1>0, <1>1, TypesNow, WriteStateFacts
<1>3. AfterSave(x, ok) \in {ctl[x].then, "finish", "abort"}
  BY DEF AfterSave
<1>4. AfterSave(x, ok) \in Stages
  BY <1>3, TypesNow DEF CtlType, Stages
<1>5. /\ ctl' \in [Actors -> CtlType]
      /\ ctl'[x].at = AfterSave(x, ok)
      /\ ctl'[x].then = ctl[x].then /\ ctl'[x].k = ctl[x].k /\ ctl'[x].todo = ctl[x].todo
      /\ ctl[x].errors => ctl'[x].errors
      /\ ctl'[x].undoing = ctl[x].undoing /\ ctl'[x].exists = ctl[x].exists
      /\ \A y \in Actors \ {x} : ctl'[y] = ctl[y]
  <2> PICK a : a = AfterSave(x, ok)
    OBVIOUS
  <2>1. ctl' = [ctl EXCEPT ![x].at = a, ![x].errors = @ \/ (~ok /\ ctl[x].undoing)] /\ a \in Stages
    BY <1>4 DEF Save
  <2>2. /\ ctl' \in [Actors -> CtlType]
        /\ ctl'[x].at = a
        /\ ctl'[x].then = ctl[x].then /\ ctl'[x].k = ctl[x].k /\ ctl'[x].todo = ctl[x].todo
        /\ ctl[x].errors => ctl'[x].errors
        /\ ctl'[x].undoing = ctl[x].undoing /\ ctl'[x].exists = ctl[x].exists
        /\ \A y \in Actors \ {x} : ctl'[y] = ctl[y]
    BY <2>1, TypesNow DEF CtlType
  <2> QED
    BY <2>2
<1> QED
  BY <1>0, <1>1, <1>2, <1>3, <1>5

LEMMA ShapeSave ==
    ASSUME ShapeInv, NEW x \in Actors, NEW ok \in BOOLEAN, Save(x, ok)
    PROVE  HostTypes' /\ Local(x) /\ ShapeOf(x)'
<1>1. HostTypes' /\ Local(x)
  BY SaveFields, TypesNow DEF HostTypes, Local
<1>2. CASE x \in Cleaners
  <2>1. x \notin Procs
    BY <1>2, LockAssumption
  <2>2. ctl[x].then \in {"restore", "restored", "routes"} /\ ctl[x].undoing /\ ctl[x].exists
    BY <1>2, SaveFields, TypesNow DEF ShapeOf, CleanerShape
  <2>3. ctl'[x].at \in {"restore", "restored", "routes", "abort"}
    BY <2>1, <2>2, SaveFields DEF AfterSave
  <2>4. ctl'[x].at = "restore" => ctl[x].then = "restore"
    BY <2>2, <2>3, SaveFields
  <2> QED
    BY <1>1, <1>2, <2>1, <2>2, <2>3, <2>4, SaveFields, TypesNow DEF ShapeOf, CleanerShape, Toward, CleanerStages
<1>3. CASE x \in Procs
  <2>1. x \notin Cleaners
    BY <1>3, LockAssumption
  <2>2. /\ ctl[x].then \in {"route", "add", "apply", "restored", "routes"}
        /\ ctl[x].then = "add" => ctl[x].k \in Routes
        /\ mem[x].pid = x
    BY <1>3, SaveFields, TypesNow DEF ShapeOf, InstanceShape, Toward
  <2>3. ctl'[x].at \in {ctl[x].then, "finish"}
    BY <1>3, SaveFields DEF AfterSave
  <2> QED
    BY <1>1, <1>3, <2>1, <2>2, <2>3, SaveFields DEF ShapeOf, InstanceShape, Toward
<1> QED
  BY <1>1, <1>2, <1>3 DEF Actors

\* Start, past the lock
LEMMA CreateTunFields ==
    ASSUME ShapeInv, NEW p \in Procs, NEW ok \in BOOLEAN, CreateTun(p, ok)
    PROVE  /\ p \in Actors /\ p \notin Cleaners /\ ctl[p].at = "tun" /\ mem[p] \in State /\ mem[p].pid = p
           /\ HostTypes' /\ Local(p) /\ UNCHANGED <<dns, base, routes, state>>
           /\ ctl'[p].k = ctl[p].k /\ ctl'[p].undoing = ctl[p].undoing
           /\ mem'[p] \in State /\ mem'[p].pid = p /\ mem'[p].dns = mem[p].dns /\ mem'[p].routes = mem[p].routes
           /\ \/ tun' = tun \cup {p} /\ ctl'[p].at = "save" /\ ctl'[p].then = "route"
              \/ UNCHANGED <<tun, mem>> /\ ctl'[p].at = "finish"
<1>0. p \in Actors /\ p \notin Cleaners /\ ctl[p].at = "tun" /\ UNCHANGED <<dns, base, routes, state>>
  BY LockAssumption DEF Actors, CreateTun, At
<1>1. mem[p] \in State /\ mem[p].pid = p
  BY <1>0, TypesNow DEF ShapeOf, InstanceShape
<1>2. faults' \in 0 .. MaxFaults
  BY <1>0, TypesNow, ChargeFacts DEF CreateTun
<1>3. CASE ok
  <2>1. tun' = tun \cup {p} /\ mem' = [mem EXCEPT ![p].tun = TRUE] /\ SaveThen(p, "route")
    BY <1>3 DEF CreateTun
  <2>2. /\ mem' \in [Actors -> State \cup {Nil}] /\ \A y \in Actors \ {p} : mem'[y] = mem[y]
        /\ mem'[p] \in State /\ mem'[p].pid = p /\ mem'[p].dns = mem[p].dns /\ mem'[p].routes = mem[p].routes
    BY <1>0, <1>1, <2>1, TypesNow DEF HostTypes, State
  <2> QED
    BY <1>0, <1>1, <1>2, <2>1, <2>2, TypesNow, SaveThenFacts, StageNames DEF HostTypes, Local
<1>4. CASE ~ok
  <2>1. UNCHANGED <<tun, mem>> /\ Go(p, "finish")
    BY <1>4 DEF CreateTun
  <2> QED
    BY <1>0, <1>1, <1>2, <2>1, TypesNow, GoFacts, StageNames DEF HostTypes, Local
<1> QED
  BY <1>3, <1>4

LEMMA ShapeCreateTun ==
    ASSUME ShapeInv, NEW p \in Procs, NEW ok \in BOOLEAN, CreateTun(p, ok)
    PROVE  HostTypes' /\ Local(p) /\ ShapeOf(p)'
BY CreateTunFields DEF ShapeOf, InstanceShape, Toward

LEMMA RecordRouteFields ==
    ASSUME ShapeInv, NEW p \in Procs, RecordRoute(p)
    PROVE  /\ p \in Actors /\ p \notin Cleaners /\ ctl[p].at = "route" /\ mem[p] \in State /\ mem[p].pid = p
           /\ HostTypes' /\ Local(p) /\ UNCHANGED <<dns, base, routes, tun, state>>
           /\ ctl'[p].k = ctl[p].k /\ ctl'[p].undoing = ctl[p].undoing
           /\ mem'[p] \in State /\ mem'[p].pid = p /\ mem'[p].dns = mem[p].dns
           /\ \/ /\ ctl[p].k \in Routes /\ mem'[p].routes = mem[p].routes \cup {ctl[p].k}
                 /\ ctl'[p].at = "save" /\ ctl'[p].then = "add"
              \/ ctl[p].k \notin Routes /\ mem' = mem /\ ctl'[p].at = "dns"
<1>0. /\ p \in Actors /\ p \notin Cleaners /\ ctl[p].at = "route"
      /\ UNCHANGED <<dns, base, routes, tun, state, faults>>
  BY LockAssumption DEF Actors, RecordRoute, At
<1>1. mem[p] \in State /\ mem[p].pid = p
  BY <1>0, TypesNow DEF ShapeOf, InstanceShape
<1>3. CASE ctl[p].k \in Routes
  <2>1. mem' = [mem EXCEPT ![p].routes = @ \cup {ctl[p].k}] /\ SaveThen(p, "add")
    BY <1>3 DEF RecordRoute
  <2>2. /\ mem' \in [Actors -> State \cup {Nil}] /\ \A y \in Actors \ {p} : mem'[y] = mem[y]
        /\ mem'[p] \in State /\ mem'[p].pid = p /\ mem'[p].dns = mem[p].dns
        /\ mem'[p].routes = mem[p].routes \cup {ctl[p].k}
    <3> PICK k \in Routes : k = ctl[p].k
      BY <1>3
    <3>1. mem' = [mem EXCEPT ![p].routes = @ \cup {k}]
      BY <2>1
    <3> QED
      BY <1>0, <1>1, <3>1, TypesNow DEF HostTypes, State
  <2> QED
    BY <1>0, <1>1, <1>3, <2>1, <2>2, TypesNow, SaveThenFacts, StageNames DEF HostTypes, Local
<1>4. CASE ctl[p].k \notin Routes
  <2>1. mem' = mem /\ Go(p, "dns")
    BY <1>4 DEF RecordRoute
  <2> QED
    BY <1>0, <1>1, <1>4, <2>1, TypesNow, GoFacts, StageNames DEF HostTypes, Local
<1> QED
  BY <1>3, <1>4

LEMMA ShapeRecordRoute ==
    ASSUME ShapeInv, NEW p \in Procs, RecordRoute(p)
    PROVE  HostTypes' /\ Local(p) /\ ShapeOf(p)'
BY RecordRouteFields DEF ShapeOf, InstanceShape, Toward

LEMMA AddRouteFields ==
    ASSUME ShapeInv, NEW p \in Procs, NEW ok \in BOOLEAN, AddRoute(p, ok)
    PROVE  /\ p \in Actors /\ p \notin Cleaners /\ ctl[p].at = "add" /\ mem[p] \in State /\ mem[p].pid = p
           /\ HostTypes' /\ Local(p) /\ UNCHANGED <<dns, base, tun, state, mem>>
           /\ ctl[p].k \in Routes /\ ctl'[p].undoing = ctl[p].undoing
           /\ \A j \in Routes : j # ctl[p].k => routes'[j] = routes[j]
           /\ routes'[ctl[p].k] \in {routes[ctl[p].k], Interface(ctl[p].k, p)}
           /\ \/ ctl'[p].at = "route" /\ ctl'[p].k = ctl[p].k + 1 /\ routes'[ctl[p].k] = Interface(ctl[p].k, p)
              \/ ctl'[p].at = "finish"
<1>0. /\ p \in Actors /\ p \notin Cleaners /\ ctl[p].at = "add"
      /\ UNCHANGED <<dns, base, tun, state, mem>>
  BY LockAssumption DEF Actors, AddRoute, At
<1>1. mem[p] \in State /\ mem[p].pid = p /\ ctl[p].k \in Routes
  BY <1>0, TypesNow DEF ShapeOf, InstanceShape, Toward
<1>2. faults' \in 0 .. MaxFaults
  BY <1>0, TypesNow, ChargeFacts DEF AddRoute
<1> PICK k \in Routes : k = ctl[p].k
  BY <1>1
<1> DEFINE added == [routes EXCEPT ![k] = Interface(k, p)]
<1>3. Interface(k, p) \in Procs \cup {"phys", Nil}
  BY DEF Interface
<1>4. /\ added \in [Routes -> Procs \cup {"phys", Nil}] /\ added[k] = Interface(k, p)
      /\ \A j \in Routes : j # k => added[j] = routes[j]
  BY <1>0, <1>3, TypesNow DEF HostTypes
<1>5. CASE routes' = added /\ ctl' = [ctl EXCEPT ![p].at = "route", ![p].k = k + 1]
  <2>1. /\ ctl' \in [Actors -> CtlType] /\ ctl'[p].at = "route" /\ ctl'[p].k = k + 1
        /\ ctl'[p].undoing = ctl[p].undoing /\ \A y \in Actors \ {p} : ctl'[y] = ctl[y]
    <3>1. k + 1 \in 0 .. NRoutes + 1 /\ "route" \in Stages
      BY StageNames, HostAssumption DEF Routes
    <3> QED
      BY <1>0, <1>5, <3>1, TypesNow DEF CtlType
  <2> QED
    BY <1>0, <1>1, <1>2, <1>4, <1>5, <2>1, TypesNow DEF HostTypes, Local
<1>6. CASE routes' \in {routes, added} /\ Go(p, "finish")
  <2> HIDE DEF added
  <2>1. /\ ctl' \in [Actors -> CtlType] /\ ctl'[p].at = "finish"
        /\ ctl'[p].undoing = ctl[p].undoing /\ \A y \in Actors \ {p} : ctl'[y] = ctl[y]
    BY <1>0, <1>6, TypesNow, GoFacts, StageNames
  <2> QED
    BY <1>0, <1>1, <1>2, <1>4, <1>6, <2>1, TypesNow DEF HostTypes, Local
<1> QED
  BY <1>5, <1>6 DEF AddRoute

LEMMA ShapeAddRoute ==
    ASSUME ShapeInv, NEW p \in Procs, NEW ok \in BOOLEAN, AddRoute(p, ok)
    PROVE  HostTypes' /\ Local(p) /\ ShapeOf(p)'
BY AddRouteFields DEF ShapeOf, InstanceShape, Toward

LEMMA PlanDNSFields ==
    ASSUME ShapeInv, NEW p \in Procs, NEW ok \in BOOLEAN, PlanDNS(p, ok)
    PROVE  /\ p \in Actors /\ p \notin Cleaners /\ ctl[p].at = "dns" /\ mem[p] \in State /\ mem[p].pid = p
           /\ HostTypes' /\ Local(p) /\ UNCHANGED <<dns, base, routes, tun, state>>
           /\ ctl'[p].undoing = ctl[p].undoing
           /\ mem'[p] \in State /\ mem'[p].pid = p /\ mem'[p].routes = mem[p].routes
           /\ \/ mem' = mem /\ ctl'[p].at = "finish"
              \/ /\ \A s \in Services : dns[s] # "applied"
                 /\ mem'[p].dns = dns /\ ctl'[p].at = "save" /\ ctl'[p].then = "apply"
<1>0. /\ p \in Actors /\ p \notin Cleaners /\ ctl[p].at = "dns"
      /\ UNCHANGED <<dns, base, routes, tun, state>>
  BY LockAssumption DEF Actors, PlanDNS, At
<1>1. mem[p] \in State /\ mem[p].pid = p
  BY <1>0, TypesNow DEF ShapeOf, InstanceShape
<1>2. faults' \in 0 .. MaxFaults
  BY <1>0, TypesNow, ChargeFacts DEF PlanDNS
<1>3. CASE mem' = mem /\ Go(p, "finish")
  BY <1>0, <1>1, <1>2, <1>3, TypesNow, GoFacts, StageNames DEF HostTypes, Local
<1>4. CASE /\ \A s \in Services : dns[s] # "applied"
           /\ mem' = [mem EXCEPT ![p].dns = dns]
           /\ ctl' = [ctl EXCEPT ![p].at = "save", ![p].then = "apply", ![p].todo = Services]
  <2>1. dns \in [Services -> Values \cup {Nil}]
    BY <1>0, <1>4, TypesNow DEF HostTypes
  <2>2. /\ mem' \in [Actors -> State \cup {Nil}] /\ \A y \in Actors \ {p} : mem'[y] = mem[y]
        /\ mem'[p] \in State /\ mem'[p].pid = p /\ mem'[p].dns = dns /\ mem'[p].routes = mem[p].routes
    BY <1>0, <1>1, <1>4, <2>1, TypesNow DEF HostTypes, State
  <2>3. /\ ctl' \in [Actors -> CtlType] /\ ctl'[p].at = "save" /\ ctl'[p].then = "apply"
        /\ ctl'[p].undoing = ctl[p].undoing /\ \A y \in Actors \ {p} : ctl'[y] = ctl[y]
    <3>1. "save" \in Stages /\ "apply" \in Stages
      BY StageNames
    <3> QED
      BY <1>0, <1>4, <3>1, TypesNow, SMTT(20) DEF CtlType
  <2> QED
    BY <1>0, <1>1, <1>2, <1>4, <2>2, <2>3, TypesNow DEF HostTypes, Local
<1> QED
  BY <1>3, <1>4 DEF PlanDNS

LEMMA ShapePlanDNS ==
    ASSUME ShapeInv, NEW p \in Procs, NEW ok \in BOOLEAN, PlanDNS(p, ok)
    PROVE  HostTypes' /\ Local(p) /\ ShapeOf(p)'
BY PlanDNSFields DEF ShapeOf, InstanceShape, Toward

LEMMA ApplyFields ==
    ASSUME ShapeInv, NEW p \in Procs, NEW s \in Services, NEW ok \in BOOLEAN, Apply(p, s, ok)
    PROVE  /\ p \in Actors /\ p \notin Cleaners /\ ctl[p].at = "apply" /\ mem[p] \in State /\ mem[p].pid = p
           /\ HostTypes' /\ Local(p) /\ UNCHANGED <<base, routes, tun, state, mem>>
           /\ ctl'[p].at \in {"finish", "running", "apply"} /\ ctl'[p].undoing = ctl[p].undoing
           /\ \A t \in Services : t # s => dns'[t] = dns[t]
           /\ dns'[s] \in {dns[s], "applied"}
<1>0. /\ p \in Actors /\ p \notin Cleaners /\ ctl[p].at = "apply"
      /\ UNCHANGED <<base, routes, tun, state, mem>>
  BY LockAssumption DEF Actors, Apply, At
<1>1. mem[p] \in State /\ mem[p].pid = p
  BY <1>0, TypesNow DEF ShapeOf, InstanceShape
<1>2. faults' \in 0 .. MaxFaults
  BY <1>0, TypesNow, ChargeFacts DEF Apply
<1>3. /\ dns' \in [Services -> Values \cup {"applied"}] /\ dns'[s] \in {dns[s], "applied"}
      /\ \A t \in Services : t # s => dns'[t] = dns[t]
  <2>1. dns' \in {dns, [dns EXCEPT ![s] = "applied"]}
    BY DEF Apply
  <2> QED
    BY <1>0, <2>1, TypesNow DEF HostTypes
<1>4. /\ ctl' \in [Actors -> CtlType] /\ ctl'[p].at \in {"finish", "running", "apply"}
      /\ ctl'[p].undoing = ctl[p].undoing /\ \A y \in Actors \ {p} : ctl'[y] = ctl[y]
  <2>1. PICK a \in {"finish", "running", "apply"} :
          ctl' = [ctl EXCEPT ![p].at = a, ![p].todo = @ \ {s}]
    BY DEF Apply
  <2>2. a \in Stages
    BY StageNames
  <2> QED
    BY <1>0, <2>1, <2>2, TypesNow DEF CtlType
<1> QED
  BY <1>0, <1>1, <1>2, <1>3, <1>4, TypesNow DEF HostTypes, Local

LEMMA ShapeApply ==
    ASSUME ShapeInv, NEW p \in Procs, NEW s \in Services, NEW ok \in BOOLEAN, Apply(p, s, ok)
    PROVE  HostTypes' /\ Local(p) /\ ShapeOf(p)'
BY ApplyFields DEF ShapeOf, InstanceShape, Toward

LEMMA ShapeRewriteStop ==
    ASSUME ShapeInv, NEW p \in Procs, Rewrite(p) \/ Stop(p)
    PROVE  HostTypes' /\ Local(p) /\ ShapeOf(p)'
<1>0. p \in Actors /\ p \notin Cleaners /\ ctl[p].at = "running"
  BY LockAssumption DEF Actors, Rewrite, Stop, At
<1>1. mem[p] \in State /\ mem[p].pid = p
  BY <1>0, TypesNow DEF ShapeOf, InstanceShape
<1>2. CASE Rewrite(p)
  <2>1. UNCHANGED <<dns, base, routes, tun, mem, ctl, faults>> /\ state' = mem[p]
    BY <1>2 DEF Rewrite
  <2> QED
    BY <1>0, <1>1, <2>1, TypesNow DEF HostTypes, Local, ShapeOf, InstanceShape, Toward
<1>3. CASE Stop(p)
  <2>1. UNCHANGED <<dns, base, routes, tun, state, mem, faults>> /\ Go(p, "finish")
    BY <1>3 DEF Stop
  <2>2. ctl' \in [Actors -> CtlType] /\ ctl'[p].at = "finish" /\ \A y \in Actors \ {p} : ctl'[y] = ctl[y]
    BY <1>0, <2>1, TypesNow, GoFacts, StageNames
  <2> QED
    BY <1>0, <1>1, <2>1, <2>2, TypesNow DEF HostTypes, Local, ShapeOf, InstanceShape, Toward
<1> QED
  BY <1>2, <1>3

\* Undoing
LEMMA FinishFields ==
    ASSUME ShapeInv, NEW p \in Procs, NEW ok \in BOOLEAN, Finish(p, ok)
    PROVE  /\ p \in Actors /\ p \notin Cleaners /\ ctl[p].at = "finish" /\ mem[p] \in State /\ mem[p].pid = p
           /\ HostTypes' /\ Local(p) /\ UNCHANGED <<dns, base, routes, tun, mem>>
           /\ state' \in {state, mem[p]}
           /\ ctl'[p].at = "restore" /\ ctl'[p].todo = Recorded(p)
<1>0. /\ p \in Actors /\ p \notin Cleaners /\ ctl[p].at = "finish"
      /\ UNCHANGED <<dns, base, routes, tun, mem>> /\ WriteState(p, ok)
  BY LockAssumption DEF Actors, Finish, At
<1>1. mem[p] \in State /\ mem[p].pid = p
  BY <1>0, TypesNow DEF ShapeOf, InstanceShape
<1>2. state' \in State \cup {Nil} /\ state' \in {state, mem[p]} /\ faults' \in 0 .. MaxFaults
  BY <1>0, <1>1, TypesNow, WriteStateFacts
<1>3. /\ ctl' \in [Actors -> CtlType] /\ ctl'[p].at = "restore" /\ ctl'[p].todo = Recorded(p)
      /\ \A y \in Actors \ {p} : ctl'[y] = ctl[y]
  <2> PICK todo : todo = Recorded(p)
    OBVIOUS
  <2>1. todo \subseteq Services /\ "restore" \in Stages
    BY StageNames DEF Recorded
  <2> PICK e \in BOOLEAN : e = ~ok
    OBVIOUS
  <2>2. ctl' = [ctl EXCEPT ![p].at = "restore", ![p].undoing = TRUE, ![p].errors = e, ![p].todo = todo]
    BY DEF Finish
  <2>3. /\ ctl' \in [Actors -> CtlType] /\ ctl'[p].at = "restore" /\ ctl'[p].todo = todo
        /\ \A y \in Actors \ {p} : ctl'[y] = ctl[y]
    <3>1. ctl[p] \in CtlType /\ ctl \in [Actors -> CtlType]
      BY <1>0, TypesNow
    <3>2. PICK r : r = [ctl[p] EXCEPT !.at = "restore", !.undoing = TRUE, !.errors = e, !.todo = todo]
      OBVIOUS
    <3>3. r \in CtlType /\ r.at = "restore" /\ r.todo = todo
      BY <2>1, <3>1, <3>2 DEF CtlType
    <3>4. ctl' = [ctl EXCEPT ![p] = r]
      BY <1>0, <2>2, <3>1, <3>2
    <3> QED
      BY <1>0, <3>1, <3>3, <3>4
  <2> QED
    BY <2>3
<1> QED
  BY <1>0, <1>1, <1>2, <1>3, TypesNow DEF HostTypes, Local

LEMMA ShapeFinish ==
    ASSUME ShapeInv, NEW p \in Procs, NEW ok \in BOOLEAN, Finish(p, ok)
    PROVE  HostTypes' /\ Local(p) /\ ShapeOf(p)'
<1>1. \A s \in ctl'[p].todo : mem'[p].dns[s] # Nil
  BY FinishFields DEF Recorded
<1> QED
  BY <1>1, FinishFields DEF ShapeOf, InstanceShape, Toward

LEMMA RestoreFields ==
    ASSUME ShapeInv, NEW x \in Actors, NEW s \in Services, NEW ok \in BOOLEAN, Restore(x, s, ok)
    PROVE  /\ ctl[x].at = "restore" /\ mem[x] \in State /\ s \in ctl[x].todo
           /\ HostTypes' /\ Local(x) /\ UNCHANGED <<dns, base, routes, tun, state>>
           /\ ctl'[x].undoing = ctl[x].undoing /\ ctl'[x].exists = ctl[x].exists
           /\ ctl[x].errors => ctl'[x].errors
           /\ mem'[x] \in State /\ mem'[x].pid = mem[x].pid /\ mem'[x].routes = mem[x].routes
           /\ \A t \in Services : t # s => mem'[x].dns[t] = mem[x].dns[t]
           /\ \/ /\ mem'[x].dns[s] = mem[x].dns[s] /\ dns[s] = "applied"
                 /\ ctl'[x].at = "set" /\ ctl'[x].svc = s /\ ctl'[x].todo = ctl[x].todo
              \/ /\ ctl'[x].at = "restore" /\ ctl'[x].todo = ctl[x].todo \ {s}
                 /\ \/ mem'[x].dns[s] = mem[x].dns[s] /\ ctl'[x].errors
                    \/ mem'[x].dns[s] = Nil /\ dns[s] # "applied"
<1>0. ctl[x].at = "restore" /\ UNCHANGED <<dns, base, routes, tun, state>> /\ s \in ctl[x].todo
  BY DEF Restore, At
<1>1. mem[x] \in State
  BY <1>0, RecordInMemory
<1>2. faults' \in 0 .. MaxFaults
  BY <1>0, TypesNow, ChargeFacts DEF Restore
<1>3. mem[x].dns[s] # Nil /\ mem[x].dns[s] \in Values
  <2>1. mem[x].dns[s] # Nil
    BY <1>0, TypesNow DEF ShapeOf, Toward
  <2> QED
    BY <1>1, <2>1 DEF State
<1>4. PICK settled \in BOOLEAN :
        /\ settled <=> ok /\ dns[s] = mem[x].dns[s]
        /\ mem' = [mem EXCEPT ![x].dns[s] = IF settled THEN Nil ELSE @]
        /\ ctl' = IF ok /\ ~settled /\ dns[s] = "applied"
                  THEN [ctl EXCEPT ![x].at = "set", ![x].svc = s]
                  ELSE [ctl EXCEPT ![x].todo = @ \ {s}, ![x].errors = @ \/ ~settled]
  BY DEF Restore
<1>5. settled => dns[s] # "applied"
  BY <1>3, <1>4 DEF Values
<1>6. /\ mem' \in [Actors -> State \cup {Nil}] /\ \A y \in Actors \ {x} : mem'[y] = mem[y]
      /\ mem'[x] \in State /\ mem'[x].pid = mem[x].pid /\ mem'[x].routes = mem[x].routes
      /\ \A t \in Services : t # s => mem'[x].dns[t] = mem[x].dns[t]
      /\ mem'[x].dns[s] = IF settled THEN Nil ELSE mem[x].dns[s]
  BY <1>1, <1>4, TypesNow DEF HostTypes, State
<1>7. CASE ~settled /\ dns[s] = "applied" /\ ctl' = [ctl EXCEPT ![x].at = "set", ![x].svc = s]
  <2>1. /\ ctl' \in [Actors -> CtlType] /\ ctl'[x].at = "set" /\ ctl'[x].todo = ctl[x].todo
        /\ ctl'[x].svc = s /\ ctl'[x].errors = ctl[x].errors
        /\ ctl'[x].undoing = ctl[x].undoing /\ ctl'[x].exists = ctl[x].exists
        /\ \A y \in Actors \ {x} : ctl'[y] = ctl[y]
    BY <1>0, <1>7, TypesNow, StageNames DEF CtlType
  <2> QED
    BY <1>0, <1>1, <1>2, <1>6, <1>7, <2>1, TypesNow DEF HostTypes, Local
<1>8. CASE ctl' = [ctl EXCEPT ![x].todo = @ \ {s}, ![x].errors = @ \/ ~settled]
  <2>1. /\ ctl' \in [Actors -> CtlType] /\ ctl'[x].at = "restore" /\ ctl'[x].todo = ctl[x].todo \ {s}
        /\ ctl'[x].errors = (ctl[x].errors \/ ~settled)
        /\ ctl'[x].undoing = ctl[x].undoing /\ ctl'[x].exists = ctl[x].exists
        /\ \A y \in Actors \ {x} : ctl'[y] = ctl[y]
    BY <1>0, <1>8, TypesNow DEF CtlType
  <2> QED
    BY <1>0, <1>1, <1>2, <1>5, <1>6, <2>1, TypesNow DEF HostTypes, Local
<1> QED
  BY <1>4, <1>7, <1>8

LEMMA ShapeRestore ==
    ASSUME ShapeInv, NEW x \in Actors, NEW s \in Services, NEW ok \in BOOLEAN, Restore(x, s, ok)
    PROVE  HostTypes' /\ Local(x) /\ ShapeOf(x)'
<1>1. \A t \in ctl'[x].todo : mem'[x].dns[t] # Nil
  <2>1. \A t \in ctl[x].todo : mem[x].dns[t] # Nil
    BY RestoreFields, TypesNow DEF ShapeOf, Toward
  <2>2. ctl[x].todo \subseteq Services
    BY TypesNow DEF CtlType
  <2> QED
    BY <2>1, <2>2, RestoreFields
<1>2. ctl'[x].at = "set" => ctl'[x].svc \in ctl'[x].todo
  BY RestoreFields
<1>3. ctl'[x].at \in {"restore", "set"}
  BY RestoreFields
<1> QED
  BY <1>1, <1>2, <1>3, RestoreFields, TypesNow DEF ShapeOf, InstanceShape, CleanerShape, CleanerStages, Toward

LEMMA SetRestoredFields ==
    ASSUME ShapeInv, NEW x \in Actors, NEW ok \in BOOLEAN, SetRestored(x, ok)
    PROVE  /\ ctl[x].at = "set" /\ mem[x] \in State /\ ctl[x].svc \in Services
           /\ mem[x].dns[ctl[x].svc] \in Values
           /\ HostTypes' /\ Local(x) /\ UNCHANGED <<base, routes, tun, state>>
           /\ ctl'[x].undoing = ctl[x].undoing /\ ctl'[x].exists = ctl[x].exists
           /\ ctl[x].errors => ctl'[x].errors
           /\ ctl'[x].at = "restore" /\ ctl'[x].todo = ctl[x].todo \ {ctl[x].svc}
           /\ mem'[x] \in State /\ mem'[x].pid = mem[x].pid /\ mem'[x].routes = mem[x].routes
           /\ \A t \in Services : t # ctl[x].svc => dns'[t] = dns[t] /\ mem'[x].dns[t] = mem[x].dns[t]
           /\ \/ mem'[x].dns[ctl[x].svc] = mem[x].dns[ctl[x].svc] /\ ctl'[x].errors
              \/ mem'[x].dns[ctl[x].svc] = Nil /\ dns'[ctl[x].svc] # "applied"
           /\ dns'[ctl[x].svc] \in {dns[ctl[x].svc], mem[x].dns[ctl[x].svc]}
<1>0. ctl[x].at = "set" /\ UNCHANGED <<base, routes, tun, state>>
  BY DEF SetRestored, At
<1>1. mem[x] \in State
  BY <1>0, RecordInMemory
<1>2. faults' \in 0 .. MaxFaults
  BY <1>0, TypesNow, ChargeFacts DEF SetRestored
<1>3. ctl[x].svc \in ctl[x].todo /\ ctl[x].svc \in Services
  BY <1>0, TypesNow DEF ShapeOf, CtlType
<1>a. PICK s \in Services : s = ctl[x].svc
  BY <1>3
<1>b. mem[x].dns[s] # Nil
  BY <1>0, <1>3, <1>a, TypesNow DEF ShapeOf, Toward
<1>c. mem[x].dns[s] \in Values
  BY <1>1, <1>b DEF State
<1> PICK previous \in Values : previous = mem[x].dns[s]
  BY <1>c
<1>4. /\ dns' = [dns EXCEPT ![s] = previous] \/ (~ok /\ dns' = dns)
      /\ mem' = [mem EXCEPT ![x].dns[s] = IF ok THEN Nil ELSE @]
      /\ ctl' = [ctl EXCEPT ![x].at = "restore", ![x].todo = @ \ {s}, ![x].svc = Nil,
                            ![x].errors = @ \/ ~ok]
  BY <1>a DEF SetRestored
<1>5. /\ dns' \in [Services -> Values \cup {"applied"}]
      /\ \A t \in Services : t # s => dns'[t] = dns[t]
      /\ dns'[s] \in {dns[s], previous}
      /\ ok => dns'[s] # "applied"
  <2>1. previous # "applied" /\ dns \in [Services -> Values \cup {"applied"}]
    BY TypesNow DEF Values, HostTypes
  <2> QED
    BY <1>4, <2>1
<1>6. /\ mem' \in [Actors -> State \cup {Nil}] /\ \A y \in Actors \ {x} : mem'[y] = mem[y]
      /\ mem'[x] \in State /\ mem'[x].pid = mem[x].pid /\ mem'[x].routes = mem[x].routes
      /\ \A t \in Services : t # s => mem'[x].dns[t] = mem[x].dns[t]
      /\ mem'[x].dns[s] = IF ok THEN Nil ELSE mem[x].dns[s]
  BY <1>1, <1>4, TypesNow DEF HostTypes, State
<1>7. /\ ctl' \in [Actors -> CtlType] /\ ctl'[x].at = "restore" /\ ctl'[x].todo = ctl[x].todo \ {s}
      /\ ctl'[x].errors = (ctl[x].errors \/ ~ok)
      /\ ctl'[x].undoing = ctl[x].undoing /\ ctl'[x].exists = ctl[x].exists
      /\ \A y \in Actors \ {x} : ctl'[y] = ctl[y]
  <2>1. ctl[x] \in CtlType /\ ctl \in [Actors -> CtlType] /\ "restore" \in Stages
    BY TypesNow, StageNames
  <2>2. PICK e \in BOOLEAN : e = (ctl[x].errors \/ ~ok)
    OBVIOUS
  <2>3. PICK r : r = [ctl[x] EXCEPT !.at = "restore", !.todo = @ \ {s}, !.svc = Nil, !.errors = e]
    OBVIOUS
  <2>4. /\ r \in CtlType /\ r.at = "restore" /\ r.todo = ctl[x].todo \ {s} /\ r.errors = e
        /\ r.undoing = ctl[x].undoing /\ r.exists = ctl[x].exists
    BY <2>1, <2>3 DEF CtlType
  <2>5. ctl' = [ctl EXCEPT ![x] = r]
    BY <1>4, <2>1, <2>2, <2>3
  <2> QED
    BY <2>1, <2>2, <2>4, <2>5
<1> QED
  BY <1>0, <1>1, <1>2, <1>a, <1>c, <1>5, <1>6, <1>7, TypesNow DEF HostTypes, Local

LEMMA ShapeSetRestored ==
    ASSUME ShapeInv, NEW x \in Actors, NEW ok \in BOOLEAN, SetRestored(x, ok)
    PROVE  HostTypes' /\ Local(x) /\ ShapeOf(x)'
<1>1. \A t \in ctl'[x].todo : mem'[x].dns[t] # Nil
  <2>1. \A t \in ctl[x].todo : mem[x].dns[t] # Nil
    BY SetRestoredFields, TypesNow DEF ShapeOf, Toward
  <2>2. ctl[x].todo \subseteq Services
    BY TypesNow DEF CtlType
  <2> QED
    BY <2>1, <2>2, SetRestoredFields
<1>2. ctl[x].at = "set" /\ ctl'[x].at = "restore"
  BY SetRestoredFields
<1> QED
  BY <1>1, <1>2, SetRestoredFields, TypesNow DEF ShapeOf, InstanceShape, CleanerShape, CleanerStages, Toward

\* The steps of undoing that change nothing but the stage.
LEMMA QuietFields ==
    ASSUME ShapeInv, NEW x \in Actors, RestoreDone(x) \/ Restored(x) \/ RoutesDone(x)
    PROVE  /\ mem[x] \in State /\ ctl[x].at \in {"restore", "restored", "routes"}
           /\ HostTypes' /\ Local(x) /\ UNCHANGED <<dns, base, routes, tun, state, mem>>
           /\ ctl'[x].undoing = ctl[x].undoing /\ ctl'[x].exists = ctl[x].exists
           /\ ctl'[x].errors = ctl[x].errors
           /\ \/ ctl[x].at = "restore" /\ ctl[x].todo = {} /\ ctl'[x].at = "save" /\ ctl'[x].then = "restored"
              \/ ctl[x].at = "restored" /\ ctl'[x].at = "routes" /\ ctl'[x].k = NRoutes
              \/ ctl[x].at \in {"restored", "routes"} /\ ctl'[x].at = "abort" /\ x \in Cleaners
              \/ /\ ctl[x].at = "routes" /\ ctl[x].k \notin Routes
                 /\ ctl'[x].at = IF x \in Procs THEN "device" ELSE "unlock"
<1>0. /\ ctl[x].at \in {"restore", "restored", "routes"}
      /\ UNCHANGED <<dns, base, routes, tun, state, mem, faults>>
  BY DEF RestoreDone, Restored, RoutesDone, At
<1>1. mem[x] \in State
  BY <1>0, RecordInMemory
<1>2. CASE RestoreDone(x)
  <2>1. ctl[x].at = "restore" /\ ctl[x].todo = {} /\ SaveThen(x, "restored")
    BY <1>2 DEF RestoreDone, At
  <2> QED
    BY <1>0, <1>1, <2>1, TypesNow, SaveThenFacts, StageNames DEF HostTypes, Local
<1>3. CASE Restored(x)
  <2>1. PICK a \in {"abort", "routes"} :
          /\ ctl[x].at = "restored" /\ (a = "abort" => x \in Cleaners)
          /\ ctl' = [ctl EXCEPT ![x].at = a, ![x].k = NRoutes]
    BY <1>3 DEF Restored, At
  <2>2. a \in Stages /\ NRoutes \in 0 .. NRoutes + 1
    BY StageNames, HostAssumption
  <2>3. /\ ctl' \in [Actors -> CtlType] /\ ctl'[x].at = a /\ ctl'[x].k = NRoutes
        /\ ctl'[x].undoing = ctl[x].undoing /\ ctl'[x].exists = ctl[x].exists
        /\ ctl'[x].errors = ctl[x].errors /\ \A y \in Actors \ {x} : ctl'[y] = ctl[y]
    BY <2>1, <2>2, TypesNow DEF CtlType
  <2> QED
    BY <1>0, <1>1, <2>1, <2>3, TypesNow DEF HostTypes, Local
<1>4. CASE RoutesDone(x)
  <2>1. PICK a \in {"device", "abort", "unlock"} :
          /\ ctl[x].at = "routes" /\ ctl[x].k \notin Routes /\ Go(x, a)
          /\ IF x \in Procs THEN a = "device" ELSE a # "device"
    BY <1>4 DEF RoutesDone, At
  <2>2. a \in Stages
    BY StageNames
  <2>3. /\ ctl' \in [Actors -> CtlType] /\ ctl'[x].at = a
        /\ ctl'[x].undoing = ctl[x].undoing /\ ctl'[x].exists = ctl[x].exists
        /\ ctl'[x].errors = ctl[x].errors /\ \A y \in Actors \ {x} : ctl'[y] = ctl[y]
    BY <2>1, <2>2, TypesNow, GoFacts
  <2> QED
    BY <1>0, <1>1, <2>1, <2>3, TypesNow DEF HostTypes, Local, Actors
<1> QED
  BY <1>2, <1>3, <1>4

LEMMA ShapeQuiet ==
    ASSUME ShapeInv, NEW x \in Actors, RestoreDone(x) \/ Restored(x) \/ RoutesDone(x)
    PROVE  HostTypes' /\ Local(x) /\ ShapeOf(x)'
<1>1. x \in Cleaners => x \notin Procs
  BY LockAssumption
<1>2. x \in Cleaners => CleanerShape(x)'
  BY <1>1, QuietFields, TypesNow DEF ShapeOf, CleanerShape, CleanerStages
<1>3. x \in Procs => InstanceShape(x)'
  BY <1>1, QuietFields, TypesNow DEF ShapeOf, InstanceShape, Toward
<1>4. Toward(x)' \notin {"restore", "set"} /\ ctl'[x].at # "set"
      /\ (ctl'[x].at = "save" => ctl'[x].then # "set")
  BY QuietFields DEF Toward
<1> QED
  BY <1>2, <1>3, <1>4, QuietFields DEF ShapeOf

LEMMA RemoveRouteFields ==
    ASSUME ShapeInv, NEW x \in Actors, NEW ok \in BOOLEAN, RemoveRoute(x, ok)
    PROVE  /\ ctl[x].at = "routes" /\ mem[x] \in State /\ ctl[x].k \in Routes
           /\ HostTypes' /\ Local(x) /\ UNCHANGED <<dns, base, tun, state>>
           /\ ctl'[x].undoing = ctl[x].undoing /\ ctl'[x].exists = ctl[x].exists
           /\ ctl[x].errors => ctl'[x].errors
           /\ ctl'[x].k = ctl[x].k - 1
           /\ mem'[x] \in State /\ mem'[x].pid = mem[x].pid /\ mem'[x].dns = mem[x].dns
           /\ \A j \in Routes : routes'[j] \in {routes[j], Nil} /\ (j # ctl[x].k => routes'[j] = routes[j])
           /\ ctl'[x].at = "routes" \/ (ctl'[x].at = "save" /\ ctl'[x].then = "routes")
           /\ \/ mem' = mem /\ (ctl'[x].errors \/ ctl[x].k \notin mem[x].routes)
              \/ /\ mem'[x].routes = mem[x].routes \ {ctl[x].k}
                 /\ ~RouteRefused(ctl[x].k, Interface(ctl[x].k, mem[x].pid))
                 /\ routes[ctl[x].k] = Interface(ctl[x].k, mem[x].pid) => routes'[ctl[x].k] = Nil
<1>0. ctl[x].at = "routes" /\ UNCHANGED <<dns, base, tun, state>> /\ ctl[x].k \in Routes
  BY DEF RemoveRoute, At
<1>1. mem[x] \in State
  BY <1>0, RecordInMemory
<1> PICK k \in Routes : k = ctl[x].k
  BY <1>0
<1> PICK recorded : recorded = Interface(k, mem[x].pid)
  OBVIOUS
<1> PICK refused \in BOOLEAN : refused <=> RouteRefused(k, recorded)
  OBVIOUS
<1>a. k - 1 \in 0 .. NRoutes + 1 /\ "save" \in Stages /\ "routes" \in Stages
  BY StageNames, HostAssumption DEF Routes
<1>2. CASE k \notin mem[x].routes /\ ctl' = [ctl EXCEPT ![x].k = k - 1] /\ UNCHANGED <<routes, mem, faults>>
  <2>1. /\ ctl' \in [Actors -> CtlType] /\ ctl'[x].at = "routes" /\ ctl'[x].k = k - 1
        /\ ctl'[x].undoing = ctl[x].undoing /\ ctl'[x].exists = ctl[x].exists
        /\ ctl'[x].errors = ctl[x].errors /\ \A y \in Actors \ {x} : ctl'[y] = ctl[y]
    BY <1>0, <1>a, <1>2, TypesNow DEF CtlType
  <2> QED
    BY <1>0, <1>1, <1>2, <2>1, TypesNow DEF HostTypes, Local
<1>3. CASE /\ k \in mem[x].routes /\ Charge(ok)
           /\ \/ routes' = IF routes[k] = recorded THEN [routes EXCEPT ![k] = Nil] ELSE routes
              \/ ~ok /\ routes' = routes
           /\ IF ok /\ ~refused
              THEN /\ mem' = [mem EXCEPT ![x].routes = @ \ {k}]
                   /\ ctl' = [ctl EXCEPT ![x].at = "save", ![x].then = "routes", ![x].k = k - 1]
              ELSE /\ mem' = mem
                   /\ ctl' = [ctl EXCEPT ![x].errors = TRUE, ![x].k = k - 1]
  <2>1. faults' \in 0 .. MaxFaults
    BY <1>3, TypesNow, ChargeFacts
  <2>2. /\ routes' \in [Routes -> Procs \cup {"phys", Nil}]
        /\ \A j \in Routes : routes'[j] \in {routes[j], Nil} /\ (j # k => routes'[j] = routes[j])
        /\ ok /\ routes[k] = recorded => routes'[k] = Nil
    BY <1>3, TypesNow DEF HostTypes
  <2>3. CASE ok /\ ~refused
    <3>1. /\ mem' = [mem EXCEPT ![x].routes = @ \ {k}]
          /\ ctl' = [ctl EXCEPT ![x].at = "save", ![x].then = "routes", ![x].k = k - 1]
      BY <1>3, <2>3
    <3>2. /\ mem' \in [Actors -> State \cup {Nil}] /\ \A y \in Actors \ {x} : mem'[y] = mem[y]
          /\ mem'[x] \in State /\ mem'[x].pid = mem[x].pid /\ mem'[x].dns = mem[x].dns
          /\ mem'[x].routes = mem[x].routes \ {k}
      BY <1>1, <3>1, TypesNow DEF HostTypes, State
    <3>3. /\ ctl' \in [Actors -> CtlType] /\ ctl'[x].at = "save" /\ ctl'[x].then = "routes" /\ ctl'[x].k = k - 1
          /\ ctl'[x].undoing = ctl[x].undoing /\ ctl'[x].exists = ctl[x].exists
          /\ ctl'[x].errors = ctl[x].errors /\ \A y \in Actors \ {x} : ctl'[y] = ctl[y]
      BY <1>a, <3>1, TypesNow DEF CtlType
    <3> QED
      BY <1>0, <1>1, <2>1, <2>2, <2>3, <3>2, <3>3, TypesNow DEF HostTypes, Local
  <2>4. CASE ~(ok /\ ~refused)
    <3>1. mem' = mem /\ ctl' = [ctl EXCEPT ![x].errors = TRUE, ![x].k = k - 1]
      BY <1>3, <2>4
    <3>3. /\ ctl' \in [Actors -> CtlType] /\ ctl'[x].at = "routes" /\ ctl'[x].k = k - 1
          /\ ctl'[x].undoing = ctl[x].undoing /\ ctl'[x].exists = ctl[x].exists
          /\ ctl'[x].errors /\ \A y \in Actors \ {x} : ctl'[y] = ctl[y]
      BY <1>0, <1>a, <3>1, TypesNow DEF CtlType
    <3> QED
      BY <1>0, <1>1, <2>1, <2>2, <3>1, <3>3, TypesNow DEF HostTypes, Local
  <2> QED
    BY <2>3, <2>4
<1> QED
  BY <1>2, <1>3 DEF RemoveRoute

LEMMA ShapeRemoveRoute ==
    ASSUME ShapeInv, NEW x \in Actors, NEW ok \in BOOLEAN, RemoveRoute(x, ok)
    PROVE  HostTypes' /\ Local(x) /\ ShapeOf(x)'
<1>1. ctl[x].at = "routes" /\ mem'[x] \in State /\ mem'[x].pid = mem[x].pid
      /\ ctl'[x].undoing = ctl[x].undoing /\ ctl'[x].exists = ctl[x].exists
      /\ (ctl'[x].at = "routes" \/ (ctl'[x].at = "save" /\ ctl'[x].then = "routes"))
  BY RemoveRouteFields
<1>2. HostTypes' /\ Local(x)
  BY RemoveRouteFields
<1> QED
  BY <1>1, <1>2, TypesNow DEF ShapeOf, CleanerShape, InstanceShape, CleanerStages, Toward

LEMMA CloseDeviceFields ==
    ASSUME ShapeInv, NEW p \in Procs, NEW ok \in BOOLEAN, CloseDevice(p, ok)
    PROVE  /\ p \in Actors /\ p \notin Cleaners /\ ctl[p].at = "device" /\ mem[p] \in State /\ mem[p].pid = p
           /\ HostTypes' /\ Local(p) /\ UNCHANGED <<dns, base, state, mem>>
           /\ tun' = tun \ {p} /\ \A j \in Routes : routes'[j] = IF routes[j] = p THEN Nil ELSE routes[j]
           /\ ctl'[p].at = "unlock" /\ (ctl[p].errors => ctl'[p].errors) /\ ctl'[p].exists = ctl[p].exists
<1>0. /\ p \in Actors /\ p \notin Cleaners /\ ctl[p].at = "device" /\ DropTun(p)
      /\ UNCHANGED <<dns, base, state, mem>>
  BY LockAssumption DEF Actors, CloseDevice, At
<1>1. mem[p] \in State /\ mem[p].pid = p
  BY <1>0, TypesNow DEF ShapeOf, InstanceShape
<1>2. faults' \in 0 .. MaxFaults
  BY <1>0, TypesNow, ChargeFacts DEF CloseDevice
<1>3. /\ ctl' \in [Actors -> CtlType] /\ ctl'[p].at = "unlock" /\ (ctl[p].errors => ctl'[p].errors)
      /\ ctl'[p].exists = ctl[p].exists /\ \A y \in Actors \ {p} : ctl'[y] = ctl[y]
  <2>1. "unlock" \in Stages
    BY StageNames
  <2> QED
    BY <1>0, <2>1, TypesNow DEF CloseDevice, CtlType
<1>4. /\ tun' = tun \ {p} /\ \A j \in Routes : routes'[j] = IF routes[j] = p THEN Nil ELSE routes[j]
      /\ routes' \in [Routes -> Procs \cup {"phys", Nil}]
  BY <1>0, TypesNow DEF DropTun, HostTypes
<1> QED
  BY <1>0, <1>1, <1>2, <1>3, <1>4, TypesNow DEF HostTypes, Local

LEMMA ShapeCloseDevice ==
    ASSUME ShapeInv, NEW p \in Procs, NEW ok \in BOOLEAN, CloseDevice(p, ok)
    PROVE  HostTypes' /\ Local(p) /\ ShapeOf(p)'
BY CloseDeviceFields DEF ShapeOf, InstanceShape, Toward

LEMMA UnlockFields ==
    ASSUME ShapeInv, NEW x \in Actors, UnlockStep(x)
    PROVE  /\ ctl[x].at = "unlock" /\ mem[x] \in State
           /\ HostTypes' /\ Local(x) /\ UNCHANGED <<dns, base, routes, tun, state, mem>>
           /\ ctl'[x].exists = ctl[x].exists /\ ctl'[x].undoing = ctl[x].undoing
           /\ ctl[x].errors => ctl'[x].errors
           /\ \/ ctl'[x].at = "unlock" /\ (CloseCheck(x) \/ \E ok \in BOOLEAN : CloseRemove(x, ok))
              \/ ctl'[x].at = "remove" /\ CloseUnlock(x)
<1>0. ctl[x].at = "unlock" /\ UNCHANGED <<dns, base, routes, tun, state, mem>>
  BY DEF UnlockStep, At
<1>1. mem[x] \in State
  BY <1>0, RecordInMemory
<1>2. \/ (CloseCheck(x) \/ \E ok \in BOOLEAN : CloseRemove(x, ok)) /\ \E e : ctl' = [ctl EXCEPT ![x].errors = @ \/ e]
      \/ CloseUnlock(x) /\ Go(x, "remove")
  BY DEF UnlockStep
<1>3. faults' \in 0 .. MaxFaults
  BY TypesNow, ChargeFacts DEF UnlockStep
<1>4. CASE \E e : ctl' = [ctl EXCEPT ![x].errors = @ \/ e]
  <2>1. PICK e : ctl' = [ctl EXCEPT ![x].errors = @ \/ e]
    BY <1>4
  <2>2. PICK b \in BOOLEAN : b = (ctl[x].errors \/ e) /\ (ctl[x].errors => b)
    OBVIOUS
  <2>3. ctl' = [ctl EXCEPT ![x].errors = b]
    BY <2>1, <2>2
  <2>4. /\ ctl' \in [Actors -> CtlType] /\ ctl'[x].at = "unlock" /\ (ctl[x].errors => ctl'[x].errors)
        /\ ctl'[x].exists = ctl[x].exists /\ ctl'[x].undoing = ctl[x].undoing
        /\ \A y \in Actors \ {x} : ctl'[y] = ctl[y]
    <3>1. PICK r : r = [ctl[x] EXCEPT !.errors = b]
      OBVIOUS
    <3>2. ctl \in [Actors -> CtlType] /\ ctl[x] \in CtlType
      BY TypesNow
    <3>3. r \in CtlType /\ r.at = ctl[x].at /\ r.errors = b
          /\ r.exists = ctl[x].exists /\ r.undoing = ctl[x].undoing
      BY <3>1, <3>2 DEF CtlType
    <3>4. ctl' = [ctl EXCEPT ![x] = r]
      BY <2>3, <3>1
    <3> QED
      BY <1>0, <2>2, <3>2, <3>3, <3>4
  <2>5. CloseCheck(x) \/ \E ok \in BOOLEAN : CloseRemove(x, ok)
    <3>1. CASE Go(x, "remove")
      BY <1>0, <2>4, <3>1, TypesNow, GoFacts, StageNames
    <3> QED
      BY <1>2, <3>1
  <2> QED
    BY <1>0, <1>1, <1>3, <2>4, <2>5, TypesNow DEF HostTypes, Local
<1>5. CASE CloseUnlock(x) /\ Go(x, "remove")
  BY <1>0, <1>1, <1>3, <1>5, TypesNow, GoFacts, StageNames DEF HostTypes, Local
<1> QED
  BY <1>2, <1>4, <1>5

LEMMA ShapeUnlock ==
    ASSUME ShapeInv, NEW x \in Actors, UnlockStep(x)
    PROVE  HostTypes' /\ Local(x) /\ ShapeOf(x)'
<1>1. /\ ctl[x].at = "unlock" /\ ctl'[x].at \in {"unlock", "remove"} /\ mem' = mem /\ HostTypes' /\ Local(x)
      /\ ctl'[x].exists = ctl[x].exists /\ ctl'[x].undoing = ctl[x].undoing
  BY UnlockFields
<1> QED
  BY <1>1, TypesNow DEF ShapeOf, CleanerShape, InstanceShape, CleanerStages, Toward

LEMMA RemoveFields ==
    ASSUME ShapeInv, NEW x \in Actors, NEW ok \in BOOLEAN, Remove(x, ok)
    PROVE  /\ ctl[x].at = "remove" /\ mem[x] \in State
           /\ HostTypes' /\ Local(x) /\ UNCHANGED <<lockVars, dns, base, routes, tun, mem>>
           /\ state' = state \/ (state' = Nil /\ ctl[x].exists /\ ~ctl[x].errors)
           /\ ctl'[x].at = "done" /\ ctl'[x].exists = ctl[x].exists /\ ctl'[x].undoing = ctl[x].undoing
<1>0. /\ ctl[x].at = "remove" /\ UNCHANGED <<lockVars, dns, base, routes, tun, mem>> /\ Go(x, "done")
      /\ state' = state \/ (state' = Nil /\ ctl[x].exists /\ ~ctl[x].errors)
  BY DEF Remove, At
<1>1. mem[x] \in State
  BY <1>0, RecordInMemory
<1>2. faults' \in 0 .. MaxFaults
  BY TypesNow, ChargeFacts DEF Remove
<1> QED
  BY <1>0, <1>1, <1>2, TypesNow, GoFacts, StageNames DEF HostTypes, Local

LEMMA ShapeRemove ==
    ASSUME ShapeInv, NEW x \in Actors, NEW ok \in BOOLEAN, Remove(x, ok)
    PROVE  HostTypes' /\ Local(x) /\ ShapeOf(x)'
BY RemoveFields, TypesNow DEF ShapeOf, CleanerShape, InstanceShape, CleanerStages, Toward

\* Kills, recoveries and the user
LEMMA KillInstanceFields ==
    ASSUME ShapeInv, NEW p \in Procs, KillInstance(p)
    PROVE  /\ p \in Actors /\ p \notin Cleaners /\ ctl[p].at \notin {"check", "done"}
           /\ HostTypes' /\ Local(p) /\ UNCHANGED <<dns, base, state, mem>>
           /\ tun' = tun \ {p} /\ \A j \in Routes : routes'[j] = IF routes[j] = p THEN Nil ELSE routes[j]
           /\ ctl'[p].at = "done" /\ ctl'[p].undoing = ctl[p].undoing /\ ctl'[p].exists = ctl[p].exists
<1>0. /\ p \in Actors /\ p \notin Cleaners /\ ctl[p].at \notin {"check", "done"} /\ DropTun(p)
      /\ UNCHANGED <<dns, base, state, mem, faults>> /\ Go(p, "done")
  BY LockAssumption DEF Actors, KillInstance, At, Alive
<1>1. /\ tun' = tun \ {p} /\ \A j \in Routes : routes'[j] = IF routes[j] = p THEN Nil ELSE routes[j]
      /\ routes' \in [Routes -> Procs \cup {"phys", Nil}]
  BY <1>0, TypesNow DEF DropTun, HostTypes
<1>2. /\ ctl' \in [Actors -> CtlType] /\ ctl'[p].at = "done" /\ \A y \in Actors \ {p} : ctl'[y] = ctl[y]
      /\ ctl'[p].undoing = ctl[p].undoing /\ ctl'[p].exists = ctl[p].exists
  BY <1>0, TypesNow, GoFacts, StageNames
<1> QED
  BY <1>0, <1>1, <1>2, TypesNow DEF HostTypes, Local

LEMMA ShapeKillInstance ==
    ASSUME ShapeInv, NEW p \in Procs, KillInstance(p)
    PROVE  HostTypes' /\ Local(p) /\ ShapeOf(p)'
BY KillInstanceFields DEF ShapeOf, InstanceShape, Toward

LEMMA ReadStateFields ==
    ASSUME ShapeInv, NEW c \in Cleaners, ReadState(c)
    PROVE  /\ c \in Actors /\ c \notin Procs /\ ctl[c].at = "check"
           /\ HostTypes' /\ Local(c) /\ UNCHANGED <<lockVars, dns, base, routes, tun, state>>
           /\ mem'[c] = state /\ ctl'[c].undoing = ctl[c].undoing /\ ctl'[c].exists = ctl[c].exists
           /\ ctl'[c].at = IF state = Nil THEN "done" ELSE "claim"
<1>0. /\ c \in Actors /\ c \notin Procs /\ ctl[c].at = "check" /\ mem' = [mem EXCEPT ![c] = state]
      /\ UNCHANGED <<lockVars, dns, base, routes, tun, state, faults>>
  BY LockAssumption DEF Actors, ReadState, At
<1>1. PICK a \in {"done", "claim"} : Go(c, a) /\ a = IF state = Nil THEN "done" ELSE "claim"
  BY DEF ReadState
<1>2. a \in Stages
  BY StageNames
<1>3. /\ ctl' \in [Actors -> CtlType] /\ ctl'[c].at = a /\ \A y \in Actors \ {c} : ctl'[y] = ctl[y]
      /\ ctl'[c].undoing = ctl[c].undoing /\ ctl'[c].exists = ctl[c].exists
  BY <1>0, <1>1, <1>2, TypesNow, GoFacts
<1>4. /\ mem' \in [Actors -> State \cup {Nil}] /\ mem'[c] = state /\ \A y \in Actors \ {c} : mem'[y] = mem[y]
  BY <1>0, TypesNow DEF HostTypes
<1> QED
  BY <1>0, <1>1, <1>3, <1>4, TypesNow DEF HostTypes, Local

LEMMA ShapeReadState ==
    ASSUME ShapeInv, NEW c \in Cleaners, ReadState(c)
    PROVE  HostTypes' /\ Local(c) /\ ShapeOf(c)'
BY ReadStateFields, TypesNow DEF ShapeOf, CleanerShape, CleanerStages, Toward, HostTypes

\* A recovery turns away from its claim, goes on trying, or begins to clean.
LEMMA ClaimFields ==
    ASSUME ShapeInv, NEW c \in Cleaners, ClaimStep(c) \/ ProbeProcess(c)
    PROVE  /\ c \in Actors /\ c \notin Procs /\ ctl[c].at = "claim" /\ mem[c] \in State
           /\ HostTypes' /\ Local(c) /\ UNCHANGED <<dns, base, routes, tun, state, mem>>
           /\ ctl'[c].undoing = ctl[c].undoing /\ ctl'[c].exists = ctl[c].exists
           /\ ctl'[c].errors = ctl[c].errors
           /\ \/ ctl'[c].at \in {"done", "claim"}
              \/ ctl'[c].at = "save" /\ ctl'[c].then = "restore" /\ ctl'[c].todo = Recorded(c)
<1>0. /\ c \in Actors /\ c \notin Procs /\ ctl[c].at = "claim"
      /\ UNCHANGED <<dns, base, routes, tun, state, mem, faults>>
  BY LockAssumption DEF Actors, ClaimStep, ProbeProcess, At
<1>1. mem[c] \in State
  BY <1>0, RecordInMemory
<1>2. BeginCleaning(c) \/ \E a \in {"done", "claim"} : Go(c, a)
  BY DEF ClaimStep, ProbeProcess
<1>3. CASE BeginCleaning(c)
  <2> PICK todo : todo = Recorded(c)
    OBVIOUS
  <2>1. todo \subseteq Services /\ "restore" \in Stages /\ "save" \in Stages
    BY StageNames DEF Recorded
  <2>2. ctl' = [ctl EXCEPT ![c].at = "save", ![c].then = "restore", ![c].todo = todo]
    BY <1>3 DEF BeginCleaning
  <2>3. /\ ctl' \in [Actors -> CtlType] /\ ctl'[c].at = "save" /\ ctl'[c].then = "restore" /\ ctl'[c].todo = todo
        /\ ctl'[c].undoing = ctl[c].undoing /\ ctl'[c].exists = ctl[c].exists
        /\ ctl'[c].errors = ctl[c].errors
        /\ \A y \in Actors \ {c} : ctl'[y] = ctl[y]
    BY <1>0, <2>1, <2>2, TypesNow, SMTT(20) DEF CtlType
  <2> QED
    BY <1>0, <1>1, <2>3, TypesNow DEF HostTypes, Local
<1>4. CASE \E a \in {"done", "claim"} : Go(c, a)
  <2>1. PICK a \in {"done", "claim"} : Go(c, a)
    BY <1>4
  <2>2. a \in Stages
    BY StageNames
  <2>3. /\ ctl' \in [Actors -> CtlType] /\ ctl'[c].at = a
        /\ ctl'[c].undoing = ctl[c].undoing /\ ctl'[c].exists = ctl[c].exists
        /\ ctl'[c].errors = ctl[c].errors
        /\ \A y \in Actors \ {c} : ctl'[y] = ctl[y]
    BY <1>0, <2>1, <2>2, TypesNow, GoFacts
  <2> QED
    BY <1>0, <1>1, <2>3, TypesNow DEF HostTypes, Local
<1> QED
  BY <1>2, <1>3, <1>4

LEMMA ShapeClaim ==
    ASSUME ShapeInv, NEW c \in Cleaners, ClaimStep(c) \/ ProbeProcess(c)
    PROVE  HostTypes' /\ Local(c) /\ ShapeOf(c)'
<1>1. Toward(c)' \in {"restore", "set"} => \A s \in ctl'[c].todo : mem'[c].dns[s] # Nil
  BY ClaimFields DEF Toward, Recorded
<1>2. CleanerShape(c)'
  BY ClaimFields, TypesNow DEF ShapeOf, CleanerShape, CleanerStages
<1> QED
  BY <1>1, <1>2, ClaimFields DEF ShapeOf

\* The other steps of a recovery that only move it on.
LEMMA MoveOnFields ==
    ASSUME ShapeInv, NEW c \in Cleaners, RemoveStale(c) \/ Abort(c) \/ KillCleaner(c)
    PROVE  /\ c \in Actors /\ c \notin Procs /\ mem[c] \in State /\ ctl[c].at \notin {"check", "done"}
           /\ HostTypes' /\ Local(c) /\ UNCHANGED <<dns, base, routes, tun, state, mem>>
           /\ ctl'[c].undoing = ctl[c].undoing /\ ctl'[c].exists = ctl[c].exists
           /\ ctl'[c].errors = ctl[c].errors
           /\ \/ ctl'[c].at = "done"
              \/ ctl[c].at = "unlock" /\ ctl'[c].at \in {"unlock", "remove"}
<1>0. /\ c \in Actors /\ c \notin Procs /\ ctl[c].at \notin {"check", "done"}
      /\ UNCHANGED <<dns, base, routes, tun, state, mem>>
  BY LockAssumption DEF Actors, RemoveStale, Abort, KillCleaner, At
<1>1. mem[c] \in State
  BY <1>0, TypesNow DEF ShapeOf, CleanerShape
<1>2. PICK a \in {"done", "unlock", "remove"} : Go(c, a) /\ (a # "done" => ctl[c].at = "unlock")
  BY DEF RemoveStale, Abort, KillCleaner, At
<1>3. faults' \in 0 .. MaxFaults
  BY <1>0, TypesNow, ChargeFacts DEF RemoveStale, Abort, KillCleaner
<1>4. a \in Stages
  BY StageNames
<1>5. /\ ctl' \in [Actors -> CtlType] /\ ctl'[c].at = a /\ \A y \in Actors \ {c} : ctl'[y] = ctl[y]
      /\ ctl'[c].undoing = ctl[c].undoing /\ ctl'[c].exists = ctl[c].exists
      /\ ctl'[c].errors = ctl[c].errors
  BY <1>0, <1>2, <1>4, TypesNow, GoFacts
<1> QED
  BY <1>0, <1>1, <1>2, <1>3, <1>5, TypesNow DEF HostTypes, Local

LEMMA ShapeMoveOn ==
    ASSUME ShapeInv, NEW c \in Cleaners, RemoveStale(c) \/ Abort(c) \/ KillCleaner(c)
    PROVE  HostTypes' /\ Local(c) /\ ShapeOf(c)'
BY MoveOnFields, TypesNow DEF ShapeOf, CleanerShape, CleanerStages, Toward

LEMMA UserFields ==
    ASSUME ShapeInv, NEW s \in Services, NEW v \in Values, UserSetsDNS(s, v)
    PROVE  /\ HostTypes' /\ UNCHANGED <<lockVars, routes, tun, state, mem, ctl, faults>>
           /\ dns[s] # v /\ dns'[s] = v /\ base'[s] = v
           /\ \A t \in Services : t # s => dns'[t] = dns[t] /\ base'[t] = base[t]
           /\ late' = IF \E x \in Actors : Setting(x, s) THEN late \cup {s} ELSE late
<1>1. HostTypes
  BY DEF ShapeInv
<1> QED
  BY <1>1 DEF UserSetsDNS, HostTypes

----------------------------------------------------------------------------
(* ShapeInv *)

LEMMA ShapeUndo ==
    ASSUME ShapeInv, NEW x \in Actors, Undo(x)
    PROVE  HostTypes' /\ Local(x) /\ ShapeOf(x)'
BY ShapeSave, ShapeSetRestored, ShapeRemoveRoute, ShapeRemove, ShapeRestore, ShapeQuiet, ShapeUnlock
DEF Undo

LEMMA ShapeInstance ==
    ASSUME ShapeInv, NEW p \in Procs, Instance(p) \/ Rewrite(p) \/ Stop(p) \/ KillInstance(p)
    PROVE  HostTypes' /\ Local(p) /\ ShapeOf(p)'
<1>0. p \in Actors
  BY DEF Actors
<1> QED
  BY <1>0, ShapeCheckState, ShapeAcquire, ShapeFirstSave, ShapeCreateTun, ShapeAddRoute, ShapePlanDNS,
     ShapeFinish, ShapeCloseDevice, ShapeRecordRoute, ShapeUndo, ShapeApply, ShapeRewriteStop,
     ShapeKillInstance DEF Instance

LEMMA ShapeCleanup ==
    ASSUME ShapeInv, NEW c \in Cleaners, Cleanup(c) \/ KillCleaner(c)
    PROVE  HostTypes' /\ Local(c) /\ ShapeOf(c)'
<1>0. c \in Actors
  BY DEF Actors
<1> QED
  BY <1>0, ShapeReadState, ShapeClaim, ShapeMoveOn, ShapeUndo DEF Cleanup

LEMMA ShapeStep == ShapeInv /\ [HostNext]_vars => ShapeInv'
<1> SUFFICES ASSUME ShapeInv, [HostNext]_vars
             PROVE  ShapeInv'
  OBVIOUS
<1>0. LockInv'
  BY HostLockStep, LockInvStep DEF ShapeInv
<1>1. CASE \E p \in Procs : Instance(p) \/ Rewrite(p) \/ Stop(p) \/ KillInstance(p)
  <2> PICK p \in Procs : Instance(p) \/ Rewrite(p) \/ Stop(p) \/ KillInstance(p)
    BY <1>1
  <2>1. p \in Actors /\ HostTypes' /\ Local(p) /\ ShapeOf(p)'
    BY ShapeInstance DEF Actors
  <2> QED
    BY <1>0, <2>1, OthersShape DEF ShapeInv
<1>2. CASE \E c \in Cleaners : Cleanup(c) \/ KillCleaner(c)
  <2> PICK c \in Cleaners : Cleanup(c) \/ KillCleaner(c)
    BY <1>2
  <2>1. c \in Actors /\ HostTypes' /\ Local(c) /\ ShapeOf(c)'
    BY ShapeCleanup DEF Actors
  <2> QED
    BY <1>0, <2>1, OthersShape DEF ShapeInv
<1>3. CASE \E s \in Services, v \in Values : UserSetsDNS(s, v)
  <2>1. HostTypes' /\ UNCHANGED <<mem, ctl>>
    BY <1>3, UserFields
  <2>2. \A x \in Actors : ShapeOf(x)'
    BY <2>1 DEF ShapeInv, ShapeOf, CleanerShape, InstanceShape, Toward
  <2> QED
    BY <1>0, <2>1, <2>2 DEF ShapeInv
<1>4. CASE UNCHANGED vars
  <2>1. UNCHANGED <<dns, base, routes, tun, state, mem, ctl, faults>>
    BY <1>4 DEF vars, hostVars
  <2>2. HostTypes'
    BY <2>1 DEF ShapeInv, HostTypes
  <2>3. \A x \in Actors : ShapeOf(x)'
    BY <2>1 DEF ShapeInv, ShapeOf, CleanerShape, InstanceShape, Toward
  <2> QED
    BY <1>0, <2>2, <2>3 DEF ShapeInv
<1> QED
  BY <1>1, <1>2, <1>3, <1>4 DEF HostNext

LEMMA ShapeInit == HostInit => ShapeInv
<1> SUFFICES ASSUME HostInit
             PROVE  ShapeInv
  OBVIOUS
<1>1. LockInv
  BY LockInvInit DEF HostInit
<1>2. ctl = [x \in Actors |-> NewCtl(x)] /\ \A x \in Actors : NewCtl(x) \in CtlType
  BY HostAssumption, StageNames DEF HostInit, NewCtl, CtlType
<1>3. HostTypes
  BY <1>2, HostAssumption DEF HostInit, HostTypes, Values
<1>4. \A x \in Actors : ShapeOf(x)
  BY <1>2, LockAssumption DEF ShapeOf, CleanerShape, InstanceShape, CleanerStages, Toward, NewCtl
<1> QED
  BY <1>1, <1>3, <1>4 DEF ShapeInv

----------------------------------------------------------------------------
(* The history variables *)

\* Only the first record of a start and the claim of a recovery note an overtaking, only the
\* user adds to late; nothing is forgotten.
Silent == UNCHANGED ghost

LEMMA UndoSilent ==
    ASSUME NEW x \in Actors, Undo(x)
    PROVE  Silent
BY DEF Undo, Save, SetRestored, RemoveRoute, Remove, Restore, RestoreDone, Restored, RoutesDone,
   UnlockStep, Silent

LEMMA InstanceSilent ==
    ASSUME NEW p \in Procs, Instance(p) \/ Rewrite(p) \/ Stop(p) \/ KillInstance(p),
           ~\E ok \in BOOLEAN : FirstSave(p, ok)
    PROVE  Silent
<1>1. CASE Undo(p)
  BY <1>1, UndoSilent DEF Actors
<1>2. CASE ~Undo(p)
  BY <1>2 DEF Instance, CheckState, AcquireStep, CreateTun, AddRoute, PlanDNS, Finish, CloseDevice,
     RecordRoute, Apply, Rewrite, Stop, KillInstance, Silent
<1> QED
  BY <1>1, <1>2

LEMMA CleanerSilent ==
    ASSUME NEW c \in Cleaners, Cleanup(c) \/ KillCleaner(c), ~(ClaimStep(c) \/ ProbeProcess(c))
    PROVE  Silent
<1>1. CASE Undo(c)
  BY <1>1, UndoSilent DEF Actors
<1>2. CASE ~Undo(c)
  BY <1>2 DEF Cleanup, ReadState, RemoveStale, Abort, KillCleaner, Silent
<1> QED
  BY <1>1, <1>2

LEMMA GhostStep ==
    ASSUME late \subseteq Services, overtaken \in BOOLEAN, [HostNext]_vars
    PROVE  late' \subseteq Services /\ overtaken' \in BOOLEAN /\ (overtaken => overtaken')
<1>1. CASE Silent
  BY <1>1 DEF Silent, ghost
<1>2. CASE \E p \in Procs, ok \in BOOLEAN : FirstSave(p, ok)
  BY <1>2 DEF FirstSave
<1>3. CASE \E c \in Cleaners : ClaimStep(c) \/ ProbeProcess(c)
  BY <1>3 DEF ClaimStep, ProbeProcess, BeginCleaning
<1>4. CASE \E s \in Services, v \in Values : UserSetsDNS(s, v)
  BY <1>4 DEF UserSetsDNS
<1>5. CASE UNCHANGED vars
  BY <1>5 DEF vars, hostVars, ghost
<1> QED
  BY <1>1, <1>2, <1>3, <1>4, <1>5, InstanceSilent, CleanerSilent DEF HostNext

\* The host, the recovery record and every process's place in its program have their types,
\* in any interleaving of starts, stops, recoveries and kills (Run, finish, cleanup).
THEOREM HostTypeCorrect == HostSpec => []HostTypeOK
<1> DEFINE Typed == ShapeInv /\ late \subseteq Services /\ overtaken \in BOOLEAN
<1>1. Typed => HostTypeOK
  BY DEF ShapeInv, HostTypes, HostTypeOK, LockInv, CtlType
<1>2. HostInit => Typed
  BY ShapeInit DEF HostInit
<1>3. Typed /\ [HostNext]_vars => Typed'
  BY ShapeStep, GhostStep
<1> QED
  BY <1>1, <1>2, <1>3, PTL DEF HostSpec

\* Run, finish and cleanup use the lock file as daemon.Acquire, Lock.Close, TryClaimStale and
\* RemoveStale prescribe: whatever they do is a behaviour of the lock protocol, so what is proved
\* of that (no foreign inode is unlinked, no live instance's file is claimed) holds of the whole
\* program.
THEOREM HostUsesLock == HostSpec => LockSpec
<1>1. HostInit => LockInit
  BY DEF HostInit
<1> QED
  BY <1>1, ShapeInit, ShapeStep, HostLockStep, PTL DEF HostSpec, LockSpec

----------------------------------------------------------------------------
(* How starts and recoveries use the lock file *)

\* An instance has got its lock: its PID is in the file that it opened, or was.
NotYet == {"start", "opened", "locked", "truncated"}
Entered(p) == lpc[p] \notin NotYet

\* No two files hold the same PID.
PidOnce == \A i, j \in Inodes : pid[i] = pid[j] /\ pid[i] # Nil => i = j

\* The inode that a process will create is not in use.
Fresh == \A p \in Procs : lpc[p] = "start" => path # p /\ pid[p] = Nil /\ \A x \in Actors : fd[x] # p

\* A recovery that holds a file has found the recorded PID in it; one that found no file
\* will find no file with that PID.
ClaimPlace(c) ==
    /\ lpc[c] \in {"held", "removing"} => pid[fd[c]] = mem[c].pid
    /\ ctl[c].at = "claim" /\ lpc[c] = "missing" /\ path # Nil => pid[path] # mem[c].pid

LockUse ==
    /\ PidOnce /\ Fresh
    /\ state # Nil => Entered(state.pid)
    /\ \A x \in Actors : mem[x] # Nil => Entered(mem[x].pid)
    /\ \A x \in Actors : ctl[x].at = "check" => lpc[x] = "start"
    /\ \A c \in Cleaners : ClaimPlace(c)

\* A system call on the lock file moves only its caller.
LEMMA LockLocal ==
    ASSUME LockTypeOK, NEW x \in Actors, AnyStep(x) \/ UNCHANGED lockVars
    PROVE  \A y \in Actors \ {x} : lpc'[y] = lpc[y] /\ fd'[y] = fd[y]
<1>1. CASE UNCHANGED lockVars
  BY <1>1 DEF lockVars
<1>2. CASE AnyStep(x)
  BY <1>2 DEF AnyStep, Open, Truncate, WritePid, AcquireFails, ClaimOpen, ClaimClose, Claim, ClaimMismatch,
     Flock, FlockBusy, CloseCheck, CloseRemove, CloseUnlock, Kill, Leave, GotoLock, LockTypeOK
<1> QED
  BY <1>1, <1>2

\* The steps that change neither the path nor a PID nor open a file.
Plain(x) ==
    /\ UNCHANGED <<path, pid>>
    /\ fd' = fd \/ fd' = [fd EXCEPT ![x] = Nil] \/ (x \in Cleaners /\ fd' = [fd EXCEPT ![x] = path])

LEMMA StepKinds ==
    ASSUME NEW x \in Actors, AnyStep(x)
    PROVE  \/ Plain(x)
           \/ x \in Procs /\ (Open(x) \/ Truncate(x) \/ WritePid(x))
           \/ \E ok \in BOOLEAN : CloseRemove(x, ok)
BY DEF AnyStep, Plain, AcquireFails, ClaimOpen, ClaimClose, Claim, ClaimMismatch,
   Flock, FlockBusy, CloseCheck, CloseUnlock, Kill, Leave

\* Nobody gives up what it has entered, and nobody starts over.
LEMMA EnteredStays ==
    ASSUME LockInv, NEW x \in Actors, AnyStep(x) \/ UNCHANGED lockVars, NEW p \in Procs
    PROVE  /\ Entered(p) => lpc'[p] \notin NotYet
           /\ lpc'[p] = "start" => lpc[p] = "start"
<1>0. p \in Actors /\ p \notin Cleaners
  BY LockAssumption DEF Actors
<1>1. CASE x # p \/ UNCHANGED lockVars
  BY <1>0, <1>1, LockLocal DEF LockInv, Entered, NotYet, lockVars
<1>2. CASE x = p /\ AnyStep(p)
  BY <1>0, <1>2 DEF AnyStep, Open, Truncate, WritePid, AcquireFails,
     Flock, FlockBusy, CloseCheck, CloseRemove, CloseUnlock, Kill, Leave, GotoLock, LockInv, LockTypeOK, Entered, NotYet
<1> QED
  BY <1>1, <1>2

LEMMA PidOnceStep ==
    ASSUME LockInv, PidOnce, NEW x \in Actors, AnyStep(x) \/ UNCHANGED lockVars
    PROVE  PidOnce'
<1>0. pid \in [Inodes -> Procs \cup {Nil}]
  BY DEF LockInv, LockTypeOK
<1>1. CASE UNCHANGED pid
  BY <1>1 DEF PidOnce
<1>2. CASE x \in Procs /\ Truncate(x)
  BY <1>0, <1>2 DEF Truncate, PidOnce
<1>3. CASE x \in Procs /\ WritePid(x)
  <2>1. lpc[x] = "truncated" /\ pid' = [pid EXCEPT ![fd[x]] = x]
    BY <1>3 DEF WritePid
  <2>2. \A i \in Inodes : pid[i] # x
    BY <1>3, <2>1, LockAssumption DEF LockInv, PidWriter
  <2> QED
    BY <1>0, <2>1, <2>2 DEF PidOnce
<1> QED
  BY <1>1, <1>2, <1>3, StepKinds DEF Plain, Open, CloseRemove, lockVars

LEMMA FreshStep ==
    ASSUME LockInv, Fresh, NEW x \in Actors, AnyStep(x) \/ UNCHANGED lockVars
    PROVE  Fresh'
<1> SUFFICES ASSUME NEW p \in Procs, lpc'[p] = "start"
             PROVE  path' # p /\ pid'[p] = Nil /\ \A y \in Actors : fd'[y] # p
  BY DEF Fresh
<1>1. lpc[p] = "start" /\ path # p /\ pid[p] = Nil /\ \A y \in Actors : fd[y] # p
  BY EnteredStays DEF Fresh
<1>2. /\ fd \in [Actors -> Inodes \cup {Nil}] /\ pid \in [Inodes -> Procs \cup {Nil}] /\ p \in Inodes
      /\ lpc \in [Actors -> Steps] /\ p # Nil
  BY LockAssumption DEF LockInv, LockTypeOK, Inodes
<1>3. CASE UNCHANGED lockVars
  BY <1>1, <1>3 DEF lockVars
<1>4. CASE Plain(x)
  BY <1>1, <1>2, <1>4 DEF Plain
<1>5. CASE x \in Procs /\ Open(x)
  <2>1. x # p
    BY <1>2, <1>5 DEF Open, GotoLock, Actors
  <2> QED
    BY <1>1, <1>2, <1>5, <2>1 DEF Open
<1>6. CASE x \in Procs /\ (Truncate(x) \/ WritePid(x))
  <2>1. fd[x] # p /\ fd' = fd /\ path' = path
    BY <1>1, <1>6 DEF Truncate, WritePid
  <2> QED
    BY <1>1, <1>2, <1>6, <2>1 DEF Truncate, WritePid
<1>7. CASE \E ok \in BOOLEAN : CloseRemove(x, ok)
  BY <1>1, <1>2, <1>7 DEF CloseRemove
<1> QED
  BY <1>3, <1>4, <1>5, <1>6, <1>7, StepKinds

\* No file with the PID of an instance that has entered appears at the path.
LEMMA NoNewFile ==
    ASSUME LockInv, Fresh, NEW x \in Actors, AnyStep(x) \/ UNCHANGED lockVars,
           NEW q \in Procs, Entered(q), path' # Nil, pid'[path'] = q
    PROVE  path # Nil /\ pid[path] = q
<1>2. /\ path \in Inodes \cup {Nil} /\ pid \in [Inodes -> Procs \cup {Nil}] /\ q # Nil
      /\ fd \in [Actors -> Inodes \cup {Nil}]
  BY LockAssumption DEF LockInv, LockTypeOK, Inodes
<1>3. CASE UNCHANGED lockVars
  BY <1>3 DEF lockVars
<1>4. CASE Plain(x)
  BY <1>4 DEF Plain
<1>5. CASE x \in Procs /\ Open(x)
  BY <1>2, <1>5 DEF Open, Fresh
<1>6. CASE x \in Procs /\ Truncate(x)
  BY <1>2, <1>6 DEF Truncate
<1>7. CASE x \in Procs /\ WritePid(x)
  <2>1. x # q /\ path' = path /\ pid' = [pid EXCEPT ![fd[x]] = x]
    BY <1>7 DEF WritePid, Entered, NotYet
  <2> QED
    BY <1>2, <2>1
<1>8. CASE \E ok \in BOOLEAN : CloseRemove(x, ok)
  BY <1>2, <1>8 DEF CloseRemove
<1> QED
  BY <1>3, <1>4, <1>5, <1>6, <1>7, <1>8, StepKinds

\* A recovery gets hold of a file by Claim only, and the PID in it stays.
LEMMA HoldsClaim ==
    ASSUME LockInv, NEW x \in Actors, AnyStep(x) \/ UNCHANGED lockVars,
           NEW c \in Cleaners, lpc'[c] \in {"held", "removing"}
    PROVE  /\ fd'[c] = fd[c] /\ pid'[fd[c]] = pid[fd[c]]
           /\ lpc[c] \in {"held", "removing"} \/ (x = c /\ lpc[c] = "locked" /\ lpc'[c] = "held")
<1>0. c \in Actors /\ c \notin Procs
  BY LockAssumption DEF Actors
<1>1. /\ lpc \in [Actors -> Steps] /\ fd \in [Actors -> Inodes \cup {Nil}]
      /\ pid \in [Inodes -> Procs \cup {Nil}]
  BY DEF LockInv, LockTypeOK
<1>2. CASE UNCHANGED lockVars
  BY <1>2 DEF lockVars
<1>3. CASE x = c /\ AnyStep(c)
  BY <1>0, <1>1, <1>3 DEF AnyStep, ClaimOpen, ClaimClose, Claim, ClaimMismatch,
     Flock, FlockBusy, CloseCheck, CloseRemove, CloseUnlock, Kill, Leave, GotoLock
<1>4. CASE x # c /\ AnyStep(x)
  <2>1. lpc'[c] = lpc[c] /\ fd'[c] = fd[c]
    BY <1>0, <1>4, LockLocal DEF LockInv
  <2>2. CASE UNCHANGED pid
    BY <2>1, <2>2
  <2>3. CASE x \in Procs /\ (Truncate(x) \/ WritePid(x))
    <3>1. lpc[x] \in Owning /\ lpc[c] \in Owning
      BY <2>1, <2>3 DEF Truncate, WritePid, Owning
    <3>2. fd[x] # fd[c]
      BY <1>0, <1>4, <3>1, OneOwner
    <3>3. fd[c] \in Inodes
      BY <1>0, <3>1, LockAssumption DEF LockInv, LockTypeOK
    <3> QED
      BY <1>1, <2>1, <2>3, <3>2, <3>3 DEF Truncate, WritePid
  <2> QED
    BY <1>4, <2>2, <2>3, StepKinds DEF Plain, Open, CloseRemove
<1> QED
  BY <1>2, <1>3, <1>4

\* Where the PIDs in the records come from: an instance's own, or the record that a recovery read.
RecordMoves(x) ==
    /\ mem'[x] # Nil => \/ mem[x] # Nil /\ mem'[x].pid = mem[x].pid
                        \/ x \in Cleaners /\ ctl[x].at = "check" /\ UNCHANGED lockVars /\ mem'[x] = state
                        \/ x \in Procs /\ mem'[x].pid = x /\ lpc'[x] = "held"
    /\ state' \in {state, Nil} \/ (mem[x] # Nil /\ state' = mem[x])
    /\ ctl'[x].at # "check" /\ (ctl[x].at = "check" => UNCHANGED lockVars)
    /\ x \in Cleaners =>
         /\ ctl[x].at # "check" => mem[x] # Nil /\ mem'[x].pid = mem[x].pid
         /\ ctl'[x].at = "claim" => ctl[x].at \in {"check", "claim"}
         /\ lpc[x] = "locked" /\ lpc'[x] = "held" => pid[fd[x]] = mem[x].pid

LEMMA NilIsNoState == \A r \in State : r # Nil
BY MarkerAssumption

\* What follows from the memory and the record keeping their PID.
LEMMA UndoMoves ==
    ASSUME ShapeInv, NEW x \in Actors, Undo(x)
    PROVE  RecordMoves(x)
<1>1. /\ mem[x] \in State /\ ctl[x].at \notin {"check", "claim"}
  <2>1. ctl[x].at \notin {"check", "claim", "lock", "done"}
    BY DEF Undo, Save, SetRestored, RemoveRoute, Remove, Restore, RestoreDone, Restored, RoutesDone, UnlockStep, At
  <2> QED
    BY <2>1, RecordInMemory
<1>2. /\ mem'[x].pid = mem[x].pid /\ state' \in {state, Nil, mem[x]} /\ ctl'[x].at \notin {"check", "claim"}
  <2>1. CASE \E ok \in BOOLEAN : Save(x, ok)
    <3>1. ctl[x].then \notin {"check", "claim"}
      BY <2>1, TypesNow, SaveFields DEF ShapeOf, CleanerShape, InstanceShape, Actors
    <3> QED
      BY <2>1, <3>1, SaveFields
  <2>2. CASE \E ok \in BOOLEAN : SetRestored(x, ok)
    BY <2>2, SetRestoredFields
  <2>3. CASE \E ok \in BOOLEAN : RemoveRoute(x, ok)
    BY <2>3, RemoveRouteFields
  <2>4. CASE \E ok \in BOOLEAN : Remove(x, ok)
    BY <2>4, RemoveFields
  <2>5. CASE \E s \in Services, ok \in BOOLEAN : Restore(x, s, ok)
    <3> PICK s \in Services, ok \in BOOLEAN : Restore(x, s, ok)
      BY <2>5
    <3> QED
      BY RestoreFields
  <2>6. CASE RestoreDone(x) \/ Restored(x) \/ RoutesDone(x)
    BY <2>6, QuietFields
  <2>7. CASE UnlockStep(x)
    BY <2>7, UnlockFields
  <2> QED
    BY <2>1, <2>2, <2>3, <2>4, <2>5, <2>6, <2>7 DEF Undo
<1>3. ~(lpc[x] = "locked" /\ lpc'[x] = "held")
  <2>1. CASE UnlockStep(x)
    BY <2>1 DEF UnlockStep, CloseCheck, CloseRemove, CloseUnlock
  <2>2. CASE ~UnlockStep(x)
    BY <2>2 DEF Undo, Save, SetRestored, RemoveRoute, Remove, Restore, RestoreDone, Restored, RoutesDone, lockVars
  <2> QED
    BY <2>1, <2>2
<1> QED
  BY <1>1, <1>2, <1>3, NilIsNoState DEF RecordMoves

LEMMA InstanceMoves ==
    ASSUME ShapeInv, NEW p \in Procs, Instance(p) \/ Rewrite(p) \/ Stop(p) \/ KillInstance(p)
    PROVE  RecordMoves(p)
<1>0. p \in Actors /\ p \notin Cleaners
  BY LockAssumption DEF Actors
<1>1. CASE Undo(p)
  BY <1>0, <1>1, UndoMoves
<1>2. CASE CheckState(p)
  <2>1. UNCHANGED <<lockVars, mem, state>> /\ \E a \in {"lock", "done"} : Go(p, a)
    BY <1>2 DEF CheckState
  <2>2. ctl'[p].at # "check"
    BY <1>0, <2>1, GoFacts, StageNames, TypesNow
  <2> QED
    BY <1>0, <2>1, <2>2 DEF RecordMoves
<1>3. CASE AcquireStep(p)
  <2>1. /\ ctl[p].at = "lock" /\ state' = state /\ \E a \in {"first", "lock", "done"} : Go(p, a)
        /\ mem' = [mem EXCEPT ![p] = IF lpc'[p] = "held" THEN NewState(p) ELSE @]
    BY <1>3 DEF AcquireStep, At
  <2>2. ctl'[p].at # "check"
    BY <1>0, <2>1, GoFacts, StageNames, TypesNow
  <2>3. mem'[p] = mem[p] \/ (lpc'[p] = "held" /\ mem'[p].pid = p)
    BY <1>0, <2>1, TypesNow DEF HostTypes, NewState
  <2> QED
    BY <1>0, <2>1, <2>2, <2>3 DEF RecordMoves
<1>4. CASE \E ok \in BOOLEAN : FirstSave(p, ok)
  <2> PICK ok \in BOOLEAN : FirstSave(p, ok)
    BY <1>4
  <2>1. ctl[p].at = "first" /\ mem' = mem /\ state' \in {state, mem[p]}
    BY DEF FirstSave, At, WriteState
  <2>2. ctl'[p].at \in {"tun", "unlock"}
    BY <1>0, TypesNow DEF FirstSave, CtlType
  <2>3. mem[p] \in State
    BY <1>0, <2>1, RecordInMemory
  <2> QED
    BY <1>0, <2>1, <2>2, <2>3, NilIsNoState DEF RecordMoves
<1>5. CASE \E ok \in BOOLEAN : CreateTun(p, ok)
  BY <1>0, <1>5, CreateTunFields, NilIsNoState DEF RecordMoves
<1>6. CASE \E ok \in BOOLEAN : AddRoute(p, ok)
  BY <1>0, <1>6, AddRouteFields, NilIsNoState DEF RecordMoves
<1>7. CASE \E ok \in BOOLEAN : PlanDNS(p, ok)
  BY <1>0, <1>7, PlanDNSFields, NilIsNoState DEF RecordMoves
<1>8. CASE \E ok \in BOOLEAN : Finish(p, ok)
  BY <1>0, <1>8, FinishFields, NilIsNoState DEF RecordMoves
<1>9. CASE \E ok \in BOOLEAN : CloseDevice(p, ok)
  BY <1>0, <1>9, CloseDeviceFields, NilIsNoState DEF RecordMoves
<1>10. CASE RecordRoute(p)
  BY <1>0, <1>10, RecordRouteFields, NilIsNoState DEF RecordMoves
<1>11. CASE \E s \in Services, ok \in BOOLEAN : Apply(p, s, ok)
  <2> PICK s \in Services, ok \in BOOLEAN : Apply(p, s, ok)
    BY <1>11
  <2> QED
    BY <1>0, ApplyFields, NilIsNoState DEF RecordMoves
<1>12. CASE Rewrite(p) \/ Stop(p)
  <2>1. ctl[p].at = "running" /\ mem' = mem /\ state' \in {state, mem[p]} /\ (ctl' = ctl \/ Go(p, "finish"))
    BY <1>12 DEF Rewrite, Stop, At
  <2>2. ctl'[p].at # "check"
    BY <1>0, <2>1, GoFacts, StageNames, TypesNow
  <2>3. mem[p] \in State
    BY <1>0, <2>1, RecordInMemory
  <2> QED
    BY <1>0, <2>1, <2>2, <2>3, NilIsNoState DEF RecordMoves
<1>13. CASE KillInstance(p)
  BY <1>0, <1>13, KillInstanceFields DEF RecordMoves
<1> QED
  BY <1>1, <1>2, <1>3, <1>4, <1>5, <1>6, <1>7, <1>8, <1>9, <1>10, <1>11, <1>12, <1>13 DEF Instance

LEMMA CleanerMoves ==
    ASSUME ShapeInv, NEW c \in Cleaners, Cleanup(c) \/ KillCleaner(c)
    PROVE  RecordMoves(c)
<1>0. c \in Actors /\ c \notin Procs
  BY LockAssumption DEF Actors
<1>1. CASE Undo(c)
  BY <1>0, <1>1, UndoMoves
<1>2. CASE ReadState(c)
  BY <1>0, <1>2, ReadStateFields DEF RecordMoves, lockVars
<1>3. CASE ClaimStep(c) \/ ProbeProcess(c)
  <2>1. lpc[c] = "locked" /\ lpc'[c] = "held" => pid[fd[c]] = mem[c].pid
    <3>1. \/ UNCHANGED lockVars \/ ClaimOpen(c) \/ Flock(c) \/ FlockBusy(c)
          \/ Claim(c, mem[c].pid) \/ ClaimMismatch(c, mem[c].pid)
      BY <1>3 DEF ClaimStep, ProbeProcess
    <3>2. CASE ClaimMismatch(c, mem[c].pid)
      BY <1>0, <3>2 DEF ClaimMismatch, Leave, GotoLock, ShapeInv, LockInv, LockTypeOK
    <3> QED
      BY <3>1, <3>2 DEF ClaimOpen, Flock, FlockBusy, Claim, lockVars
  <2> QED
    BY <1>0, <1>3, <2>1, ClaimFields, NilIsNoState DEF RecordMoves
<1>4. CASE RemoveStale(c) \/ Abort(c) \/ KillCleaner(c)
  <2>1. lpc[c] = "locked" /\ lpc'[c] = "held" => pid[fd[c]] = mem[c].pid
    <3>1. \/ UNCHANGED lockVars \/ ClaimOpen(c) \/ Flock(c) \/ FlockBusy(c)
          \/ Claim(c, mem[c].pid) \/ ClaimMismatch(c, mem[c].pid) \/ ClaimClose(c) \/ Kill(c)
      BY <1>4 DEF RemoveStale, Abort, KillCleaner
    <3>2. CASE ClaimMismatch(c, mem[c].pid) \/ ClaimClose(c) \/ Kill(c)
      BY <1>0, <3>2 DEF ClaimMismatch, ClaimClose, Kill, Leave, GotoLock, ShapeInv, LockInv, LockTypeOK
    <3> QED
      BY <3>1, <3>2 DEF ClaimOpen, Flock, FlockBusy, Claim, lockVars
  <2> QED
    BY <1>0, <1>4, <2>1, MoveOnFields, NilIsNoState DEF RecordMoves
<1> QED
  BY <1>1, <1>2, <1>3, <1>4 DEF Cleanup

\* A recovery finds no lock file only when there is none.
LEMMA Missing ==
    ASSUME LockInv, NEW x \in Actors, AnyStep(x) \/ UNCHANGED lockVars, NEW c \in Cleaners,
           lpc'[c] = "missing", path' # Nil
    PROVE  lpc[c] = "missing"
<1>0. c \in Actors /\ c \notin Procs /\ lpc \in [Actors -> Steps]
  BY LockAssumption DEF Actors, LockInv, LockTypeOK
<1>1. CASE x # c \/ UNCHANGED lockVars
  BY <1>0, <1>1, LockLocal DEF LockInv, lockVars
<1>2. CASE x = c /\ AnyStep(c)
  BY <1>0, <1>2 DEF AnyStep, ClaimOpen, ClaimClose, Claim, ClaimMismatch,
     Flock, FlockBusy, CloseCheck, CloseRemove, CloseUnlock, Kill, Leave, GotoLock
<1> QED
  BY <1>1, <1>2

LEMMA LockUseKept ==
    ASSUME ShapeInv, ShapeInv', LockUse, NEW x \in Actors, AnyStep(x) \/ UNCHANGED lockVars, Local(x), RecordMoves(x)
    PROVE  LockUse'
<1>0. LockInv /\ HostTypes /\ HostTypes'
  BY DEF ShapeInv
<1>1. PidOnce' /\ Fresh'
  BY <1>0, PidOnceStep, FreshStep DEF LockUse
<1>a. \A r \in State : r.pid \in Procs
  BY DEF State
<1>2. ASSUME NEW y \in Actors, mem'[y] # Nil PROVE lpc'[mem'[y].pid] \notin NotYet
  <2>1. CASE y # x
    <3>1. mem'[y] = mem[y] /\ mem[y] \in State /\ Entered(mem[y].pid)
      BY <1>0, <1>2, <2>1 DEF Local, LockUse, HostTypes
    <3> QED
      BY <1>0, <1>a, <3>1, EnteredStays
  <2>2. CASE y = x
    <3>1. CASE mem[x] # Nil /\ mem'[x].pid = mem[x].pid
      <4>1. mem[x] \in State /\ Entered(mem[x].pid)
        BY <1>0, <3>1 DEF LockUse, HostTypes
      <4> QED
        BY <1>0, <1>a, <2>2, <3>1, <4>1, EnteredStays
    <3>2. CASE mem'[x] = state
      <4>1. state \in State /\ Entered(state.pid)
        BY <1>0, <1>2, <2>2, <3>2 DEF LockUse, HostTypes
      <4> QED
        BY <1>0, <1>a, <2>2, <3>2, <4>1, EnteredStays
    <3>3. CASE mem'[x].pid = x /\ lpc'[x] = "held"
      BY <2>2, <3>3 DEF NotYet
    <3> QED
      BY <1>2, <2>2, <3>1, <3>2, <3>3 DEF RecordMoves
  <2> QED
    BY <2>1, <2>2
<1>3. state' # Nil => lpc'[state'.pid] \notin NotYet
  <2> SUFFICES ASSUME state' # Nil PROVE lpc'[state'.pid] \notin NotYet
    OBVIOUS
  <2>1. PICK r \in {state, mem[x]} : r # Nil /\ state' = r
    BY DEF RecordMoves
  <2>2. r \in State /\ Entered(r.pid)
    BY <1>0, <2>1 DEF LockUse, HostTypes
  <2> QED
    BY <1>0, <1>a, <2>1, <2>2, EnteredStays
<1>4. ASSUME NEW y \in Actors, ctl'[y].at = "check" PROVE lpc'[y] = "start"
  <2>1. y # x /\ ctl[y].at = "check"
    BY <1>4 DEF RecordMoves, Local
  <2> QED
    BY <1>0, <2>1, LockLocal DEF LockInv, LockUse
<1>5. ASSUME NEW c \in Cleaners PROVE ClaimPlace(c)'
  <2>0. c \in Actors /\ ClaimPlace(c)
    BY DEF Actors, LockUse
  <2>1. ctl[c].at = "check" => lpc[c] = "start"
    BY <2>0 DEF LockUse
  <2>2. c # x => mem'[c] = mem[c] /\ ctl'[c] = ctl[c]
    BY <2>0 DEF Local
  <2>3. lpc'[c] \in {"held", "removing"} => pid'[fd'[c]] = mem'[c].pid
    <3> SUFFICES ASSUME lpc'[c] \in {"held", "removing"} PROVE pid'[fd'[c]] = mem'[c].pid
      OBVIOUS
    <3>1. /\ fd'[c] = fd[c] /\ pid'[fd[c]] = pid[fd[c]]
          /\ lpc[c] \in {"held", "removing"} \/ (x = c /\ lpc[c] = "locked" /\ lpc'[c] = "held")
      BY <1>0, HoldsClaim
    <3>2. pid[fd[c]] = mem[c].pid
      BY <2>0, <3>1 DEF ClaimPlace, RecordMoves
    <3>3. mem'[c].pid = mem[c].pid
      BY <2>1, <2>2, <3>1 DEF RecordMoves
    <3> QED
      BY <3>1, <3>2, <3>3
  <2>4. ctl'[c].at = "claim" /\ lpc'[c] = "missing" /\ path' # Nil => pid'[path'] # mem'[c].pid
    <3> SUFFICES ASSUME ctl'[c].at = "claim", lpc'[c] = "missing", path' # Nil, pid'[path'] = mem'[c].pid
                 PROVE  FALSE
      OBVIOUS
    <3>1. lpc[c] = "missing"
      BY <1>0, Missing
    <3>2. ctl[c].at = "claim" /\ mem'[c].pid = mem[c].pid
      BY <2>1, <2>2, <3>1 DEF RecordMoves
    <3>3. mem[c] \in State
      BY <2>0, <3>2, RecordInMemory
    <3>4. mem[c].pid \in Procs /\ Entered(mem[c].pid)
      BY <1>a, <2>0, <3>3, NilIsNoState DEF LockUse
    <3>5. path # Nil /\ pid[path] = mem[c].pid
      BY <1>0, <3>2, <3>4, NoNewFile DEF LockUse
    <3> QED
      BY <2>0, <3>1, <3>2, <3>5 DEF ClaimPlace
  <2> QED
    BY <2>3, <2>4 DEF ClaimPlace
<1> QED
  BY <1>1, <1>2, <1>3, <1>4, <1>5 DEF LockUse, Entered

LEMMA LockUseStep == ShapeInv /\ LockUse /\ [HostNext]_vars => LockUse'
<1> SUFFICES ASSUME ShapeInv, LockUse, [HostNext]_vars
             PROVE  LockUse'
  OBVIOUS
<1>0. ShapeInv'
  BY ShapeStep
<1>1. CASE \E p \in Procs : Instance(p) \/ Rewrite(p) \/ Stop(p) \/ KillInstance(p)
  <2> PICK p \in Procs : Instance(p) \/ Rewrite(p) \/ Stop(p) \/ KillInstance(p)
    BY <1>1
  <2>1. p \in Actors /\ Local(p) /\ RecordMoves(p) /\ (AnyStep(p) \/ UNCHANGED lockVars)
    BY ShapeInstance, InstanceMoves, InstanceLockStep DEF Actors
  <2> QED
    BY <1>0, <2>1, LockUseKept
<1>2. CASE \E c \in Cleaners : Cleanup(c) \/ KillCleaner(c)
  <2> PICK c \in Cleaners : Cleanup(c) \/ KillCleaner(c)
    BY <1>2
  <2>1. c \in Actors /\ Local(c) /\ RecordMoves(c) /\ (AnyStep(c) \/ UNCHANGED lockVars)
    BY ShapeCleanup, CleanerMoves, CleanerLockStep DEF Actors
  <2> QED
    BY <1>0, <2>1, LockUseKept
<1>3. CASE UNCHANGED <<lockVars, state, mem, ctl>>
  BY <1>3 DEF lockVars, LockUse, PidOnce, Fresh, Entered, ClaimPlace
<1>4. CASE \E s \in Services, v \in Values : UserSetsDNS(s, v)
  BY <1>3, <1>4, UserFields
<1> QED
  BY <1>1, <1>2, <1>3, <1>4 DEF HostNext, vars, hostVars

----------------------------------------------------------------------------
(* What holds as long as nobody has overtaken another *)

\* A route through a utun exists only while the utun does, and that only while its instance does.
TunInv ==
    /\ \A p \in tun : ctl[p].at \notin {"check", "lock", "first", "unlock", "remove", "done"}
    /\ \A k \in Routes : routes[k] # Nil => IF k \in TunRoutes THEN routes[k] \in tun
                                            ELSE routes[k] = "phys"

Steady == Services \ late

WorldInv == UsersValue(Steady) /\ TunInv /\ RecordCovers(Steady)

\* The record on disk and the steps of a start: each change is recorded before it is made.
Before == {"check", "lock", "first", "tun", "route", "add", "dns", "apply", "running"}

StartOf(p) ==
    /\ Toward(p) \in Before => ~ctl[p].undoing
    /\ ctl[p].at \in {"check", "lock", "first", "tun"} => ctl[p].k = 1
    /\ ctl[p].at \in {"tun", "route", "add", "dns", "apply", "running"} => state = mem[p]
    /\ Toward(p) \in {"route", "add", "dns", "apply", "running"} => p \in tun
    /\ Toward(p) = "route" => ctl[p].k # 0
    /\ Toward(p) = "add" => ctl[p].k \in mem[p].routes
    /\ Toward(p) = "apply" => \A s \in ctl[p].todo \ late : mem[p].dns[s] = base[s]
    /\ Toward(p) \in {"route", "add"} => \A j \in Routes : j < ctl[p].k => routes[j] = Interface(j, p)
    /\ Toward(p) \in {"dns", "apply", "running"} => \A j \in Routes : routes[j] = Interface(j, p)

\* A record names every change in effect, with the value to go back to.
Covers(r) ==
    /\ \A s \in Steady : dns[s] = "applied" => r.dns[s] = base[s]
    /\ \A k \in Routes : routes[k] # Nil => k \in r.routes

\* What a process in charge has in memory covers the host, and the record is of the same
\* instance; the value it is about to set is the last one.
ChargeOf(x) ==
    /\ state # Nil /\ state.pid = mem[x].pid
    /\ Covers(mem[x])
    /\ ctl[x].at = "set" /\ ctl[x].svc \notin late => mem[x].dns[ctl[x].svc] = base[ctl[x].svc]

\* What has been undone: without an error, nothing is left behind.
Ending(x) == ctl[x].at = "device" \/ (ctl[x].at \in {"unlock", "remove"} /\ ctl[x].exists)

UndoOf(x) ==
    /\ Toward(x) \in {"restore", "set"} =>
         ctl[x].errors \/ \A s \in Services : mem[x].dns[s] # Nil => s \in ctl[x].todo
    /\ Toward(x) \in {"restored", "routes"} \/ Ending(x) =>
         ctl[x].errors \/ \A s \in Services : mem[x].dns[s] = Nil
    /\ Toward(x) = "routes" =>
         ctl[x].k <= NRoutes /\ (ctl[x].errors \/ \A j \in mem[x].routes : j <= ctl[x].k)
    /\ Ending(x) => ctl[x].errors \/ mem[x].routes = {}

ActorInv(x) ==
    /\ x \in Procs => StartOf(x)
    /\ InCharge(x) => ChargeOf(x)
    /\ UndoOf(x)

OneInCharge == \A x, y \in Actors : InCharge(x) /\ InCharge(y) => x = y

Sole == OneInCharge /\ WorldInv /\ \A x \in Actors : ActorInv(x)

HostInv == ShapeInv /\ LockUse /\ late \subseteq Services /\ overtaken \in BOOLEAN /\ (~overtaken => Sole)

LEMMA InvNow ==
    ASSUME ShapeInv, Sole, NEW x \in Actors
    PROVE  /\ HostTypes /\ ShapeOf(x) /\ ctl[x] \in CtlType
           /\ WorldInv /\ UsersValue(Steady) /\ TunInv /\ RecordCovers(Steady)
           /\ ActorInv(x) /\ UndoOf(x) /\ (InCharge(x) => ChargeOf(x))
           /\ x \in Procs => StartOf(x)
BY TypesNow DEF Sole, ActorInv, WorldInv

\* A utun belongs to an instance that is in charge.
LEMMA TunInCharge ==
    ASSUME ShapeInv, Sole, NEW p \in tun
    PROVE  p \in Procs /\ p \in Actors /\ InCharge(p)
<1>1. p \in Procs /\ p \in Actors
  BY DEF ShapeInv, HostTypes, Actors
<1>2. /\ ctl[p].at \in Stages /\ ctl[p].at \notin {"claim", "abort"}
      /\ ctl[p].at \notin {"check", "lock", "first", "unlock", "remove", "done"}
  BY <1>1, InvNow DEF TunInv, CtlType, ShapeOf, InstanceShape
<1> QED
  BY <1>1, <1>2 DEF InCharge, Stages

LEMMA TunAlone ==
    ASSUME ShapeInv, Sole, NEW x \in Actors, \A y \in Actors \ {x} : ~InCharge(y)
    PROVE  tun \subseteq {x} /\ (x \notin Procs => tun = {}) /\ (~InCharge(x) => tun = {})
BY TunInCharge

LEMMA Alone ==
    ASSUME Sole, NEW x \in Actors, InCharge(x)
    PROVE  \A y \in Actors \ {x} : ~InCharge(y)
BY DEF Sole, OneInCharge

\* A process that is not in charge has nothing to say about the host.
LEMMA IdleStays ==
    ASSUME NEW y \in Actors, ActorInv(y), ~InCharge(y), ctl'[y] = ctl[y], mem'[y] = mem[y]
    PROVE  ActorInv(y)' /\ ~InCharge(y)'
<1>1. ~InCharge(y)'
  BY DEF InCharge
<1>2. Toward(y) = ctl[y].at /\ Toward(y)' = Toward(y) /\ ~Ending(y)
  BY DEF InCharge, Toward, Ending
<1>3. UndoOf(y)'
  BY <1>2 DEF ActorInv, UndoOf, Ending
<1>4. y \in Procs => StartOf(y)'
  BY <1>2 DEF ActorInv, StartOf, InCharge
<1> QED
  BY <1>1, <1>3, <1>4 DEF ActorInv

\* What is left to show of the step of a process that nobody is in charge beside: the host and
\* its own place.
LEMMA SoleStep ==
    ASSUME ShapeInv, Sole, NEW x \in Actors, \A y \in Actors \ {x} : ~InCharge(y), Local(x),
           WorldInv', ActorInv(x)'
    PROVE  Sole'
<1>1. ASSUME NEW y \in Actors, y # x PROVE ActorInv(y)' /\ ~InCharge(y)'
  BY <1>1, IdleStays, InvNow DEF Local
<1>2. OneInCharge'
  BY <1>1 DEF OneInCharge
<1> QED
  BY <1>1, <1>2 DEF Sole

LEMMA WorldSame ==
    ASSUME ShapeInv, Sole, NEW x \in Actors, UNCHANGED <<dns, base, routes, tun, state, late>>, Local(x),
           x \in tun => ctl'[x].at \notin {"check", "lock", "first", "unlock", "remove", "done"}
    PROVE  WorldInv'
<1>1. UsersValue(Steady)' /\ RecordCovers(Steady)'
  BY InvNow DEF UsersValue, RecordCovers, Steady
<1>2. \A p \in tun : ctl'[p].at \notin {"check", "lock", "first", "unlock", "remove", "done"}
  <2> SUFFICES ASSUME NEW p \in tun, p # x
               PROVE  ctl'[p].at \notin {"check", "lock", "first", "unlock", "remove", "done"}
    OBVIOUS
  <2>1. p \in Actors /\ ctl[p].at \notin {"check", "lock", "first", "unlock", "remove", "done"}
    BY InvNow DEF HostTypes, TunInv, Actors
  <2> QED
    BY <2>1 DEF Local
<1> QED
  BY <1>1, <1>2, InvNow DEF WorldInv, TunInv

\* A process that is not in charge, and does not take charge, leaves the others alone.
LEMMA AsideStep ==
    ASSUME ShapeInv, Sole, NEW x \in Actors, UNCHANGED <<dns, base, routes, tun, state, late>>, Local(x),
           ~InCharge(x), ~InCharge(x)', x \in Procs => StartOf(x)'
    PROVE  Sole'
<1>1. WorldInv'
  BY WorldSame, TunInCharge
<1>2. ActorInv(x)'
  <2>1. Toward(x)' = ctl'[x].at /\ ~Ending(x)'
    BY DEF InCharge, Toward, Ending
  <2>2. UndoOf(x)'
    BY <2>1 DEF UndoOf, InCharge
  <2> QED
    BY <2>2 DEF ActorInv
<1>3. ASSUME NEW y \in Actors, y # x PROVE ActorInv(y)' /\ (InCharge(y)' <=> InCharge(y))
  <2>1. ctl'[y] = ctl[y] /\ mem'[y] = mem[y] /\ Toward(y)' = Toward(y) /\ (Ending(y)' <=> Ending(y))
    BY <1>3 DEF Local, Toward, Ending
  <2>2. y \in Procs => StartOf(y)'
    BY <2>1, InvNow DEF StartOf
  <2>3. InCharge(y)' <=> InCharge(y)
    BY <2>1 DEF InCharge
  <2>4. InCharge(y)' => ChargeOf(y)'
    BY <2>1, <2>3, InvNow DEF ChargeOf, Covers, Steady
  <2>5. UndoOf(y)'
    BY <2>1, InvNow DEF UndoOf
  <2> QED
    BY <2>2, <2>3, <2>4, <2>5 DEF ActorInv
<1>4. OneInCharge'
  BY <1>3 DEF OneInCharge, Sole
<1> QED
  BY <1>1, <1>2, <1>3, <1>4 DEF Sole

\* When the record is written, from memory that covers the host, or left as it was.
LEMMA RecordKept ==
    ASSUME ShapeInv, Sole, NEW x \in Actors, InCharge(x), mem[x] \in State,
           UNCHANGED <<dns, base, routes, late>>, state' \in {state, mem[x]}
    PROVE  RecordCovers(Steady)' /\ state' # Nil /\ state'.pid = mem[x].pid
<1>1. Covers(mem[x]) /\ state # Nil /\ state.pid = mem[x].pid
  BY InvNow DEF ChargeOf
<1>2. CASE state' = state
  BY <1>1, <1>2, InvNow DEF RecordCovers, Steady
<1>3. CASE state' = mem[x]
  BY <1>1, <1>3, NilIsNoState DEF RecordCovers, Covers, Steady
<1> QED
  BY <1>2, <1>3

\* The steps of a process that is not in charge
LEMMA SoleCheckState ==
    ASSUME ShapeInv, Sole, NEW p \in Procs, CheckState(p)
    PROVE  Sole'
<1>0. /\ p \in Actors /\ p \notin Cleaners /\ ctl[p].at = "check"
      /\ UNCHANGED <<dns, base, routes, tun, state, mem, late>>
  BY LockAssumption DEF Actors, CheckState, At, ghost
<1>1. Local(p)
  BY ShapeCheckState
<1>2. ctl'[p].at \in {"lock", "done"} /\ ctl'[p].k = ctl[p].k /\ ctl'[p].undoing = ctl[p].undoing
  <2>1. PICK a \in {"done", "lock"} : Go(p, a)
    BY DEF CheckState
  <2>2. a \in Stages
    BY StageNames
  <2> QED
    BY <1>0, <2>1, <2>2, GoFacts, InvNow DEF HostTypes
<1>3. StartOf(p)'
  BY <1>0, <1>2, InvNow DEF StartOf, Toward, Before
<1>4. ~InCharge(p) /\ ~InCharge(p)'
  BY <1>0, <1>2 DEF InCharge
<1> QED
  BY <1>0, <1>1, <1>3, <1>4, AsideStep

LEMMA SoleAcquire ==
    ASSUME ShapeInv, Sole, NEW p \in Procs, AcquireStep(p)
    PROVE  Sole'
<1>0. /\ p \in Actors /\ p \notin Cleaners /\ ctl[p].at = "lock"
      /\ UNCHANGED <<dns, base, routes, tun, state, late>>
  BY LockAssumption DEF Actors, AcquireStep, At, ghost
<1>1. Local(p)
  BY ShapeAcquire
<1>2. ctl'[p].at \in {"first", "done", "lock"} /\ ctl'[p].k = ctl[p].k /\ ctl'[p].undoing = ctl[p].undoing
  <2>1. PICK a \in {"first", "done", "lock"} : Go(p, a)
    BY DEF AcquireStep
  <2>2. a \in Stages
    BY StageNames
  <2> QED
    BY <1>0, <2>1, <2>2, GoFacts, InvNow DEF HostTypes
<1>3. StartOf(p)'
  BY <1>0, <1>2, InvNow DEF StartOf, Toward, Before
<1>4. ~InCharge(p) /\ ~InCharge(p)'
  BY <1>0, <1>2 DEF InCharge
<1> QED
  BY <1>0, <1>1, <1>3, <1>4, AsideStep

LEMMA SoleReadState ==
    ASSUME ShapeInv, Sole, NEW c \in Cleaners, ReadState(c)
    PROVE  Sole'
<1>0. /\ c \in Actors /\ c \notin Procs /\ ctl[c].at = "check" /\ ctl'[c].at \in {"done", "claim"}
      /\ Local(c) /\ UNCHANGED <<dns, base, routes, tun, state>>
  BY ReadStateFields
<1>1. UNCHANGED late
  BY DEF ReadState, ghost
<1>2. ~InCharge(c) /\ ~InCharge(c)'
  BY <1>0 DEF InCharge
<1> QED
  BY <1>0, <1>1, <1>2, AsideStep

\* Taking charge: the first record is written only where there is none ...
LEMMA SoleFirstSave ==
    ASSUME ShapeInv, Sole, NEW p \in Procs, NEW ok \in BOOLEAN, FirstSave(p, ok), ~Overtakes(p, Nil)
    PROVE  Sole'
<1>0. /\ p \in Actors /\ p \notin Cleaners /\ ctl[p].at = "first"
      /\ UNCHANGED <<lockVars, dns, base, routes, tun, mem, late>>
      /\ WriteState(p, ok)
  BY LockAssumption DEF Actors, FirstSave, At
<1>1. Local(p) /\ state = Nil /\ ~InCharge(p)
  BY <1>0, ShapeFirstSave DEF Overtakes, InCharge
<1>a. \A y \in Actors : ~InCharge(y)
  BY <1>1, InvNow DEF ChargeOf
<1>b. tun = {}
  BY <1>0, <1>1, <1>a, TunAlone
<1>2. mem[p] \in State /\ mem[p].pid = p
  BY <1>0, InvNow DEF ShapeOf, InstanceShape
<1>3. /\ ctl'[p].at = (IF ok THEN "tun" ELSE "unlock") /\ ctl'[p].exists = ok
      /\ ctl'[p].k = ctl[p].k /\ ctl'[p].undoing = ctl[p].undoing
  BY <1>0, InvNow DEF FirstSave, HostTypes, CtlType
<1>4. (\A s \in Steady : dns[s] # "applied") /\ (\A k \in Routes : routes[k] = Nil)
  BY <1>0, <1>1, InvNow DEF RecordCovers
<1>5. WorldInv'
  <2>1. RecordCovers(Steady)'
    BY <1>0, <1>4 DEF RecordCovers, Steady
  <2> QED
    BY <1>0, <1>b, <2>1, InvNow DEF WorldInv, UsersValue, TunInv, Steady
<1>6. ok => state' = mem'[p]
  BY <1>0 DEF WriteState
<1>7. StartOf(p)'
  BY <1>0, <1>3, <1>6, InvNow DEF StartOf, Toward, Before
<1>8. InCharge(p)' => ChargeOf(p)'
  <2>1. InCharge(p)' => ok
    BY <1>3 DEF InCharge
  <2> QED
    BY <1>0, <1>2, <1>3, <1>4, <1>6, <2>1, NilIsNoState DEF ChargeOf, Covers, Steady
<1>9. UndoOf(p)'
  BY <1>3 DEF UndoOf, Ending, Toward
<1> QED
  BY <1>0, <1>1, <1>a, <1>5, <1>7, <1>8, <1>9, SoleStep DEF ActorInv

\* ... and a recovery begins only where nobody is in charge: another instance or recovery of the
\* record that it read would hold the file, and its PID would be in it.
LEMMA ClaimsAlone ==
    ASSUME ShapeInv, LockUse, Sole, NEW c \in Cleaners, ClaimStep(c) \/ ProbeProcess(c),
           ctl'[c].at = "save", ~Overtakes(c, mem[c]), NEW y \in Actors, InCharge(y)
    PROVE  FALSE
<1>0. c \in Actors /\ c \notin Procs /\ ctl[c].at = "claim" /\ mem[c] \in State /\ y # c
  BY ClaimFields DEF InCharge
<1>1. /\ state = mem[c] /\ lpc[y] \in {"held", "removing"} /\ fd[y] = path
  BY <1>0 DEF Overtakes
<1>2. mem[y].pid = mem[c].pid
  BY <1>1, InvNow DEF ChargeOf
<1>3. fd[y] \in Inodes /\ fd[y] # Nil /\ lpc[y] \in Owning
  BY <1>1, LockAssumption DEF ShapeInv, LockInv, LockTypeOK, Owning
<1>4. LockInv /\ lpc \in [Actors -> Steps] /\ mem[c].pid \in Procs
  BY <1>0 DEF ShapeInv, LockInv, LockTypeOK, State
<1>5. Claim(c, mem[c].pid) \/ ProbeProcess(c)
  <2> SUFFICES ASSUME ClaimStep(c), ~Claim(c, mem[c].pid) PROVE FALSE
    OBVIOUS
  <2>1. lpc'[c] # "held"
    BY <1>0, <1>4 DEF ClaimStep, ClaimOpen, Flock, FlockBusy, ClaimMismatch, Leave, GotoLock
  <2>2. \E a \in {"done", "claim"} : Go(c, a)
    BY <2>1 DEF ClaimStep
  <2> QED
    BY <1>0, <2>2, GoFacts, StageNames, InvNow DEF HostTypes
<1>6. CASE Claim(c, mem[c].pid)
  <2>1. lpc[c] = "locked" /\ pid[fd[c]] = mem[c].pid /\ fd[c] \in Inodes /\ lpc[c] \in Owning /\ mem[c].pid # Nil
    BY <1>0, <1>4, <1>6, LockAssumption DEF Claim, LockInv, LockTypeOK, Owning
  <2>2. CASE y \in Procs
    <3>1. mem[y].pid = y
      BY <2>2, InvNow DEF ShapeOf, InstanceShape, InCharge
    <3>2. fd[y] = fd[c]
      BY <1>1, <1>2, <1>4, <2>1, <3>1 DEF LockInv, PidWriter
    <3> QED
      BY <1>0, <1>3, <1>4, <2>1, <3>2, OneOwner
  <2>3. CASE y \in Cleaners
    <3>1. pid[fd[y]] = mem[y].pid
      BY <1>1, <2>3 DEF LockUse, ClaimPlace
    <3>2. fd[y] = fd[c]
      BY <1>2, <1>3, <2>1, <3>1 DEF LockUse, PidOnce
    <3> QED
      BY <1>0, <1>3, <1>4, <2>1, <3>2, OneOwner
  <2> QED
    BY <2>2, <2>3 DEF Actors
<1>7. CASE ProbeProcess(c)
  <2>0. lpc[c] = "missing" /\ ~Alive(mem[c].pid)
    <3>1. Alive(mem[c].pid) => Go(c, "done")
      BY <1>7 DEF ProbeProcess
    <3> QED
      BY <1>0, <1>7, <3>1, GoFacts, StageNames, InvNow DEF HostTypes, ProbeProcess
  <2>2. CASE y \in Procs
    <3>1. mem[y].pid = y
      BY <2>2, InvNow DEF ShapeOf, InstanceShape, InCharge
    <3> QED
      BY <1>2, <2>0, <3>1 DEF Alive, At, InCharge
  <2>3. CASE y \in Cleaners
    <3>1. pid[fd[y]] = mem[y].pid
      BY <1>1, <2>3 DEF LockUse, ClaimPlace
    <3> QED
      BY <1>0, <1>1, <1>2, <1>3, <2>0, <3>1 DEF LockUse, ClaimPlace
  <2> QED
    BY <2>2, <2>3 DEF Actors
<1> QED
  BY <1>5, <1>6, <1>7

LEMMA SoleClaim ==
    ASSUME ShapeInv, LockUse, Sole, NEW c \in Cleaners, ClaimStep(c) \/ ProbeProcess(c), ~overtaken'
    PROVE  Sole'
<1>0. /\ c \in Actors /\ c \notin Procs /\ ctl[c].at = "claim" /\ mem[c] \in State
      /\ Local(c) /\ UNCHANGED <<dns, base, routes, tun, state, mem>>
      /\ \/ ctl'[c].at \in {"done", "claim"}
         \/ ctl'[c].at = "save" /\ ctl'[c].then = "restore" /\ ctl'[c].todo = Recorded(c)
  BY ClaimFields
<1>1. UNCHANGED late
  BY DEF ClaimStep, ProbeProcess
<1>2. CASE ctl'[c].at \in {"done", "claim"}
  <2>1. ~InCharge(c) /\ ~InCharge(c)'
    BY <1>0, <1>2 DEF InCharge
  <2> QED
    BY <1>0, <1>1, <2>1, AsideStep
<1>3. CASE ctl'[c].at = "save" /\ ctl'[c].then = "restore" /\ ctl'[c].todo = Recorded(c)
  <2>1. BeginCleaning(c)
    <3> SUFFICES ASSUME ~BeginCleaning(c) PROVE FALSE
      OBVIOUS
    <3>1. \E a \in {"done", "claim"} : Go(c, a)
      BY DEF ClaimStep, ProbeProcess
    <3> QED
      BY <1>0, <1>3, <3>1, GoFacts, StageNames, InvNow DEF HostTypes
  <2>2. ~Overtakes(c, mem[c])
    BY <2>1 DEF BeginCleaning
  <2>3. \A y \in Actors : ~InCharge(y)
    BY <1>3, <2>2, ClaimsAlone
  <2>4. WorldInv'
    BY <1>0, <1>1, <2>3, WorldSame, TunInCharge
  <2>5. state = mem[c]
    BY <2>2 DEF Overtakes
  <2>6. ChargeOf(c)'
    BY <1>0, <1>1, <1>3, <2>5, NilIsNoState, InvNow DEF ChargeOf, Covers, RecordCovers, Steady
  <2>7. UndoOf(c)'
    BY <1>0, <1>3 DEF UndoOf, Ending, Toward, Recorded
  <2> QED
    BY <1>0, <2>3, <2>4, <2>6, <2>7, SoleStep DEF ActorInv
<1> QED
  BY <1>0, <1>2, <1>3

----------------------------------------------------------------------------
(* The steps of the process in charge *)

LEMMA SoleSave ==
    ASSUME ShapeInv, Sole, NEW x \in Actors, NEW ok \in BOOLEAN, Save(x, ok)
    PROVE  Sole'
<1>0. /\ ctl[x].at = "save" /\ mem[x] \in State /\ UNCHANGED <<dns, base, routes, tun, mem>>
      /\ state' \in {state, mem[x]} /\ (ok => state' = mem[x])
      /\ ctl'[x].at = AfterSave(x, ok) /\ AfterSave(x, ok) \in {ctl[x].then, "finish", "abort"}
      /\ ctl'[x].k = ctl[x].k /\ ctl'[x].todo = ctl[x].todo
      /\ ctl[x].errors => ctl'[x].errors
      /\ ctl'[x].undoing = ctl[x].undoing /\ ctl'[x].exists = ctl[x].exists
  BY SaveFields
<1>1. InCharge(x) /\ Local(x) /\ UNCHANGED late
  BY <1>0, ShapeSave DEF InCharge, Save, ghost
<1>2. Covers(mem[x]) /\ Toward(x) = ctl[x].then
  BY <1>0, <1>1, InvNow DEF ChargeOf, Toward
<1>3. ctl[x].then \in {"route", "add", "apply", "restore", "restored", "routes"}
  BY <1>0, InvNow DEF ShapeOf, CleanerShape, InstanceShape, Actors
<1>4. ctl'[x].at \in {"route", "add", "apply", "restore", "restored", "routes", "finish", "abort"}
  BY <1>0, <1>3
<1>a. RecordCovers(Steady)' /\ state' # Nil /\ state'.pid = mem[x].pid
  BY <1>0, <1>1, RecordKept
<1>5. WorldInv'
  <2>2. \A q \in tun' : ctl'[q].at \notin {"check", "lock", "first", "unlock", "remove", "done"}
    <3>1. tun \subseteq {x}
      BY <1>1, Alone, TunAlone
    <3> QED
      BY <1>0, <1>4, <3>1
  <2> QED
    BY <1>0, <1>1, <1>a, <2>2, InvNow DEF WorldInv, UsersValue, TunInv, Steady
<1>7. x \in Procs => StartOf(x)'
  <2> SUFFICES ASSUME x \in Procs PROVE StartOf(x)'
    OBVIOUS
  <2>1. CASE ctl'[x].at \in {"finish", "abort", "restore", "restored", "routes"}
    BY <2>1 DEF StartOf, Toward, Before
  <2>2. CASE ctl'[x].at \in {"route", "add", "apply"}
    <3>1. ctl'[x].at = ctl[x].then
      BY <1>0, <2>2
    <3>2. ~ctl[x].undoing
      BY <1>2, <2>2, <3>1, InvNow DEF StartOf, Before
    <3>3. ok
      BY <1>0, <2>2, <3>1, <3>2 DEF AfterSave
    <3> QED
      BY <1>0, <1>1, <1>2, <2>2, <3>1, <3>2, <3>3, InvNow DEF StartOf, Toward, Before
  <2> QED
    BY <1>4, <2>1, <2>2
<1>8. ChargeOf(x)'
  BY <1>0, <1>1, <1>2, <1>4, <1>a DEF ChargeOf, Covers, Steady
<1>9. UndoOf(x)'
  <2>1. CASE ctl'[x].at \in {"finish", "abort"}
    BY <2>1 DEF UndoOf, Toward, Ending
  <2>2. CASE ctl'[x].at = ctl[x].then
    <3>1. Toward(x)' = Toward(x) /\ ~Ending(x)'
      BY <1>2, <1>3, <2>2 DEF Toward, Ending
    <3> QED
      BY <1>0, <3>1, InvNow DEF UndoOf
  <2> QED
    BY <1>0, <2>1, <2>2
<1> QED
  BY <1>0, <1>1, <1>5, <1>7, <1>8, <1>9, Alone, SoleStep DEF ActorInv

LEMMA SoleCreateTun ==
    ASSUME ShapeInv, Sole, NEW p \in Procs, NEW ok \in BOOLEAN, CreateTun(p, ok)
    PROVE  Sole'
<1>0. /\ p \in Actors /\ p \notin Cleaners /\ ctl[p].at = "tun"
      /\ Local(p) /\ UNCHANGED <<dns, base, routes, state>>
      /\ ctl'[p].k = ctl[p].k /\ ctl'[p].undoing = ctl[p].undoing
      /\ mem'[p].dns = mem[p].dns /\ mem'[p].routes = mem[p].routes /\ mem'[p].pid = mem[p].pid
      /\ \/ tun' = tun \cup {p} /\ ctl'[p].at = "save" /\ ctl'[p].then = "route"
         \/ UNCHANGED <<tun, mem>> /\ ctl'[p].at = "finish"
  BY CreateTunFields
<1>s. UNCHANGED late
  BY DEF CreateTun, ghost
<1>1. InCharge(p) /\ tun \subseteq {p} /\ ChargeOf(p)
  BY <1>0, Alone, TunAlone, InvNow DEF InCharge
<1>2. WorldInv'
  <2>1. \A q \in tun' : q = p
    BY <1>0, <1>1
  <2> QED
    BY <1>0, <1>s, <2>1, InvNow DEF WorldInv, UsersValue, TunInv, RecordCovers, Steady
<1>3. UndoOf(p)'
  BY <1>0 DEF UndoOf, Ending, Toward
<1>4. StartOf(p)'
  <2>1. ctl[p].k = 1 /\ ~ctl[p].undoing
    BY <1>0, InvNow DEF StartOf, Toward, Before
  <2>2. \A j \in Routes : ~(j < 1)
    BY DEF Routes
  <2> QED
    BY <1>0, <2>1, <2>2 DEF StartOf, Toward, Before
<1>5. ChargeOf(p)'
  BY <1>0, <1>s, <1>1 DEF ChargeOf, Covers, Steady
<1> QED
  BY <1>0, <1>1, <1>2, <1>3, <1>4, <1>5, Alone, SoleStep DEF ActorInv

LEMMA SoleRecordRoute ==
    ASSUME ShapeInv, Sole, NEW p \in Procs, RecordRoute(p)
    PROVE  Sole'
<1>0. /\ p \in Actors /\ p \notin Cleaners /\ ctl[p].at = "route"
      /\ Local(p) /\ UNCHANGED <<dns, base, routes, tun, state>>
      /\ ctl'[p].k = ctl[p].k /\ ctl'[p].undoing = ctl[p].undoing
      /\ mem'[p].dns = mem[p].dns /\ mem'[p].pid = mem[p].pid
      /\ \/ /\ ctl[p].k \in Routes /\ mem'[p].routes = mem[p].routes \cup {ctl[p].k}
            /\ ctl'[p].at = "save" /\ ctl'[p].then = "add"
         \/ ctl[p].k \notin Routes /\ mem' = mem /\ ctl'[p].at = "dns"
  BY RecordRouteFields
<1>s. UNCHANGED late
  BY DEF RecordRoute, ghost
<1>1. InCharge(p) /\ ChargeOf(p)
  BY <1>0, InvNow DEF InCharge
<1>2. WorldInv'
  BY <1>0, <1>s, WorldSame
<1>3. UndoOf(p)'
  BY <1>0 DEF UndoOf, Ending, Toward
<1>4. StartOf(p)'
  <2>1. ~ctl[p].undoing /\ p \in tun /\ ctl[p].k # 0 /\ state = mem[p]
        /\ \A j \in Routes : j < ctl[p].k => routes[j] = Interface(j, p)
    BY <1>0, InvNow DEF StartOf, Toward, Before
  <2>2. ctl[p].k \notin Routes => \A j \in Routes : j < ctl[p].k
    BY <1>0, <2>1, HostAssumption, InvNow DEF CtlType, Routes
  <2>3. CASE ctl'[p].at = "save"
    BY <1>0, <2>1, <2>3 DEF StartOf, Toward, Before
  <2>4. CASE ctl'[p].at = "dns"
    BY <1>0, <2>1, <2>2, <2>4 DEF StartOf, Toward, Before
  <2> QED
    BY <1>0, <2>3, <2>4
<1>5. ChargeOf(p)'
  BY <1>0, <1>s, <1>1 DEF ChargeOf, Covers, Steady
<1> QED
  BY <1>0, <1>1, <1>2, <1>3, <1>4, <1>5, Alone, SoleStep DEF ActorInv

LEMMA SoleAddRoute ==
    ASSUME ShapeInv, Sole, NEW p \in Procs, NEW ok \in BOOLEAN, AddRoute(p, ok)
    PROVE  Sole'
<1>0. /\ p \in Actors /\ p \notin Cleaners /\ ctl[p].at = "add" /\ mem[p] \in State
      /\ Local(p) /\ UNCHANGED <<dns, base, tun, state, mem>>
      /\ ctl[p].k \in Routes /\ ctl'[p].undoing = ctl[p].undoing
      /\ \A j \in Routes : j # ctl[p].k => routes'[j] = routes[j]
      /\ routes'[ctl[p].k] \in {routes[ctl[p].k], Interface(ctl[p].k, p)}
      /\ \/ ctl'[p].at = "route" /\ ctl'[p].k = ctl[p].k + 1 /\ routes'[ctl[p].k] = Interface(ctl[p].k, p)
         \/ ctl'[p].at = "finish"
  BY AddRouteFields
<1>s. UNCHANGED late
  BY DEF AddRoute, ghost
<1>1. /\ InCharge(p) /\ ChargeOf(p) /\ tun \subseteq {p} /\ state = mem[p] /\ p \in tun
      /\ ctl[p].k \in mem[p].routes /\ ~ctl[p].undoing
      /\ \A j \in Routes : j < ctl[p].k => routes[j] = Interface(j, p)
  BY <1>0, InvNow, Alone, TunAlone DEF InCharge, StartOf, Toward, Before
<1>2. Covers(mem[p])'
  BY <1>0, <1>s, <1>1 DEF ChargeOf, Covers, Steady
<1>3. WorldInv'
  <2>1. RecordCovers(Steady)'
    BY <1>0, <1>s, <1>1, <1>2, NilIsNoState DEF RecordCovers, Covers, Steady
  <2>2. \A j \in Routes : routes'[j] # Nil => IF j \in TunRoutes THEN routes'[j] \in tun ELSE routes'[j] = "phys"
    BY <1>0, <1>1, InvNow DEF TunInv, Interface
  <2>3. \A q \in tun : ctl'[q].at \notin {"check", "lock", "first", "unlock", "remove", "done"}
    BY <1>0, <1>1
  <2> QED
    BY <1>0, <1>s, <2>1, <2>2, <2>3, InvNow DEF WorldInv, UsersValue, TunInv, Steady
<1>4. UndoOf(p)'
  BY <1>0 DEF UndoOf, Ending, Toward
<1>5. StartOf(p)'
  <2>1. CASE ctl'[p].at = "route"
    <3>1. \A j \in Routes : j < ctl'[p].k => routes'[j] = Interface(j, p)
      BY <1>0, <1>1, <2>1 DEF Routes
    <3>2. ctl'[p].k # 0
      BY <1>0, <2>1 DEF Routes
    <3> QED
      BY <1>0, <1>1, <2>1, <3>1, <3>2 DEF StartOf, Toward, Before
  <2>2. CASE ctl'[p].at = "finish"
    BY <2>2 DEF StartOf, Toward, Before
  <2> QED
    BY <1>0, <2>1, <2>2
<1>6. ChargeOf(p)'
  BY <1>0, <1>1, <1>2 DEF ChargeOf
<1> QED
  BY <1>0, <1>1, <1>3, <1>4, <1>5, <1>6, Alone, SoleStep DEF ActorInv

LEMMA SolePlanDNS ==
    ASSUME ShapeInv, Sole, NEW p \in Procs, NEW ok \in BOOLEAN, PlanDNS(p, ok)
    PROVE  Sole'
<1>0. /\ p \in Actors /\ p \notin Cleaners /\ ctl[p].at = "dns" /\ mem[p] \in State
      /\ HostTypes' /\ Local(p) /\ UNCHANGED <<dns, base, routes, tun, state>>
      /\ ctl'[p].undoing = ctl[p].undoing /\ mem'[p].routes = mem[p].routes /\ mem'[p].pid = mem[p].pid
      /\ \/ mem' = mem /\ ctl'[p].at = "finish"
         \/ /\ \A s \in Services : dns[s] # "applied"
            /\ mem'[p].dns = dns /\ ctl'[p].at = "save" /\ ctl'[p].then = "apply"
  BY PlanDNSFields
<1>s. UNCHANGED late
  BY DEF PlanDNS, ghost
<1>1. /\ InCharge(p) /\ ChargeOf(p) /\ p \in tun /\ ~ctl[p].undoing
      /\ \A j \in Routes : routes[j] = Interface(j, p)
  BY <1>0, InvNow DEF InCharge, StartOf, Toward, Before
<1>2. WorldInv'
  BY <1>0, <1>s, WorldSame
<1>3. UndoOf(p)'
  BY <1>0 DEF UndoOf, Ending, Toward
<1>4. (\A s \in Services : dns[s] # "applied") => \A s \in ctl'[p].todo \ late : dns[s] = base[s]
  <2>1. ctl'[p].todo \subseteq Services
    BY <1>0 DEF HostTypes, CtlType
  <2> QED
    BY <1>0, <2>1, InvNow DEF UsersValue, Steady
<1>5. StartOf(p)'
  BY <1>0, <1>s, <1>1, <1>4 DEF StartOf, Toward, Before
<1>6. ChargeOf(p)'
  BY <1>0, <1>s, <1>1 DEF ChargeOf, Covers, Steady
<1> QED
  BY <1>0, <1>1, <1>2, <1>3, <1>5, <1>6, Alone, SoleStep DEF ActorInv

LEMMA SoleApply ==
    ASSUME ShapeInv, Sole, NEW p \in Procs, NEW s \in Services, NEW ok \in BOOLEAN, Apply(p, s, ok)
    PROVE  Sole'
<1>0. /\ p \in Actors /\ p \notin Cleaners /\ ctl[p].at = "apply" /\ mem[p] \in State
      /\ HostTypes' /\ Local(p) /\ UNCHANGED <<base, routes, tun, state, mem>>
      /\ ctl'[p].at \in {"finish", "running", "apply"} /\ ctl'[p].undoing = ctl[p].undoing
      /\ \A t \in Services : t # s => dns'[t] = dns[t]
      /\ dns'[s] \in {dns[s], "applied"}
  BY ApplyFields
<1>s. UNCHANGED late /\ s \in ctl[p].todo /\ ctl'[p].todo \subseteq ctl[p].todo
  <2>1. \E a \in {"finish", "running", "apply"} : ctl' = [ctl EXCEPT ![p].at = a, ![p].todo = @ \ {s}]
    BY DEF Apply
  <2> QED
    BY <1>0, <2>1, InvNow DEF Apply, ghost, HostTypes, CtlType
<1>1. /\ InCharge(p) /\ ChargeOf(p) /\ p \in tun /\ tun \subseteq {p} /\ ~ctl[p].undoing /\ state = mem[p]
      /\ (\A t \in ctl[p].todo \ late : mem[p].dns[t] = base[t]) /\ \A j \in Routes : routes[j] = Interface(j, p)
  BY <1>0, InvNow, Alone, TunAlone DEF InCharge, StartOf, Toward, Before
<1>2. Covers(mem[p])'
  BY <1>0, <1>s, <1>1 DEF ChargeOf, Covers, Steady
<1>3. WorldInv'
  <2>1. RecordCovers(Steady)'
    BY <1>0, <1>s, <1>1, <1>2, NilIsNoState DEF RecordCovers, Covers, Steady
  <2>2. \A q \in tun : ctl'[q].at \notin {"check", "lock", "first", "unlock", "remove", "done"}
    BY <1>0, <1>1
  <2>3. UsersValue(Steady)'
    BY <1>0, <1>s, InvNow DEF UsersValue, Steady
  <2> QED
    BY <1>0, <2>1, <2>2, <2>3, InvNow DEF WorldInv, TunInv
<1>4. UndoOf(p)'
  BY <1>0 DEF UndoOf, Ending, Toward
<1>5. StartOf(p)'
  BY <1>0, <1>s, <1>1 DEF StartOf, Toward, Before
<1>6. ChargeOf(p)'
  BY <1>0, <1>1, <1>2 DEF ChargeOf
<1> QED
  BY <1>0, <1>1, <1>3, <1>4, <1>5, <1>6, Alone, SoleStep DEF ActorInv

LEMMA SoleRewrite ==
    ASSUME ShapeInv, Sole, NEW p \in Procs, Rewrite(p)
    PROVE  UNCHANGED vars
<1>1. p \in Actors /\ ctl[p].at = "running"
  BY DEF Rewrite, At, Actors
<1>2. state = mem[p]
  BY <1>1, InvNow DEF StartOf
<1> QED
  BY <1>2 DEF Rewrite, vars, hostVars

LEMMA SoleStop ==
    ASSUME ShapeInv, Sole, NEW p \in Procs, Stop(p)
    PROVE  Sole'
<1>0. /\ p \in Actors /\ p \notin Cleaners /\ ctl[p].at = "running" /\ Go(p, "finish")
      /\ UNCHANGED <<dns, base, routes, tun, state, mem, late>>
  BY LockAssumption DEF Actors, Stop, At, ghost
<1>1. Local(p) /\ ctl'[p].at = "finish"
  BY <1>0, ShapeRewriteStop, GoFacts, StageNames, InvNow DEF HostTypes
<1>2. InCharge(p) /\ ChargeOf(p)
  BY <1>0, InvNow DEF InCharge
<1>3. WorldInv'
  BY <1>0, <1>1, WorldSame
<1>4. StartOf(p)' /\ UndoOf(p)'
  BY <1>1 DEF StartOf, Toward, Before, UndoOf, Ending
<1>5. ChargeOf(p)'
  BY <1>0, <1>1, <1>2 DEF ChargeOf, Covers, Steady
<1> QED
  BY <1>0, <1>1, <1>2, <1>3, <1>4, <1>5, Alone, SoleStep DEF ActorInv

LEMMA SoleFinish ==
    ASSUME ShapeInv, Sole, NEW p \in Procs, NEW ok \in BOOLEAN, Finish(p, ok)
    PROVE  Sole'
<1>0. /\ p \in Actors /\ p \notin Cleaners /\ ctl[p].at = "finish" /\ mem[p] \in State
      /\ Local(p) /\ UNCHANGED <<dns, base, routes, tun, mem>>
      /\ state' \in {state, mem[p]}
      /\ ctl'[p].at = "restore" /\ ctl'[p].todo = Recorded(p)
  BY FinishFields
<1>s. UNCHANGED late
  BY DEF Finish, ghost
<1>1. InCharge(p) /\ ChargeOf(p) /\ tun \subseteq {p}
  BY <1>0, InvNow, Alone, TunAlone DEF InCharge
<1>a. RecordCovers(Steady)' /\ state' # Nil /\ state'.pid = mem[p].pid
  BY <1>0, <1>s, <1>1, RecordKept
<1>2. WorldInv'
  <2>2. \A q \in tun : ctl'[q].at \notin {"check", "lock", "first", "unlock", "remove", "done"}
    BY <1>0, <1>1
  <2> QED
    BY <1>0, <1>s, <1>a, <2>2, InvNow DEF WorldInv, TunInv, UsersValue, Steady
<1>4. UndoOf(p)' /\ StartOf(p)'
  BY <1>0 DEF UndoOf, Ending, Toward, Recorded, StartOf, Before
<1>5. ChargeOf(p)'
  BY <1>0, <1>s, <1>1, <1>a DEF ChargeOf, Covers, Steady
<1> QED
  BY <1>0, <1>1, <1>2, <1>4, <1>5, Alone, SoleStep DEF ActorInv

LEMMA SoleRestore ==
    ASSUME ShapeInv, Sole, NEW x \in Actors, NEW s \in Services, NEW ok \in BOOLEAN, Restore(x, s, ok)
    PROVE  Sole'
<1>0. /\ ctl[x].at = "restore" /\ mem[x] \in State
      /\ Local(x) /\ UNCHANGED <<dns, base, routes, tun, state>>
      /\ ctl[x].errors => ctl'[x].errors
      /\ mem'[x].routes = mem[x].routes /\ mem'[x].pid = mem[x].pid
      /\ \A t \in Services : t # s => mem'[x].dns[t] = mem[x].dns[t]
      /\ \/ /\ mem'[x].dns[s] = mem[x].dns[s] /\ dns[s] = "applied"
            /\ ctl'[x].at = "set" /\ ctl'[x].svc = s /\ ctl'[x].todo = ctl[x].todo
         \/ /\ ctl'[x].at = "restore" /\ ctl'[x].todo = ctl[x].todo \ {s}
            /\ \/ mem'[x].dns[s] = mem[x].dns[s] /\ ctl'[x].errors
               \/ mem'[x].dns[s] = Nil /\ dns[s] # "applied"
  BY RestoreFields
<1>s. UNCHANGED late
  BY DEF Restore, ghost
<1>1. InCharge(x) /\ ChargeOf(x)
  BY <1>0, InvNow DEF InCharge
<1>2. WorldInv'
  BY <1>0, <1>s, WorldSame
<1>4. x \in Procs => StartOf(x)'
  BY <1>0 DEF Toward, StartOf, Before
<1>5. UndoOf(x)'
  BY <1>0, InvNow DEF UndoOf, Toward, Ending
<1>6. ChargeOf(x)'
  <2>1. Covers(mem[x])'
    BY <1>0, <1>s, <1>1 DEF ChargeOf, Covers, Steady
  <2>2. ctl'[x].at = "set" /\ ctl'[x].svc \notin late' => mem'[x].dns[ctl'[x].svc] = base'[ctl'[x].svc]
    BY <1>0, <1>s, <1>1 DEF ChargeOf, Covers, Steady
  <2> QED
    BY <1>0, <1>1, <2>1, <2>2 DEF ChargeOf
<1> QED
  BY <1>0, <1>1, <1>2, <1>4, <1>5, <1>6, Alone, SoleStep DEF ActorInv

LEMMA SoleSetRestored ==
    ASSUME ShapeInv, Sole, NEW x \in Actors, NEW ok \in BOOLEAN, SetRestored(x, ok)
    PROVE  Sole'
<1> PICK s : s = ctl[x].svc
  OBVIOUS
<1>0. /\ ctl[x].at = "set" /\ mem[x] \in State /\ s \in Services /\ mem[x].dns[s] \in Values
      /\ Local(x) /\ UNCHANGED <<base, routes, tun, state>>
      /\ ctl[x].errors => ctl'[x].errors
      /\ ctl'[x].at = "restore" /\ ctl'[x].todo = ctl[x].todo \ {s}
      /\ mem'[x].pid = mem[x].pid /\ mem'[x].routes = mem[x].routes
      /\ \A t \in Services : t # s => dns'[t] = dns[t] /\ mem'[x].dns[t] = mem[x].dns[t]
      /\ \/ mem'[x].dns[s] = mem[x].dns[s] /\ ctl'[x].errors
         \/ mem'[x].dns[s] = Nil /\ dns'[s] # "applied"
      /\ dns'[s] \in {dns[s], mem[x].dns[s]}
  BY SetRestoredFields
<1>s. UNCHANGED late
  BY DEF SetRestored, ghost
<1>1. /\ InCharge(x) /\ ChargeOf(x) /\ tun \subseteq {x}
      /\ s \notin late => mem[x].dns[s] = base[s]
  BY <1>0, InvNow, Alone, TunAlone DEF InCharge, ChargeOf
<1>a. mem[x].dns[s] # "applied"
  BY <1>0 DEF Values
<1>2. WorldInv'
  <2>1. RecordCovers(Steady)'
    BY <1>0, <1>s, <1>a, InvNow DEF RecordCovers, Steady
  <2>2. \A q \in tun : ctl'[q].at \notin {"check", "lock", "first", "unlock", "remove", "done"}
    BY <1>0, <1>1
  <2>3. UsersValue(Steady)'
    BY <1>0, <1>s, <1>1, InvNow DEF UsersValue, Steady
  <2> QED
    BY <1>0, <2>1, <2>2, <2>3, InvNow DEF WorldInv, TunInv
<1>4. x \in Procs => StartOf(x)'
  BY <1>0 DEF Toward, StartOf, Before
<1>5. UndoOf(x)'
  BY <1>0, InvNow DEF UndoOf, Toward, Ending
<1>6. ChargeOf(x)'
  <2>1. Covers(mem[x])'
    BY <1>0, <1>s, <1>1, <1>a DEF ChargeOf, Covers, Steady
  <2> QED
    BY <1>0, <1>1, <2>1 DEF ChargeOf
<1> QED
  BY <1>0, <1>1, <1>2, <1>4, <1>5, <1>6, Alone, SoleStep DEF ActorInv

LEMMA SoleQuiet ==
    ASSUME ShapeInv, Sole, NEW x \in Actors, RestoreDone(x) \/ Restored(x) \/ RoutesDone(x)
    PROVE  Sole'
<1>0. /\ mem[x] \in State /\ ctl[x].at \in {"restore", "restored", "routes"}
      /\ Local(x) /\ UNCHANGED <<dns, base, routes, tun, state, mem>>
      /\ ctl'[x].exists = ctl[x].exists /\ ctl'[x].errors = ctl[x].errors
      /\ \/ ctl[x].at = "restore" /\ ctl[x].todo = {} /\ ctl'[x].at = "save" /\ ctl'[x].then = "restored"
         \/ ctl[x].at = "restored" /\ ctl'[x].at = "routes" /\ ctl'[x].k = NRoutes
         \/ ctl[x].at \in {"restored", "routes"} /\ ctl'[x].at = "abort" /\ x \in Cleaners
         \/ /\ ctl[x].at = "routes" /\ ctl[x].k \notin Routes
            /\ ctl'[x].at = IF x \in Procs THEN "device" ELSE "unlock"
  BY QuietFields
<1>s. UNCHANGED late
  BY DEF RestoreDone, Restored, RoutesDone, ghost
<1>1. InCharge(x) /\ ChargeOf(x) /\ (x \notin Procs => tun = {})
  BY <1>0, InvNow, Alone, TunAlone DEF InCharge
<1>a. x \in Procs => x \notin Cleaners
  BY LockAssumption
<1>2. WorldInv'
  BY <1>0, <1>s, <1>1, <1>a, WorldSame
<1>4. x \in Procs => StartOf(x)'
  BY <1>0 DEF Toward, StartOf, Before
<1>5. UndoOf(x)'
  <2>1. CASE ctl[x].at = "restore" /\ ctl[x].todo = {} /\ ctl'[x].at = "save" /\ ctl'[x].then = "restored"
    BY <1>0, <2>1, InvNow DEF UndoOf, Toward, Ending
  <2>2. CASE ctl[x].at = "restored" /\ ctl'[x].at = "routes" /\ ctl'[x].k = NRoutes
    <3>1. \A j \in mem[x].routes : j <= NRoutes
      BY <1>0, HostAssumption DEF State, Routes
    <3> QED
      BY <1>0, <2>2, <3>1, HostAssumption, InvNow DEF UndoOf, Toward, Ending
  <2>3. CASE ctl'[x].at = "abort"
    BY <2>3 DEF UndoOf, Toward, Ending
  <2>4. CASE ctl[x].at = "routes" /\ ctl[x].k \notin Routes /\ ctl'[x].at \in {"device", "unlock"}
    <3>1. ctl[x].k = 0
      BY <2>4, HostAssumption, InvNow DEF UndoOf, Toward, CtlType, Routes
    <3>2. ctl[x].errors \/ mem[x].routes = {}
      <4>1. \A j \in mem[x].routes : ~(j <= 0)
        BY <1>0 DEF State, Routes
      <4> QED
        BY <2>4, <3>1, <4>1, InvNow DEF UndoOf, Toward
    <3> QED
      BY <1>0, <2>4, <3>2, InvNow DEF UndoOf, Toward, Ending
  <2> QED
    BY <1>0, <2>1, <2>2, <2>3, <2>4
<1>6. ChargeOf(x)'
  BY <1>0, <1>s, <1>1 DEF ChargeOf, Covers, Steady
<1> QED
  BY <1>0, <1>1, <1>2, <1>4, <1>5, <1>6, Alone, SoleStep DEF ActorInv

LEMMA SoleRemoveRoute ==
    ASSUME ShapeInv, Sole, NEW x \in Actors, NEW ok \in BOOLEAN, RemoveRoute(x, ok)
    PROVE  Sole'
<1>0. /\ ctl[x].at = "routes" /\ mem[x] \in State /\ ctl[x].k \in Routes
      /\ Local(x) /\ UNCHANGED <<dns, base, tun, state>>
      /\ ctl[x].errors => ctl'[x].errors
      /\ ctl'[x].k = ctl[x].k - 1
      /\ mem'[x].pid = mem[x].pid /\ mem'[x].dns = mem[x].dns
      /\ \A j \in Routes : routes'[j] \in {routes[j], Nil} /\ (j # ctl[x].k => routes'[j] = routes[j])
      /\ ctl'[x].at = "routes" \/ (ctl'[x].at = "save" /\ ctl'[x].then = "routes")
      /\ \/ mem' = mem /\ (ctl'[x].errors \/ ctl[x].k \notin mem[x].routes)
         \/ /\ mem'[x].routes = mem[x].routes \ {ctl[x].k}
            /\ ~RouteRefused(ctl[x].k, Interface(ctl[x].k, mem[x].pid))
            /\ routes[ctl[x].k] = Interface(ctl[x].k, mem[x].pid) => routes'[ctl[x].k] = Nil
  BY RemoveRouteFields
<1>s. UNCHANGED late
  BY DEF RemoveRoute, ghost
<1>1. InCharge(x) /\ ChargeOf(x) /\ tun \subseteq {x} /\ (x \notin Procs => tun = {})
  BY <1>0, InvNow, Alone, TunAlone DEF InCharge
<1>2. WorldInv'
  <2>1. RecordCovers(Steady)'
    BY <1>0, <1>s, InvNow DEF RecordCovers, Steady
  <2>2. \A q \in tun : ctl'[q].at \notin {"check", "lock", "first", "unlock", "remove", "done"}
    BY <1>0, <1>1
  <2>3. \A j \in Routes : routes'[j] # Nil => IF j \in TunRoutes THEN routes'[j] \in tun ELSE routes'[j] = "phys"
    BY <1>0, InvNow DEF TunInv
  <2> QED
    BY <1>0, <1>s, <2>1, <2>2, <2>3, InvNow DEF WorldInv, TunInv, UsersValue, Steady
<1>4. x \in Procs => StartOf(x)'
  BY <1>0 DEF Toward, StartOf, Before
<1>5. UndoOf(x)'
  <2>1. Toward(x)' = "routes" /\ ~Ending(x)' /\ Toward(x) = "routes"
    BY <1>0 DEF Toward, Ending
  <2>2. ctl'[x].errors \/ \A j \in mem'[x].routes : j <= ctl'[x].k
    <3>1. mem[x].routes \subseteq Routes /\ (ctl[x].errors \/ \A j \in mem[x].routes : j <= ctl[x].k)
      BY <1>0, <2>1, InvNow DEF UndoOf, State
    <3>2. \A j \in Routes : j <= ctl[x].k /\ j # ctl[x].k => j <= ctl[x].k - 1
      BY <1>0 DEF Routes
    <3> QED
      BY <1>0, <3>1, <3>2
  <2>3. ctl'[x].k <= NRoutes
    BY <1>0, HostAssumption DEF Routes
  <2>4. ctl'[x].errors \/ \A s \in Services : mem'[x].dns[s] = Nil
    BY <1>0, <2>1, InvNow DEF UndoOf
  <2> QED
    BY <2>1, <2>2, <2>3, <2>4 DEF UndoOf
<1>6. Covers(mem[x])'
  <2>1. CASE mem' = mem
    BY <1>0, <1>s, <1>1, <2>1 DEF ChargeOf, Covers, Steady
  <2>2. CASE /\ mem'[x].routes = mem[x].routes \ {ctl[x].k}
             /\ ~RouteRefused(ctl[x].k, Interface(ctl[x].k, mem[x].pid))
             /\ routes[ctl[x].k] = Interface(ctl[x].k, mem[x].pid) => routes'[ctl[x].k] = Nil
    <3>1. routes'[ctl[x].k] = Nil
      <4> SUFFICES ASSUME routes[ctl[x].k] # Nil
                   PROVE  routes[ctl[x].k] = Interface(ctl[x].k, mem[x].pid)
        BY <1>0, <2>2
      <4>1. CASE ctl[x].k \in TunRoutes
        <5>1. routes[ctl[x].k] \in tun
          BY <1>0, <4>1, InvNow DEF TunInv
        <5>2. x \in Procs /\ routes[ctl[x].k] = x
          BY <1>1, <5>1
        <5>3. mem[x].pid = x
          BY <1>0, <5>2, InvNow DEF ShapeOf, InstanceShape
        <5> QED
          BY <4>1, <5>2, <5>3 DEF Interface
      <4>2. CASE ctl[x].k \notin TunRoutes
        BY <1>0, <4>2, InvNow DEF TunInv, Interface
      <4> QED
        BY <4>1, <4>2
    <3> QED
      BY <1>0, <1>s, <1>1, <2>2, <3>1 DEF ChargeOf, Covers, Steady
  <2> QED
    BY <1>0, <2>1, <2>2
<1>7. ChargeOf(x)'
  BY <1>0, <1>1, <1>6 DEF ChargeOf
<1> QED
  BY <1>0, <1>1, <1>2, <1>4, <1>5, <1>7, Alone, SoleStep DEF ActorInv

\* The kernel closes a utun: the routes through it go, nothing else does.
LEMMA WorldDropped ==
    ASSUME ShapeInv, Sole, NEW p \in Procs, UNCHANGED <<dns, base, state, late>>, Local(p), tun' = tun \ {p},
           \A j \in Routes : routes'[j] = IF routes[j] = p THEN Nil ELSE routes[j]
    PROVE  WorldInv'
<1>0. p \in Actors
  BY DEF Actors
<1>1. RecordCovers(Steady)' /\ UsersValue(Steady)'
  BY <1>0, InvNow DEF RecordCovers, UsersValue, Steady
<1>2. \A q \in tun' : ctl'[q].at \notin {"check", "lock", "first", "unlock", "remove", "done"}
  <2> SUFFICES ASSUME NEW q \in tun'
               PROVE  ctl'[q].at \notin {"check", "lock", "first", "unlock", "remove", "done"}
    OBVIOUS
  <2>1. q \in tun /\ q # p /\ q \in Actors
    BY <1>0, InvNow DEF HostTypes, Actors
  <2> QED
    BY <1>0, <2>1, InvNow DEF TunInv, Local
<1>3. \A j \in Routes : routes'[j] # Nil => IF j \in TunRoutes THEN routes'[j] \in tun' ELSE routes'[j] = "phys"
  BY <1>0, InvNow DEF TunInv
<1> QED
  BY <1>1, <1>2, <1>3 DEF WorldInv, TunInv

LEMMA SoleCloseDevice ==
    ASSUME ShapeInv, Sole, NEW p \in Procs, NEW ok \in BOOLEAN, CloseDevice(p, ok)
    PROVE  Sole'
<1>0. /\ p \in Actors /\ p \notin Cleaners /\ ctl[p].at = "device" /\ mem[p] \in State
      /\ Local(p) /\ UNCHANGED <<dns, base, state, mem>>
      /\ tun' = tun \ {p} /\ \A j \in Routes : routes'[j] = IF routes[j] = p THEN Nil ELSE routes[j]
      /\ ctl'[p].at = "unlock" /\ (ctl[p].errors => ctl'[p].errors) /\ ctl'[p].exists = ctl[p].exists
  BY CloseDeviceFields
<1>s. UNCHANGED late
  BY DEF CloseDevice, ghost
<1>1. InCharge(p) /\ ChargeOf(p)
  BY <1>0, InvNow DEF InCharge
<1>2. WorldInv'
  BY <1>0, <1>s, WorldDropped
<1>4. UndoOf(p)' /\ StartOf(p)'
  BY <1>0, InvNow DEF UndoOf, Ending, Toward, StartOf, Before
<1>5. ChargeOf(p)'
  BY <1>0, <1>s, <1>1 DEF ChargeOf, Covers, Steady
<1> QED
  BY <1>0, <1>1, <1>2, <1>4, <1>5, Alone, SoleStep DEF ActorInv

\* The end of finish and of a recovery; an instance whose first record failed is not in charge.
LEMMA SoleUnlock ==
    ASSUME ShapeInv, Sole, NEW x \in Actors, UnlockStep(x)
    PROVE  Sole'
<1>0. /\ ctl[x].at = "unlock" /\ mem[x] \in State
      /\ Local(x) /\ UNCHANGED <<dns, base, routes, tun, state, mem>>
      /\ ctl'[x].exists = ctl[x].exists
      /\ ctl[x].errors => ctl'[x].errors
      /\ ctl'[x].at \in {"unlock", "remove"}
  BY UnlockFields
<1>s. UNCHANGED late
  BY DEF UnlockStep, ghost
<1>1. x \in Procs => StartOf(x)'
  BY <1>0 DEF Toward, StartOf, Before
<1>2. CASE InCharge(x)
  <2>1. ChargeOf(x) /\ x \notin tun
    BY <1>0, <1>2, InvNow DEF TunInv
  <2>2. WorldInv'
    BY <1>0, <1>s, <2>1, WorldSame
  <2>3. UndoOf(x)'
    BY <1>0, InvNow DEF UndoOf, Ending, Toward
  <2>4. ChargeOf(x)'
    BY <1>0, <1>s, <2>1 DEF ChargeOf, Covers, Steady
  <2> QED
    BY <1>0, <1>1, <1>2, <2>2, <2>3, <2>4, Alone, SoleStep DEF ActorInv
<1>3. CASE ~InCharge(x)
  <2>1. ~InCharge(x)'
    BY <1>0, <1>3 DEF InCharge
  <2> QED
    BY <1>0, <1>s, <1>1, <1>3, <2>1, AsideStep
<1> QED
  BY <1>2, <1>3

LEMMA SoleRemove ==
    ASSUME ShapeInv, Sole, NEW x \in Actors, NEW ok \in BOOLEAN, Remove(x, ok)
    PROVE  Sole'
<1>0. /\ ctl[x].at = "remove" /\ mem[x] \in State
      /\ Local(x) /\ UNCHANGED <<dns, base, routes, tun, mem>>
      /\ state' = state \/ (state' = Nil /\ ctl[x].exists /\ ~ctl[x].errors)
      /\ ctl'[x].at = "done"
  BY RemoveFields
<1>s. UNCHANGED late
  BY DEF Remove, ghost
<1>1. (x \in Procs => StartOf(x)') /\ UndoOf(x)' /\ ~InCharge(x)'
  BY <1>0 DEF Toward, StartOf, Before, UndoOf, Ending, InCharge
<1>2. CASE ctl[x].exists
  <2>1. InCharge(x) /\ ChargeOf(x) /\ x \notin tun
    BY <1>0, <1>2, InvNow DEF InCharge, TunInv
  <2>2. RecordCovers(Steady)'
    <3>1. CASE state' = state
      BY <1>0, <1>s, <3>1, InvNow DEF RecordCovers, Steady
    <3>2. CASE ~ctl[x].errors
      <4>1. Covers(mem[x]) /\ mem[x].routes = {} /\ \A s \in Services : mem[x].dns[s] = Nil
        BY <1>0, <1>2, <2>1, <3>2, InvNow DEF ChargeOf, UndoOf, Ending
      <4>2. \A s \in Services : base[s] # Nil
        BY MarkerAssumption, InvNow DEF HostTypes
      <4> QED
        BY <1>0, <1>s, <4>1, <4>2 DEF RecordCovers, Covers, Steady
    <3> QED
      BY <1>0, <3>1, <3>2
  <2>3. WorldInv'
    <3>1. tun = {}
      BY <2>1, Alone, TunAlone
    <3> QED
      BY <1>0, <1>s, <2>2, <3>1, InvNow DEF WorldInv, UsersValue, TunInv, Steady
  <2> QED
    BY <1>0, <1>1, <2>1, <2>3, Alone, SoleStep DEF ActorInv
<1>3. CASE ~ctl[x].exists
  <2>1. ~InCharge(x) /\ state' = state
    BY <1>0, <1>3 DEF InCharge
  <2> QED
    BY <1>0, <1>s, <1>1, <2>1, AsideStep
<1> QED
  BY <1>2, <1>3

\* A recovery past its claim that moves on, ends or is killed.
LEMMA SoleMoveOn ==
    ASSUME ShapeInv, Sole, NEW c \in Cleaners, RemoveStale(c) \/ Abort(c) \/ KillCleaner(c)
    PROVE  Sole'
<1>0. /\ c \in Actors /\ c \notin Procs /\ ctl[c].at \notin {"check", "done"}
      /\ Local(c) /\ UNCHANGED <<dns, base, routes, tun, state, mem>>
      /\ ctl'[c].exists = ctl[c].exists /\ ctl'[c].errors = ctl[c].errors
      /\ \/ ctl'[c].at = "done"
         \/ ctl[c].at = "unlock" /\ ctl'[c].at \in {"unlock", "remove"}
  BY MoveOnFields
<1>s. UNCHANGED late
  BY DEF RemoveStale, Abort, KillCleaner, ghost
<1>1. CASE ~InCharge(c)
  <2>1. ~InCharge(c)'
    BY <1>0, <1>1 DEF InCharge
  <2> QED
    BY <1>0, <1>s, <1>1, <2>1, AsideStep
<1>2. CASE InCharge(c)
  <2>1. ChargeOf(c) /\ c \notin tun
    BY <1>0, <1>2, InvNow DEF HostTypes
  <2>2. WorldInv'
    BY <1>0, <1>s, <2>1, WorldSame
  <2>3. UndoOf(c)'
    BY <1>0, InvNow DEF UndoOf, Ending, Toward
  <2>4. InCharge(c)' => ChargeOf(c)'
    BY <1>0, <1>s, <2>1 DEF ChargeOf, Covers, Steady, InCharge
  <2> QED
    BY <1>0, <1>2, <2>2, <2>3, <2>4, Alone, SoleStep DEF ActorInv
<1> QED
  BY <1>1, <1>2

LEMMA SoleKillInstance ==
    ASSUME ShapeInv, Sole, NEW p \in Procs, KillInstance(p)
    PROVE  Sole'
<1>0. /\ p \in Actors /\ p \notin Cleaners
      /\ HostTypes' /\ Local(p) /\ UNCHANGED <<dns, base, state, mem>>
      /\ tun' = tun \ {p} /\ \A j \in Routes : routes'[j] = IF routes[j] = p THEN Nil ELSE routes[j]
      /\ ctl'[p].at = "done"
  BY KillInstanceFields
<1>s. UNCHANGED late
  BY DEF KillInstance, ghost
<1>1. StartOf(p)' /\ UndoOf(p)' /\ ~InCharge(p)'
  BY <1>0 DEF UndoOf, Ending, Toward, StartOf, Before, InCharge
<1>2. CASE InCharge(p)
  <2>1. WorldInv'
    BY <1>0, <1>s, WorldDropped
  <2> QED
    BY <1>0, <1>1, <1>2, <2>1, Alone, SoleStep DEF ActorInv
<1>3. CASE ~InCharge(p)
  <2>1. p \notin tun
    BY <1>3, TunInCharge
  <2>2. \A j \in Routes : routes[j] # p
    <3> SUFFICES ASSUME NEW j \in Routes, routes[j] = p PROVE FALSE
      OBVIOUS
    <3>1. p # Nil /\ p # "phys"
      BY LockAssumption, MarkerAssumption
    <3> QED
      BY <1>0, <2>1, <3>1, InvNow DEF TunInv
  <2>3. routes' = routes
    BY <1>0, <2>2, InvNow DEF HostTypes
  <2> QED
    BY <1>0, <1>s, <1>1, <1>3, <2>1, <2>3, AsideStep
<1> QED
  BY <1>2, <1>3

\* The user's changes: those that meet a process between its reading and its setting are in late.
LEMMA SoleUser ==
    ASSUME ShapeInv, Sole, NEW s \in Services, NEW v \in Values, UserSetsDNS(s, v)
    PROVE  Sole'
<1>0. /\ UNCHANGED <<lockVars, routes, tun, state, mem, ctl>>
      /\ dns'[s] = v /\ base'[s] = v /\ v # "applied"
      /\ \A t \in Services : t # s => dns'[t] = dns[t] /\ base'[t] = base[t]
      /\ late' = IF \E x \in Actors : Setting(x, s) THEN late \cup {s} ELSE late
  BY UserFields DEF Values
<1>a. late \subseteq late' /\ late' \subseteq late \cup {s}
  BY <1>0
<1>1. WorldInv'
  BY <1>0, <1>a DEF Sole, WorldInv, UsersValue, TunInv, RecordCovers, Steady
<1>2. OneInCharge'
  BY <1>0 DEF Sole, OneInCharge, InCharge
<1>3. ASSUME NEW x \in Actors PROVE ActorInv(x)'
  <2>1. UndoOf(x)'
    BY <1>0, InvNow DEF UndoOf, Ending, Toward
  <2>2. x \in Procs => StartOf(x)'
    <3> SUFFICES ASSUME x \in Procs PROVE StartOf(x)'
      OBVIOUS
    <3>1. Toward(x)' = Toward(x)
      BY <1>0 DEF Toward
    <3>2. Toward(x) = "apply" => \A t \in ctl[x].todo \ late' : mem[x].dns[t] = base'[t]
      <4> SUFFICES ASSUME Toward(x) = "apply", NEW t \in ctl[x].todo, t \notin late'
                   PROVE  mem[x].dns[t] = base'[t]
        OBVIOUS
      <4>1. t \in Services /\ mem[x].dns[t] = base[t]
        BY <1>a, InvNow DEF StartOf, CtlType
      <4>2. t # s
        BY <1>0 DEF Setting, At, Toward
      <4> QED
        BY <1>0, <4>1, <4>2
    <3> QED
      BY <1>0, <3>1, <3>2, InvNow DEF StartOf
  <2>3. InCharge(x)' => ChargeOf(x)'
    <3> SUFFICES ASSUME InCharge(x) PROVE ChargeOf(x)'
      BY <1>0 DEF InCharge
    <3>1. ChargeOf(x)
      BY InvNow
    <3>2. Covers(mem[x])'
      BY <1>0, <1>a, <3>1 DEF ChargeOf, Covers, Steady
    <3>3. ctl[x].at = "set" /\ ctl[x].svc \notin late' => mem[x].dns[ctl[x].svc] = base'[ctl[x].svc]
      <4> SUFFICES ASSUME ctl[x].at = "set", ctl[x].svc \notin late'
                   PROVE  mem[x].dns[ctl[x].svc] = base'[ctl[x].svc]
        OBVIOUS
      <4>1. ctl[x].svc \in Services
        BY InvNow DEF ShapeOf, CtlType
      <4>2. ctl[x].svc # s
        BY <1>0 DEF Setting, At
      <4> QED
        BY <1>0, <1>a, <3>1, <4>1, <4>2 DEF ChargeOf
    <3> QED
      BY <1>0, <3>1, <3>2, <3>3 DEF ChargeOf
  <2> QED
    BY <2>1, <2>2, <2>3 DEF ActorInv
<1> QED
  BY <1>1, <1>2, <1>3 DEF Sole

----------------------------------------------------------------------------
(* HostInv *)

LEMMA SoleUndo ==
    ASSUME ShapeInv, Sole, NEW x \in Actors, Undo(x)
    PROVE  Sole'
BY SoleSave, SoleSetRestored, SoleRemoveRoute, SoleRemove, SoleRestore, SoleQuiet, SoleUnlock DEF Undo

LEMMA SoleInstance ==
    ASSUME ShapeInv, Sole, NEW p \in Procs, Instance(p) \/ Stop(p) \/ KillInstance(p), ~overtaken'
    PROVE  Sole'
<1>0. p \in Actors
  BY DEF Actors
<1>1. CASE \E ok \in BOOLEAN : FirstSave(p, ok)
  BY <1>1, SoleFirstSave DEF FirstSave
<1> QED
  BY <1>0, <1>1, SoleCheckState, SoleAcquire, SoleCreateTun, SoleAddRoute, SolePlanDNS, SoleFinish,
     SoleCloseDevice, SoleRecordRoute, SoleUndo, SoleApply, SoleStop, SoleKillInstance DEF Instance

LEMMA SoleCleanup ==
    ASSUME ShapeInv, LockUse, Sole, NEW c \in Cleaners, Cleanup(c) \/ KillCleaner(c), ~overtaken'
    PROVE  Sole'
<1>0. c \in Actors
  BY DEF Actors
<1> QED
  BY <1>0, SoleReadState, SoleClaim, SoleMoveOn, SoleUndo DEF Cleanup

LEMMA SoleUnchanged ==
    ASSUME ShapeInv, Sole, UNCHANGED vars
    PROVE  Sole'
<1>0. UNCHANGED <<dns, base, routes, tun, state, mem, ctl, faults, late>>
  BY DEF vars, hostVars, ghost
<1>1. WorldInv' /\ OneInCharge'
  BY <1>0 DEF Sole, WorldInv, UsersValue, TunInv, RecordCovers, Steady, OneInCharge, InCharge
<1>2. ASSUME NEW x \in Actors PROVE ActorInv(x)'
  <2>1. Toward(x)' = Toward(x) /\ (InCharge(x)' <=> InCharge(x)) /\ (Ending(x)' <=> Ending(x))
    BY <1>0 DEF Toward, InCharge, Ending
  <2> QED
    BY <1>0, <2>1, InvNow DEF ActorInv, StartOf, ChargeOf, Covers, Steady, UndoOf
<1> QED
  BY <1>1, <1>2 DEF Sole

LEMMA HostInvStep ==
    ASSUME HostInv, [HostNext]_vars
    PROVE  HostInv'
<1>0. ShapeInv' /\ LockUse'
  BY ShapeStep, LockUseStep DEF HostInv
<1>g. late' \subseteq Services /\ overtaken' \in BOOLEAN /\ (overtaken => overtaken')
  BY GhostStep DEF HostInv
<1>s. ASSUME ~overtaken' PROVE Sole'
  <2>0. ShapeInv /\ LockUse /\ Sole
    BY <1>g, <1>s DEF HostInv
  <2>1. CASE \E p \in Procs : Instance(p) \/ Stop(p) \/ KillInstance(p)
    BY <1>s, <2>0, <2>1, SoleInstance
  <2>2. CASE \E c \in Cleaners : Cleanup(c) \/ KillCleaner(c)
    BY <1>s, <2>0, <2>2, SoleCleanup
  <2>3. CASE \E s \in Services, v \in Values : UserSetsDNS(s, v)
    BY <2>0, <2>3, SoleUser
  <2>4. CASE UNCHANGED vars
    BY <2>0, <2>4, SoleUnchanged
  <2>5. CASE \E p \in Procs : Rewrite(p)
    BY <2>0, <2>4, <2>5, SoleRewrite
  <2> QED
    BY <2>1, <2>2, <2>3, <2>4, <2>5 DEF HostNext
<1> QED
  BY <1>0, <1>g, <1>s DEF HostInv

LEMMA HostInvInit ==
    ASSUME HostInit
    PROVE  HostInv
<1>0. ShapeInv
  BY ShapeInit
<1>1. ctl = [x \in Actors |-> NewCtl(x)]
  BY DEF HostInit
<1>2. /\ \A x \in Actors : ctl[x].at = "check" /\ ctl[x].k = 1
      /\ \A p \in Procs : p \in Actors /\ ~ctl[p].undoing
  BY <1>1, LockAssumption DEF NewCtl, Actors
<1>3. WorldInv
  BY <1>2 DEF HostInit, WorldInv, UsersValue, TunInv, RecordCovers, Steady
<1>4. OneInCharge
  BY <1>2 DEF OneInCharge, InCharge
<1>5. ASSUME NEW x \in Actors PROVE ActorInv(x)
  BY <1>2 DEF InCharge, UndoOf, Ending, Toward, StartOf, Before, ActorInv
<1>6. LockUse
  BY LockAssumption DEF HostInit, LockInit, LockUse, PidOnce, Fresh, ClaimPlace, Inodes, Actors
<1> QED
  BY <1>0, <1>3, <1>4, <1>5, <1>6 DEF HostInv, Sole, HostInit

LEMMA HostInvHolds == HostSpec => []HostInv
<1>1. HostInit => HostInv
  BY HostInvInit
<1>2. HostInv /\ [HostNext]_vars => HostInv'
  BY HostInvStep
<1> QED
  BY <1>1, <1>2, PTL DEF HostSpec

\* Each change in effect on the host is in the record on disk, with the value to go back to: at
\* every step of any number of starts, stops and recoveries that interleave, with any command or
\* write failing and any process killed, unless one has overtaken another (WriteState before each
\* mutation; finish and cleanup remove the record last).
THEOREM HostAlwaysRecorded == HostSpec => []HostRecorded
<1>1. HostInv => HostRecorded
  BY DEF HostInv, Sole, WorldInv, HostRecorded, Steady
<1> QED
  BY <1>1, HostInvHolds, PTL

\* A running instance keeps its record and its routes whatever other instances and recoveries do
\* short of overtaking: Lstat of the record turns the first away, the flock, the PID in the lock
\* file or the probe of the process the others.
THEOREM RunningStaysIntact == HostSpec => []RunningIntact
<1>1. HostInv => RunningIntact
  <2> SUFFICES ASSUME HostInv, ~overtaken, NEW p \in Procs, ctl[p].at = "running"
               PROVE  state # Nil /\ state.pid = p /\ \A k \in Routes : routes[k] = Interface(k, p)
    BY DEF RunningIntact, AlwaysIntact, At
  <2>1. p \in Actors /\ ShapeInv /\ Sole
    BY DEF Actors, HostInv
  <2>2. state = mem[p] /\ \A k \in Routes : routes[k] = Interface(k, p)
    BY <2>1, InvNow DEF StartOf, Toward
  <2>3. mem[p] \in State /\ mem[p].pid = p
    BY <2>1, InvNow DEF ShapeOf, InstanceShape
  <2> QED
    BY <2>2, <2>3, MarkerAssumption
<1> QED
  BY <1>1, HostInvHolds, PTL

\* No stop and no recovery brings back an older DNS value over the user's: RestoreDNS reads before
\* it sets, and what it sets is the last value unless the user changed it between the two commands.
THEOREM UserSettingsSurvive == HostSpec => []UserDNSKept
<1>1. HostInv => UserDNSKept
  BY DEF HostInv, Sole, WorldInv, UserDNSKept, Steady
<1> QED
  BY <1>1, HostInvHolds, PTL

=============================================================================
