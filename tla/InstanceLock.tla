---------------------------- MODULE InstanceLock ----------------------------
(***************************************************************************)
(* internal/daemon/lock_darwin.go: the flock-protected lock file that keeps*)
(* tun-proxy instances apart, and the exclusive claim that crash recovery  *)
(* takes on the file of a dead instance.                                   *)
(*                                                                         *)
(* Each system call is one step, so other processes run between the open   *)
(* and the flock of Acquire, and between the SameFile check, the unlink    *)
(* and the unlock of Close.  A process dies at any step; the kernel then   *)
(* closes its descriptor and drops its flock, and the file stays.          *)
(*                                                                         *)
(* A process creates at most one lock file, so an inode is named after the *)
(* process that created it.  A process number is not used again.           *)
(***************************************************************************)
EXTENDS Naturals, FiniteSets

CONSTANTS
    Procs,     \* instances: each calls Acquire once, and Close if it got the lock
    Cleaners,  \* crash recoveries: TryClaimStale, then Remove or Close
    Nil

ASSUME LockAssumption ==
    /\ IsFiniteSet(Procs) /\ IsFiniteSet(Cleaners)
    /\ Procs \cap Cleaners = {}
    /\ Nil \notin Procs \cup Cleaners

Inodes == Procs
Actors == Procs \cup Cleaners

VARIABLES
    path,   \* the inode that the lock path names, or Nil
    fd,     \* the inode each process has open, or Nil
    owner,  \* the process that holds the flock of an inode, or Nil
    pid,    \* the PID written in an inode, or Nil for an empty file
    lpc     \* where each process is

lockVars == <<path, fd, owner, pid, lpc>>

Steps == {"start", "opened", "locked", "truncated", "held", "removing", "unlinked",
          "missing", "refused", "gone"}

Owning == {"locked", "truncated", "held", "removing", "unlinked"}

\* The lock file's state has its types, and a process has a descriptor open exactly
\* from its open to its close: every early return closes the file.
LockTypeOK ==
    /\ path \in Inodes \cup {Nil}
    /\ fd \in [Actors -> Inodes \cup {Nil}]
    /\ owner \in [Inodes -> Actors \cup {Nil}]
    /\ pid \in [Inodes -> Procs \cup {Nil}]
    /\ lpc \in [Actors -> Steps]
    /\ \A x \in Actors : fd[x] # Nil <=> lpc[x] \in Owning \cup {"opened"}

LockInit ==
    /\ path = Nil
    /\ fd = [x \in Actors |-> Nil]
    /\ owner = [i \in Inodes |-> Nil]
    /\ pid = [i \in Inodes |-> Nil]
    /\ lpc = [x \in Actors |-> "start"]

-----------------------------------------------------------------------------
GotoLock(x, step) == lpc' = [lpc EXCEPT ![x] = step]

\* The kernel's side of close: the descriptor goes and with it the flock.
Released(x) == [i \in Inodes |-> IF owner[i] = x THEN Nil ELSE owner[i]]

\* Unlock and close, and go on at a step.
Leave(x, step) ==
    /\ owner' = Released(x)
    /\ fd' = [fd EXCEPT ![x] = Nil]
    /\ GotoLock(x, step)

\* Acquire: open with O_CREAT
Open(p) ==
    /\ lpc[p] = "start"
    /\ path' = IF path = Nil THEN p ELSE path
    /\ fd' = [fd EXCEPT ![p] = path']
    /\ GotoLock(p, "opened")
    /\ UNCHANGED <<owner, pid>>

\* Mutant of Flock: the lock is taken from its owner.
FlockUnchecked(x) ==
    /\ lpc[x] = "opened"
    /\ owner' = [owner EXCEPT ![fd[x]] = x]
    /\ GotoLock(x, "locked")
    /\ UNCHANGED <<path, fd, pid>>

\* Acquire and TryClaimStale: flock(LOCK_EX | LOCK_NB) succeeds.
Flock(x) ==
    /\ lpc[x] = "opened"
    /\ owner[fd[x]] = Nil
    /\ owner' = [owner EXCEPT ![fd[x]] = x]
    /\ GotoLock(x, "locked")
    /\ UNCHANGED <<path, fd, pid>>

\* Acquire and TryClaimStale: EWOULDBLOCK.
FlockBusy(x) ==
    /\ lpc[x] = "opened"
    /\ owner[fd[x]] # Nil
    /\ Leave(x, "refused")
    /\ UNCHANGED <<path, pid>>

\* Acquire: Truncate(0)
Truncate(p) ==
    /\ lpc[p] = "locked"
    /\ pid' = [pid EXCEPT ![fd[p]] = Nil]
    /\ GotoLock(p, "truncated")
    /\ UNCHANGED <<path, fd, owner>>

\* Acquire: write and sync the PID; the lock is returned to the caller.
WritePid(p) ==
    /\ lpc[p] = "truncated"
    /\ pid' = [pid EXCEPT ![fd[p]] = p]
    /\ GotoLock(p, "held")
    /\ UNCHANGED <<path, fd, owner>>

\* Acquire: inspecting, truncating, seeking, writing or syncing fails.
AcquireFails(p) ==
    /\ lpc[p] \in {"opened", "locked", "truncated"}
    /\ Leave(p, "refused")
    /\ UNCHANGED <<path, pid>>

\* TryClaimStale: open without O_CREAT.  Recovery that found no lock file at first
\* tries again in RemoveStale.
ClaimOpen(c) ==
    /\ lpc[c] \in {"start", "missing"}
    /\ fd' = [fd EXCEPT ![c] = path]
    /\ GotoLock(c, IF path = Nil THEN "missing" ELSE "opened")
    /\ UNCHANGED <<path, owner, pid>>

\* Mutant of Claim: the PID is not compared.
ClaimUnchecked(c, expectedPID) ==
    /\ lpc[c] = "locked"
    /\ GotoLock(c, "held")
    /\ UNCHANGED <<path, fd, owner, pid>>

\* TryClaimStale: the PID in the file is the recorded one.
Claim(c, expectedPID) ==
    /\ lpc[c] = "locked"
    /\ pid[fd[c]] = expectedPID
    /\ GotoLock(c, "held")
    /\ UNCHANGED <<path, fd, owner, pid>>

\* TryClaimStale: it is not; unlock and close.
ClaimMismatch(c, expectedPID) ==
    /\ lpc[c] = "locked"
    /\ pid[fd[c]] # expectedPID
    /\ Leave(c, "refused")
    /\ UNCHANGED <<path, pid>>

\* StaleLock.Close: recovery gives up, the file stays.
ClaimClose(c) ==
    /\ lpc[c] = "held"
    /\ Leave(c, "gone")
    /\ UNCHANGED <<path, pid>>

\* Mutant of CloseCheck: the path is not compared with the inode.
CloseCheckNothing(x) ==
    /\ lpc[x] = "held"
    /\ GotoLock(x, "removing")
    /\ UNCHANGED <<path, fd, owner, pid>>

\* Lock.Close and StaleLock.Remove: os.SameFile(Lstat(path), file.Stat())
CloseCheck(x) ==
    /\ lpc[x] = "held"
    /\ GotoLock(x, IF path = fd[x] THEN "removing" ELSE "unlinked")
    /\ UNCHANGED <<path, fd, owner, pid>>

\* os.Remove(path): whatever the path names by now, or an error.
CloseRemove(x, ok) ==
    /\ lpc[x] = "removing"
    /\ path' = IF ok THEN Nil ELSE path
    /\ GotoLock(x, "unlinked")
    /\ UNCHANGED <<fd, owner, pid>>

CloseUnlock(x) ==
    /\ lpc[x] = "unlinked"
    /\ Leave(x, "gone")
    /\ UNCHANGED <<path, pid>>

\* kill -9
Kill(x) ==
    /\ lpc[x] \notin {"start", "refused", "gone"}
    /\ Leave(x, "gone")
    /\ UNCHANGED <<path, pid>>

\* An instance, from its start to its end
InstanceStep(p) ==
    \/ Open(p) \/ Flock(p) \/ FlockBusy(p)
    \/ Truncate(p) \/ WritePid(p) \/ AcquireFails(p)
    \/ CloseCheck(p) \/ (\E ok \in BOOLEAN : CloseRemove(p, ok)) \/ CloseUnlock(p)
    \/ Kill(p)

\* A crash recovery
CleanerStep(c) ==
    \/ ClaimOpen(c) \/ Flock(c) \/ FlockBusy(c)
    \/ \E expectedPID \in Procs : Claim(c, expectedPID) \/ ClaimMismatch(c, expectedPID)
    \/ ClaimClose(c)
    \/ CloseCheck(c) \/ (\E ok \in BOOLEAN : CloseRemove(c, ok)) \/ CloseUnlock(c)
    \/ Kill(c)

LockNext == (\E p \in Procs : InstanceStep(p)) \/ (\E c \in Cleaners : CleanerStep(c))

LockSpec == LockInit /\ [][LockNext]_lockVars

-----------------------------------------------------------------------------
\* An inode's flock belongs to a process exactly while that process is between its
\* flock and its unlock on this inode, so two of them never share an inode.
OwnerAgrees ==
    \A x \in Actors, i \in Inodes : owner[i] = x <=> (fd[x] = i /\ lpc[x] \in Owning)

\* The check with SameFile and the removal are two system calls on a path.  What the
\* removal unlinks is still the inode that was checked: a closing instance or a
\* recovery never unlinks the file that a successor has created meanwhile.
RemovesOwnInode == \A x \in Actors : lpc[x] = "removing" => path = fd[x]

\* Recovery holds a claim only on the file of an instance that is over: its
\* recorded PID is the last one that held the inode, and that process has ended.
ClaimsOnlyDead == \A c \in Cleaners :
    lpc[c] \in {"held", "removing"} => pid[fd[c]] # Nil /\ lpc[pid[fd[c]]] \in {"gone", "refused"}

\* "It never removes a lock held by a live process" (RemoveStale): while an instance
\* holds the lock and its file is at the path, no step of another process unlinks it.
LiveLockStays == [][
    \A p \in Procs : lpc[p] = "held" /\ path = fd[p] /\ lpc'[p] = "held"
                       => path' = path]_lockVars

\* What the documentation says and the code does not do.
\* Lock.Close: "no process can accidentally acquire this retiring inode between unlock
\* and removal"; system.lock_file keeps instances from changing the host's network at
\* the same time (docs/config-reference.md).
MutualExclusion == \A p, q \in Procs : lpc[p] = "held" /\ lpc[q] = "held" => p = q

=============================================================================
