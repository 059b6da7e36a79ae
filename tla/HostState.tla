------------------------------ MODULE HostState ------------------------------
(***************************************************************************)
(* What tun-proxy changes on the host and how it takes it back:            *)
(* internal/app/run_darwin.go (start, finish), internal/app/               *)
(* cleanup_darwin.go (crash recovery), internal/app/routes_darwin.go and   *)
(* internal/system (recovery record, DNS, routes), over the lock file of   *)
(* module InstanceLock.                                                    *)
(*                                                                         *)
(* An instance writes its plan to the recovery record (State, the file     *)
(* system.state_file) before each change, and undoes the recorded changes  *)
(* when it stops.  When it is killed, the kernel closes its utun and drops *)
(* the routes through it; `cleanup' undoes the rest from the record.  Each *)
(* command and each file replacement is one step; commands and writes fail *)
(* with or without effect, up to MaxFaults.                                *)
(***************************************************************************)
EXTENDS InstanceLock

CONSTANTS
    Services,    \* network services whose DNS is replaced
    NRoutes,     \* number of routes
    TunRoutes,   \* those through the utun; the others go by a physical interface
    MaxFaults,   \* bound on failing commands, failing writes and killed recoveries
    UserEdits    \* whether the user changes the DNS of a service

Routes == 1 .. NRoutes  \* in the order they are added

ASSUME HostAssumption ==
    /\ NRoutes \in Nat /\ TunRoutes \subseteq 1 .. NRoutes
    /\ MaxFaults \in Nat /\ UserEdits \in BOOLEAN

VARIABLES
    dns,     \* the DNS of each service: "orig", "user" or "applied" (our loopback)
    base,    \* the value that somebody else than tun-proxy last gave it
    routes,  \* the interface of each route: the utun of a process, "phys", or Nil
    tun,     \* the processes whose utun is open
    state,   \* the recovery record on disk, or Nil
    mem,     \* each process's copy of it
    ctl,     \* where each process is
    faults,
    late,      \* history: services the user changed between a process's reading and
               \*   setting of their DNS
    overtaken  \* history: a process took charge on a look at the record that was out of
               \*   date, or next to another one

ghost == <<late, overtaken>>
hostVars == <<dns, base, routes, tun, state, mem, ctl, faults, ghost>>
vars == <<lockVars, hostVars>>

Values == {"orig", "user"}
State == [pid : Procs, dns : [Services -> Values \cup {Nil}], routes : SUBSET Routes,
          tun : BOOLEAN]
Stages == {"check", "lock", "first", "tun", "route", "add", "dns", "apply", "running",
           "finish", "claim", "restore", "set", "restored", "routes", "device", "unlock",
           "remove", "save", "abort", "done"}

\* The marker for "none", the interface and the recorded values are told apart.
ASSUME MarkerAssumption ==
    /\ Nil \notin Values /\ Nil \notin State /\ Nil # "phys"
    /\ "phys" \notin Procs

NewState(p) == [pid |-> p, dns |-> [s \in Services |-> Nil], routes |-> {}, tun |-> FALSE]

\* then: the stage after a save; k: the route at hand; todo: services at hand; svc: the
\* service being set;
\* undoing: past the start of finish, or a recovery; errors: undoing met an error;
\* exists: the record was written.
NewCtl(x) == [at |-> "check", then |-> "done", k |-> 1, todo |-> {}, svc |-> Nil, errors |-> FALSE,
              undoing |-> x \in Cleaners, exists |-> x \in Cleaners]

\* The host, the recovery record and the control state have their types.
HostTypeOK ==
    /\ LockTypeOK
    /\ dns \in [Services -> Values \cup {"applied"}]
    /\ base \in [Services -> Values]
    /\ routes \in [Routes -> Procs \cup {"phys", Nil}]
    /\ tun \subseteq Procs
    /\ state \in State \cup {Nil}
    /\ mem \in [Actors -> State \cup {Nil}]
    /\ \A x \in Actors : ctl[x].at \in Stages /\ ctl[x].then \in Stages
    /\ faults \in 0 .. MaxFaults
    /\ late \subseteq Services /\ overtaken \in BOOLEAN

HostInit ==
    /\ LockInit
    /\ dns = [s \in Services |-> "orig"]
    /\ base = dns
    /\ routes = [k \in Routes |-> Nil]
    /\ tun = {}
    /\ state = Nil
    /\ mem = [x \in Actors |-> Nil]
    /\ ctl = [x \in Actors |-> NewCtl(x)]
    /\ faults = 0
    /\ late = {} /\ overtaken = FALSE

-----------------------------------------------------------------------------
At(x, stage) == ctl[x].at = stage
Go(x, stage) == ctl' = [ctl EXCEPT ![x].at = stage]

\* A step that fails is charged to the bound.
Charge(ok) == IF ok THEN faults' = faults ELSE faults < MaxFaults /\ faults' = faults + 1

Alive(p) == ~At(p, "check") /\ ~At(p, "done")
Interface(k, p) == IF k \in TunRoutes THEN p ELSE "phys"

\* An instance is in charge from its first record to the end, a recovery from its claim:
\* it changes the host and the record.
InCharge(x) ==
    \/ ctl[x].at \in {"tun", "route", "add", "dns", "apply", "running", "finish", "save", "restore",
                      "set", "restored", "routes", "device"}
    \/ ctl[x].at \in {"unlock", "remove"} /\ ctl[x].exists

\* Nothing is locked between a look at the record and the lock (Run, Cleanup), and nothing
\* from the release of the lock to the removal of the record.  x takes charge on a record
\* that is not the one it looked at, or next to a process whose lock file is gone.
Overtakes(x, looked) ==
    \/ state # looked
    \/ \E y \in Actors \ {x} : InCharge(y) /\ ~(lpc[y] \in {"held", "removing"} /\ fd[y] = path)

\* WriteState: a replacement that fails may have reached the rename.
WriteState(x, ok) ==
    /\ Charge(ok)
    /\ IF ok THEN state' = mem[x] ELSE state' \in {state, mem[x]}

-----------------------------------------------------------------------------
\* Start (Run): os.Lstat of the record comes before the lock.
CheckState(p) ==
    /\ At(p, "check")
    /\ Go(p, IF state = Nil THEN "lock" ELSE "done")
    /\ UNCHANGED <<lockVars, dns, base, routes, tun, state, mem, faults, ghost>>

\* daemon.Acquire, one system call at a time
AcquireStep(p) ==
    /\ At(p, "lock")
    /\ \/ (Open(p) \/ Flock(p) \/ FlockBusy(p) \/ Truncate(p) \/ WritePid(p)) /\ Charge(TRUE)
       \/ AcquireFails(p) /\ Charge(FALSE)
    /\ Go(p, IF lpc'[p] = "held" THEN "first" ELSE IF lpc'[p] = "refused" THEN "done" ELSE "lock")
    /\ mem' = [mem EXCEPT ![p] = IF lpc'[p] = "held" THEN NewState(p) ELSE @]
    /\ UNCHANGED <<dns, base, routes, tun, state, ghost>>

\* The first WriteState: when it fails the lock is closed and nothing else is done.
FirstSave(p, ok) ==
    /\ At(p, "first")
    /\ WriteState(p, ok)
    /\ ctl' = [ctl EXCEPT ![p].at = IF ok THEN "tun" ELSE "unlock", ![p].exists = ok]
    /\ overtaken' = (overtaken \/ Overtakes(p, Nil))
    /\ UNCHANGED <<lockVars, dns, base, routes, tun, mem, late>>

SaveThen(x, stage) == ctl' = [ctl EXCEPT ![x].at = "save", ![x].then = stage]

\* Where a failed WriteState leads: an instance that is stopping, or any process
\* that removes routes, notes the error and goes on; a starting instance undoes what
\* it did; a recovery stops.
AfterSave(x, ok) ==
    IF ok \/ ctl[x].then = "routes" \/ (x \in Procs /\ ctl[x].undoing) THEN ctl[x].then
    ELSE IF x \in Procs THEN "finish" ELSE "abort"

\* Mutant of Save: the record is not written.
SaveSkipping(x, ok) ==
    /\ At(x, "save")
    /\ Charge(ok)
    /\ ctl' = [ctl EXCEPT ![x].at = AfterSave(x, ok),
                          ![x].errors = @ \/ (~ok /\ ctl[x].undoing)]
    /\ UNCHANGED <<lockVars, dns, base, routes, tun, state, mem, ghost>>

\* Every later WriteState
Save(x, ok) ==
    /\ At(x, "save")
    /\ WriteState(x, ok)
    /\ ctl' = [ctl EXCEPT ![x].at = AfterSave(x, ok),
                          ![x].errors = @ \/ (~ok /\ ctl[x].undoing)]
    /\ UNCHANGED <<lockVars, dns, base, routes, tun, mem, ghost>>

\* tun.Create, then the record gets the utun's name.
CreateTun(p, ok) ==
    /\ At(p, "tun")
    /\ Charge(ok)
    /\ IF ok THEN /\ tun' = tun \cup {p}
                  /\ mem' = [mem EXCEPT ![p].tun = TRUE]
                  /\ SaveThen(p, "route")
             ELSE /\ Go(p, "finish")
                  /\ UNCHANGED <<tun, mem>>
    /\ UNCHANGED <<lockVars, dns, base, routes, state, ghost>>

\* The next route is recorded before it is added.
RecordRoute(p) ==
    /\ At(p, "route")
    /\ IF ctl[p].k \in Routes
       THEN mem' = [mem EXCEPT ![p].routes = @ \cup {ctl[p].k}] /\ SaveThen(p, "add")
       ELSE mem' = mem /\ Go(p, "dns")
    /\ UNCHANGED <<lockVars, dns, base, routes, tun, state, faults, ghost>>

\* AddRoute and VerifyRoute: an error may come before or after the route is in.
AddRoute(p, ok) ==
    /\ At(p, "add")
    /\ Charge(ok \/ routes[ctl[p].k] # Nil)
    /\ LET k == ctl[p].k
           added == [routes EXCEPT ![k] = Interface(k, p)]
       IN IF ok /\ routes[k] = Nil
          THEN routes' = added /\ ctl' = [ctl EXCEPT ![p].at = "route", ![p].k = k + 1]
          ELSE /\ routes' \in {routes, IF routes[k] = Nil THEN added ELSE routes}
               /\ Go(p, "finish")
    /\ UNCHANGED <<lockVars, dns, base, tun, state, mem, ghost>>

\* The pumps and Fake DNS start, or fail to; then SnapshotDNS and PlanDNS refuse a
\* service that already has our address, or record every service's present value
\* before the first change.
PlanDNS(p, ok) ==
    /\ At(p, "dns")
    /\ Charge(ok)
    /\ IF ~ok \/ \E s \in Services : dns[s] = "applied"
       THEN mem' = mem /\ Go(p, "finish")
       ELSE /\ mem' = [mem EXCEPT ![p].dns = dns]
            /\ ctl' = [ctl EXCEPT ![p].at = "save", ![p].then = "apply", ![p].todo = Services]
    /\ UNCHANGED <<lockVars, dns, base, routes, tun, state, ghost>>

\* ApplyDNS, one service at a time
Apply(p, s, ok) ==
    /\ At(p, "apply") /\ s \in ctl[p].todo
    /\ Charge(ok)
    /\ IF ok THEN dns' = [dns EXCEPT ![s] = "applied"]
             ELSE dns' \in {dns, [dns EXCEPT ![s] = "applied"]}
    /\ ctl' = [ctl EXCEPT ![p].at = IF ~ok THEN "finish"
                                    ELSE IF ctl[p].todo = {s} THEN "running" ELSE "apply",
                          ![p].todo = @ \ {s}]
    /\ UNCHANGED <<lockVars, base, routes, tun, state, mem, ghost>>

\* While it runs: the status socket and a reload's digest are written to the record.
Rewrite(p) ==
    /\ At(p, "running")
    /\ state' = mem[p]
    /\ UNCHANGED <<lockVars, dns, base, routes, tun, mem, ctl, faults, ghost>>

\* A signal, or one of the servers or pumps stopped
Stop(p) ==
    /\ At(p, "running")
    /\ Go(p, "finish")
    /\ UNCHANGED <<lockVars, dns, base, routes, tun, state, mem, faults, ghost>>

-----------------------------------------------------------------------------
\* finish, and cleanup once it has its claim: RestoreDNS, then the routes

Recorded(x) == {s \in Services : mem[x].dns[s] # Nil}

\* finish begins: the status server stops, the Fake IP mappings are flushed and phase
\* "stopping" is written; any error on the way is noted.
Finish(p, ok) ==
    /\ At(p, "finish")
    /\ WriteState(p, ok)
    /\ ctl' = [ctl EXCEPT ![p].at = "restore", ![p].undoing = TRUE, ![p].errors = ~ok,
                          ![p].todo = Recorded(p)]
    /\ UNCHANGED <<lockVars, dns, base, routes, tun, mem, ghost>>

\* Mutant of Restore: a value that is not the recorded one is set back, whose it may be.
RestoreBlindly(x, s, ok) ==
    /\ At(x, "restore") /\ s \in ctl[x].todo
    /\ Charge(ok)
    /\ LET settled == ok /\ dns[s] = mem[x].dns[s]
       IN /\ mem' = [mem EXCEPT ![x].dns[s] = IF settled THEN Nil ELSE @]
          /\ ctl' = IF ok /\ ~settled
                    THEN [ctl EXCEPT ![x].at = "set", ![x].svc = s]
                    ELSE [ctl EXCEPT ![x].todo = @ \ {s}, ![x].errors = @ \/ ~settled]
    /\ UNCHANGED <<lockVars, dns, base, routes, tun, state, ghost>>

\* RestoreDNS, one service at a time: the present value is asked for.  It is the recorded
\* one already, or ours and then to be set, or somebody else's and then left alone; an
\* error leaves the entry to be recorded again.
Restore(x, s, ok) ==
    /\ At(x, "restore") /\ s \in ctl[x].todo
    /\ Charge(ok)
    /\ LET settled == ok /\ dns[s] = mem[x].dns[s]
       IN /\ mem' = [mem EXCEPT ![x].dns[s] = IF settled THEN Nil ELSE @]
          /\ ctl' = IF ok /\ ~settled /\ dns[s] = "applied"
                    THEN [ctl EXCEPT ![x].at = "set", ![x].svc = s]
                    ELSE [ctl EXCEPT ![x].todo = @ \ {s}, ![x].errors = @ \/ ~settled]
    /\ UNCHANGED <<lockVars, dns, base, routes, tun, state, ghost>>

\* RestoreDNS, a second command: the recorded value is set, whatever is there by now.  An
\* error may come before or after the change.
SetRestored(x, ok) ==
    /\ At(x, "set")
    /\ Charge(ok)
    /\ LET s == ctl[x].svc
       IN /\ \/ dns' = [dns EXCEPT ![s] = mem[x].dns[s]]
             \/ ~ok /\ dns' = dns
          /\ mem' = [mem EXCEPT ![x].dns[s] = IF ok THEN Nil ELSE @]
          /\ ctl' = [ctl EXCEPT ![x].at = "restore", ![x].todo = @ \ {s}, ![x].svc = Nil,
                                ![x].errors = @ \/ ~ok]
    /\ UNCHANGED <<lockVars, base, routes, tun, state, ghost>>

\* What RestoreDNS left over is written.
RestoreDone(x) ==
    /\ At(x, "restore") /\ ctl[x].todo = {}
    /\ SaveThen(x, "restored")
    /\ UNCHANGED <<lockVars, dns, base, routes, tun, state, mem, faults, ghost>>

\* Mutant of Restored: the removal of routes begins one too far.
RestoredOneShort(x) ==
    /\ At(x, "restored")
    /\ ctl' = [ctl EXCEPT ![x].at = IF x \in Cleaners /\ ctl[x].errors THEN "abort" ELSE "routes",
                          ![x].k = NRoutes - 1]
    /\ UNCHANGED <<lockVars, dns, base, routes, tun, state, mem, faults, ghost>>

\* finish goes on to the routes in any case, cleanup only without errors.
Restored(x) ==
    /\ At(x, "restored")
    /\ ctl' = [ctl EXCEPT ![x].at = IF x \in Cleaners /\ ctl[x].errors THEN "abort" ELSE "routes",
                          ![x].k = NRoutes]
    /\ UNCHANGED <<lockVars, dns, base, routes, tun, state, mem, faults, ghost>>

\* system.RemoveRoute succeeds when the route is gone, deletes it when it goes by the
\* recorded interface, and refuses when it goes by another while that one exists.
RouteRefused(k, recorded) ==
    /\ routes[k] # Nil /\ routes[k] # recorded
    /\ recorded \in tun \cup {"phys"}

\* removeRecordedRoutes for one route, last first
RemoveRoute(x, ok) ==
    /\ At(x, "routes") /\ ctl[x].k \in Routes
    /\ LET k == ctl[x].k
           recorded == Interface(k, mem[x].pid)
       IN IF k \notin mem[x].routes
          THEN /\ ok
               /\ ctl' = [ctl EXCEPT ![x].k = k - 1]
               /\ UNCHANGED <<routes, mem, faults>>
          ELSE /\ Charge(ok)
               /\ \/ routes' = IF routes[k] = recorded THEN [routes EXCEPT ![k] = Nil] ELSE routes
                  \/ ~ok /\ routes' = routes
               /\ IF ok /\ ~RouteRefused(k, recorded)
                  THEN /\ mem' = [mem EXCEPT ![x].routes = @ \ {k}]
                       /\ ctl' = [ctl EXCEPT ![x].at = "save", ![x].then = "routes",
                                             ![x].k = k - 1]
                  ELSE /\ mem' = mem
                       /\ ctl' = [ctl EXCEPT ![x].errors = TRUE, ![x].k = k - 1]
    /\ UNCHANGED <<lockVars, dns, base, tun, state, ghost>>

\* After the routes: an instance closes its utun; a recovery stops on an error or
\* when the recorded utun still exists.
RoutesDone(x) ==
    /\ At(x, "routes") /\ ctl[x].k \notin Routes
    /\ Go(x, IF x \in Procs THEN "device"
             ELSE IF ctl[x].errors \/ (mem[x].tun /\ mem[x].pid \in tun) THEN "abort"
             ELSE "unlock")
    /\ UNCHANGED <<lockVars, dns, base, routes, tun, state, mem, faults, ghost>>

\* The kernel drops the routes of a utun that is closed.
DropTun(p) ==
    /\ tun' = tun \ {p}
    /\ routes' = [k \in Routes |-> IF routes[k] = p THEN Nil ELSE routes[k]]

\* device.Close and the end of the pumps and of the stack; an error is noted.
CloseDevice(p, ok) ==
    /\ At(p, "device")
    /\ Charge(ok)
    /\ DropTun(p)
    /\ ctl' = [ctl EXCEPT ![p].at = "unlock", ![p].errors = @ \/ ~ok]
    /\ UNCHANGED <<lockVars, dns, base, state, mem, ghost>>

\* Lock.Close and StaleLock.Remove, one system call at a time.  For a recovery a
\* replaced file is an error; for an instance it is not.
UnlockStep(x) ==
    /\ At(x, "unlock")
    /\ \/ /\ CloseCheck(x) /\ Charge(TRUE)
          /\ ctl' = [ctl EXCEPT ![x].errors = @ \/ (x \in Cleaners /\ path # fd[x])]
       \/ \E ok \in BOOLEAN : /\ CloseRemove(x, ok) /\ Charge(ok)
                              /\ ctl' = [ctl EXCEPT ![x].errors = @ \/ ~ok]
       \/ CloseUnlock(x) /\ Charge(TRUE) /\ Go(x, "remove")
    /\ UNCHANGED <<dns, base, routes, tun, state, mem, ghost>>

\* RemoveState, only if nothing went wrong; the file's contents are not compared.
Remove(x, ok) ==
    /\ At(x, "remove")
    /\ Charge(ok)
    /\ state' = IF ok /\ ctl[x].exists /\ ~ctl[x].errors THEN Nil ELSE state
    /\ Go(x, "done")
    /\ UNCHANGED <<lockVars, dns, base, routes, tun, mem, ghost>>

\* kill -9 of an instance
KillInstance(p) ==
    /\ Alive(p)
    /\ IF lpc[p] \in {"start", "refused", "gone"} THEN UNCHANGED lockVars ELSE Kill(p)
    /\ DropTun(p)
    /\ Go(p, "done")
    /\ UNCHANGED <<dns, base, state, mem, faults, ghost>>

-----------------------------------------------------------------------------
\* cleanup (CleanupWithStatusOwners): the record is read before the lock is claimed.
ReadState(c) ==
    /\ At(c, "check")
    /\ mem' = [mem EXCEPT ![c] = state]
    /\ Go(c, IF state = Nil THEN "done" ELSE "claim")
    /\ UNCHANGED <<lockVars, dns, base, routes, tun, state, faults, ghost>>

\* The claim is taken: phase "cleaning" is written first.
BeginCleaning(c) ==
    /\ ctl' = [ctl EXCEPT ![c].at = "save", ![c].then = "restore",
                          ![c].todo = Recorded(c)]
    /\ overtaken' = (overtaken \/ Overtakes(c, mem[c]))

\* TryClaimStale, one system call at a time
ClaimStep(c) ==
    /\ At(c, "claim")
    /\ lpc[c] # "missing"
    /\ \/ ClaimOpen(c) \/ Flock(c) \/ FlockBusy(c)
       \/ Claim(c, mem[c].pid) \/ ClaimMismatch(c, mem[c].pid)
    /\ IF lpc'[c] = "held" THEN BeginCleaning(c)
       ELSE Go(c, IF lpc'[c] = "refused" THEN "done" ELSE "claim") /\ UNCHANGED overtaken
    /\ UNCHANGED <<dns, base, routes, tun, state, mem, faults, late>>

\* No lock file: kill(pid, 0) tells whether the recorded process exists.
ProbeProcess(c) ==
    /\ At(c, "claim") /\ lpc[c] = "missing"
    /\ IF Alive(mem[c].pid) THEN Go(c, "done") /\ UNCHANGED overtaken ELSE BeginCleaning(c)
    /\ UNCHANGED <<lockVars, dns, base, routes, tun, state, mem, faults, late>>

\* RemoveStale, when there was no lock file to claim at first
RemoveStale(c) ==
    /\ At(c, "unlock") /\ lpc[c] \notin {"held", "removing", "unlinked"}
    /\ \/ ClaimOpen(c) \/ Flock(c) \/ FlockBusy(c)
       \/ Claim(c, mem[c].pid) \/ ClaimMismatch(c, mem[c].pid)
    /\ Go(c, IF lpc'[c] = "missing" THEN "remove"
             ELSE IF lpc'[c] = "refused" THEN "done" ELSE "unlock")
    /\ UNCHANGED <<dns, base, routes, tun, state, mem, faults, ghost>>

\* An early return: the deferred staleLock.Close
Abort(c) ==
    /\ At(c, "abort")
    /\ IF lpc[c] = "held" THEN ClaimClose(c) ELSE UNCHANGED lockVars
    /\ Go(c, "done")
    /\ UNCHANGED <<dns, base, routes, tun, state, mem, faults, ghost>>

KillCleaner(c) ==
    /\ ~At(c, "check") /\ ~At(c, "done")
    /\ Charge(FALSE)
    /\ IF lpc[c] \in {"start", "refused", "gone"} THEN UNCHANGED lockVars ELSE Kill(c)
    /\ Go(c, "done")
    /\ UNCHANGED <<dns, base, routes, tun, state, mem, ghost>>

\* A process has read the DNS of s and is going to set it.
Setting(x, s) ==
    \/ s \in ctl[x].todo /\ (At(x, "apply") \/ (At(x, "save") /\ ctl[x].then = "apply"))
    \/ At(x, "set") /\ ctl[x].svc = s

\* The user sets the DNS of a service.
UserSetsDNS(s, v) ==
    /\ UserEdits
    /\ dns[s] # v
    /\ dns' = [dns EXCEPT ![s] = v] /\ base' = [base EXCEPT ![s] = v]
    /\ late' = IF \E x \in Actors : Setting(x, s) THEN late \cup {s} ELSE late
    /\ UNCHANGED <<lockVars, routes, tun, state, mem, ctl, faults, overtaken>>

-----------------------------------------------------------------------------
Undo(x) ==
    \/ \E ok \in BOOLEAN : Save(x, ok) \/ SetRestored(x, ok) \/ RemoveRoute(x, ok) \/ Remove(x, ok)
    \/ \E s \in Services, ok \in BOOLEAN : Restore(x, s, ok)
    \/ RestoreDone(x) \/ Restored(x) \/ RoutesDone(x) \/ UnlockStep(x)

Instance(p) ==
    \/ CheckState(p) \/ AcquireStep(p)
    \/ \E ok \in BOOLEAN : \/ FirstSave(p, ok) \/ CreateTun(p, ok) \/ AddRoute(p, ok)
                           \/ PlanDNS(p, ok) \/ Finish(p, ok) \/ CloseDevice(p, ok)
    \/ RecordRoute(p) \/ Undo(p)
    \/ \E s \in Services, ok \in BOOLEAN : Apply(p, s, ok)

Cleanup(c) == ReadState(c) \/ ClaimStep(c) \/ ProbeProcess(c) \/ RemoveStale(c) \/ Abort(c) \/ Undo(c)

HostNext ==
    \/ \E p \in Procs : Instance(p) \/ Rewrite(p) \/ Stop(p) \/ KillInstance(p)
    \/ \E c \in Cleaners : Cleanup(c) \/ KillCleaner(c)
    \/ \E s \in Services, v \in Values : UserSetsDNS(s, v)

HostSpec == HostInit /\ [][HostNext]_vars

\* A process that was started goes on to its end: instances and recoveries are
\* sequential programs whose commands and shutdown have timeouts.
FairHostSpec == HostSpec
    /\ \A p \in Procs : WF_vars(Instance(p))
    /\ \A c \in Cleaners : WF_vars(Cleanup(c))

-----------------------------------------------------------------------------
\* Each change in effect on the host is in the record on disk, with the value to go back to.
RecordCovers(services) ==
    /\ \A s \in services : dns[s] = "applied" => state # Nil /\ state.dns[s] = base[s]
    /\ \A k \in Routes : routes[k] # Nil => state # Nil /\ k \in state.routes

\* WriteState: "the recovery record is durable before a network mutation begins".
\* At every step of start, stop and recovery, with any command or write failing and
\* any process killed, what `cleanup' needs is on disk.  Instances and recoveries
\* interleave freely; only one that has overtaken another (Overtakes) can lose it, and a
\* value that the user set while it was being replaced.
HostRecorded == ~overtaken => RecordCovers(Services \ late)

\* docs/config-reference.md, system.state_file: it records the changes that were made, and
\* `cleanup' restores exactly from it - whichever instances were started.  It fails in the
\* code once a process has overtaken another.
AlwaysRecorded == RecordCovers(Services)

\* A service that does not have our address has the value that somebody else gave it last.
UsersValue(services) == \A s \in services : dns[s] \in {"applied", base[s]}

\* After any stop or recovery, from whatever record it worked, no older value has come
\* back over the user's, unless the user set it between two commands that read and set it.
UserDNSKept == ~overtaken => UsersValue(Services \ late)

\* RestoreDNS: "Entries changed by a user or another process are returned in remaining
\* and are never overwritten".  It fails in the code when the user acts between two commands.
NeverOverwritten == UsersValue(Services)

\* docs/config-reference.md, system.lock_file: instances do not change the host's network at
\* the same time.  A running instance has its recovery record and its routes.
AlwaysIntact == \A p \in Procs : At(p, "running") =>
    /\ state # Nil /\ state.pid = p
    /\ \A k \in Routes : routes[k] = Interface(k, p)

\* The same whatever other instances and recoveries do short of overtaking: recovery
\* leaves a live instance alone, and no start or stop takes its record or its routes.
RunningIntact == ~overtaken => AlwaysIntact

\* The user has changed the DNS of a service since its value was recorded.
Superseded == state # Nil /\ \E s \in Services : state.dns[s] \notin {Nil, base[s]}

\* docs/plans/PLAN.md: after `cleanup' the host's DNS and routes are as before the
\* start.  A recovery that began when the recorded instance was dead, the lock file was
\* its own or gone and nobody else was at work, ends with the host restored and the record
\* gone, unless a command or a write fails or a value to restore was superseded by the user.
CleanupRestores == \A c \in Cleaners :
    (/\ At(c, "claim") /\ lpc[c] = "start"
     /\ path # Nil => pid[path] = mem[c].pid
     /\ \A p \in Procs : ~Alive(p)
     /\ \A x \in Actors : ~InCharge(x))
      ~> \/ faults > 0 \/ Superseded \/ overtaken
         \/ /\ \A s \in Services \ late : dns[s] = base[s]
            /\ (\A k \in Routes : routes[k] = Nil) /\ state = Nil

=============================================================================
