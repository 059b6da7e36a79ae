# TLA+ models of tun-proxy

tun-proxy is a macOS transparent proxy: it answers DNS queries with Fake IPs, routes
them into a utun device, terminates the flows in a user-space network stack, and sends
them out by rule. It changes the host's DNS and routes and must take that back whatever
happens to its processes. This directory models the parts of it in which order, failure
and concurrency decide whether it is correct, checks them with TLC on small instances,
and proves the most important invariants with TLAPS for every instance.

`PROJECT.json` lists the components, the runs, a mutant for every checked property, the
source lines of every definition, the hazards, the findings and the theorems.

## 1. The system

### Components, their state and their operations

| component | source (`src/internal/`) | state | operations |
|---|---|---|---|
| Fake-IP pool | `fakeip/pool.go` | `byDomain`, `byAddress`, cursor, expiry and reference count of each entry, pending deletions | `GetOrAllocate`, `Lookup`, `Acquire` and its release, `Prune` |
| Fake-IP persistence | `fakeip/persistence.go` | snapshot, journal, epoch | `OpenPersistence`, `record`, `checkpoint`, `ClearPersistence` |
| Instance lock | `daemon/lock_darwin.go` | lock file, its flock, the PID in it | `Acquire`, `Close`, `TryClaimStale`, `StaleLock.Remove` |
| Host network state | `app/run_darwin.go`, `app/cleanup_darwin.go`, `app/routes_darwin.go`, `system/` | DNS of each service, routes, utun, recovery record | start, stop, reload, `cleanup` |
| Data plane | `app/dataplane_darwin.go` | current and retired generations, reference counts, statistics | `acquire`, `commit`, `stats`, `pruneLocked` |
| Sessions | `session/tcp.go`, `session/udp.go` | UDP registry, flow counters, relays | `Handle`, admission, fallback |
| Supervisor and worker | `app/service_supervisor_darwin.go`, `app/service_worker_darwin.go` | running configuration of each half, recovery record | start, reload, stop |
| Privilege separation | `privsep/` | request number, the two message streams, the worker process | bootstrap, commit, reload, shutdown |
| Control server | `control/` | request cache by ID | `Process`, `executeReload`, `Close` |
| Launch service manager | `launchservice/` | installed files, managed configuration, operation lock | install, start, stop, reload, upgrade, uninstall |
| Network refresh | `app/network_refresh_*.go`, `app/effective_dns_darwin.go`, `app/default_routes_darwin.go`, `app/monitor.go` | last applied fingerprint, pending refresh | discover, compare, rebuild |
| Upstream resolver | `resolver/` | answer cache, queries on the wire | lookup, next server |
| Fake DNS | `fakedns/` | policy snapshot, concurrency limit, two serving loops | answer, forward, reload, close |
| Netstack and TUN | `netstack/`, `tun/` | TCP slots, running flows, relays, packet buffers | accept, relay, pump, close |
| Rules and dialers | `rules/`, `outbound/` | compiled rules | first match, dial, classify errors |
| Configuration, names, process attribution, status | `config/`, `domainname/`, `procattrib/`, `status/` | none | see "Not modelled" |

### How they interact

* Fake DNS calls `GetOrAllocate`; the answer is cached by clients for `dns_ttl`. A flow to
  a Fake IP calls `Acquire` and holds the entry until it ends. Every allocation goes
  through the journal before it is returned.
* The netstack hands flows to the data plane, whose `acquire` picks a generation of
  handlers; a reload or a network change swaps the generation. The UDP handlers of all
  generations share one limiter. A handler decides by rule, asks the resolver of the chosen
  outbound, dials, falls back on recoverable errors, and relays until both directions end.
* `Run` waits in one `select` for the context, reload requests, the network ticker, the
  DNS server and the two packet pumps. Reloads and refreshes replace the DNS server's policy
  and the data plane's generation while queries and flows use them.
* An instance holds the lock file, writes the recovery record before each change of DNS
  or routes, and undoes the recorded changes when it stops. After a kill, `cleanup`
  claims the stale lock and works from the record.
* Under launchd the root supervisor owns routes, DNS and record; the unprivileged worker
  owns utun, pool and data plane. They speak a private protocol. `service reload`
  replaces the managed configuration file and asks the supervisor over the control
  socket to load it. The other `service` commands change files, an account, the worker's
  storage and the launchd job, under one operation lock, and roll back what failed.

### What is hard

* mutexes that are released in the middle of an operation (allocation while it is
  persisted), and lock-free sequences (generation swap);
* files: power loss between system calls, a failing call after the visible effect, an
  open file whose name now belongs to another inode;
* checks made before a lock is held and used after it, and clean-up after it is released;
* three nested deadlines on one reload (command 15 s, supervisor 30 s, server 35 s), each
  of which leaves an answer that comes too late;
* transactions over things that have none (files, directory service, launchd), whose
  roll-backs run in deferred functions that look at each other's results;
* chains of fallbacks across lookups and dials, half-closed relays, and a close that must
  wake everything that waits;
* processes killed between any two steps.

The list, with lines, is `hazards` in `PROJECT.json`.

## 2. Modules

| module | models | composes |
|---|---|---|
| `FakeIPPool` | `pool.go` | |
| `FakeIPWal` | `persistence.go` under the pool | extends `FakeIPPool` |
| `InstanceLock` | `lock_darwin.go` | |
| `HostState` | start, stop and recovery of the host | extends `InstanceLock` |
| `DataPlane` | generation swap, flow admission, UDP limiter | |
| `Service` | reload command, control server, supervisor, private protocol, worker | |
| `Rules` | rule matching, as operators | |
| `Session` | a flow from the stack's accept to its last release, resolvers included | extends `Rules` |
| `Runtime` | a running instance: main loop, reload, refresh, DNS queries, pumps, shutdown | extends `Rules` |
| `Installation` | abstract: each command replaces the installation as a whole or not at all | |
| `LaunchService` | the `service` commands step by step, next to launchd | implements `Installation` |
| `*Proofs` | theorems about the module they extend | |
| `MC*` | instances for TLC; the `.cfg` files give the constants | |

Operators whose comment says "Mutant of ..." are faulty variants of the definition that
follows. No specification uses them; they show that the properties can fail.

### FakeIPPool

Addresses are indexes `0 .. Capacity-1` into the usable range, domains are model values,
time is a counter. `pool.mutex` makes each action atomic. `persistenceMutex` lets one
writer at a time be inside its I/O; `writer` is that call, and between its `Begin...` and
its end every other operation can run. A Go pointer to a deleted entry is a record with
`attached = FALSE`: nothing reads the fields of a deleted entry again. `answers` is a
history variable: the DNS answers clients may still use.

### FakeIPWal

Each system call of `record`, `checkpoint`, `clearJournal` and `OpenPersistence` is a
step. A file has its present contents and the set of contents that a power loss may leave
(`snapMay`, `journalMay`): unsynced data, and directory entries before the directory is
synced, survive or not. A record is whole or `Torn`; an unreadable snapshot is `Corrupt`.
JSON is abstracted to that. A failing call is `...Fails`, with the truncation that undoes
a partial append succeeding or failing.

### InstanceLock

`path` is the inode the lock file's name refers to, `fd`, `owner` and `pid` are each
process's descriptor, each inode's flock and the PID written in it. `Open`, `Flock`,
`Truncate`, `WritePid`, `SameFile`, `Remove` and unlock are separate steps; `Kill` may
come at any of them. Each process opens at most one inode, its own when it creates one.

### HostState

`ctl[x].at` is where process `x` is in `Run`, its `finish`, or `cleanup`. `dns`, `routes`
and `tun` are the host, `state` the record on disk, `mem` each process's copy. Each
command (`networksetup`, `route`) and each replacement of the record is one step that
may fail with or without effect, at most `MaxFaults` times. The kernel drops utun routes
when the device closes. `RestoreDNS` is two steps, `Restore` (`networksetup
-getdnsservers`) and `SetRestored` (`-setdnsservers`), between which the user may act, as
between `PlanDNS` and `Apply`; `late` remembers the services where the user did.

Instances and recoveries interleave freely. `cleanup` on the managed paths takes the
service operation lock (`main.go:404`), `run` and `cleanup` of other paths do not, so
nothing else orders them but the lock file. Both look at the record before they have the
lock, and give the lock up before they remove the record. `overtaken` is history: a process
took charge (`InCharge`) on a record that had changed since it looked, or next to one whose
lock file was already gone (`Overtakes`). What the record and the lock promise is stated up
to that event; run `host_intact` shows what happens after
it.

### DataPlane

Every atomic load, add and critical section is a step: `Load`, `CountIn`, `Recheck`,
`CountOut` are `acquire`; `Commit` swaps; `PruneCheck` and `PruneFold` are one iteration
of `pruneLocked`'s loop, between which flows run. Of a handler's statistics the total and
the active count are kept. `EndFlow` is the relay's end, which is up to the peers.

### Service

One value stands for a configuration and its digest. `cli` is the reload command, which
holds the operation lock, so there is one; `resp`, `completed` and `exec` are the control
server's cache and its `executeReload` goroutines; `sup` is the supervisor's goroutine
from start to `finish`; `toWorker` and `toSup` are the private protocol; `worker` is the
worker. The host is one flag (`captured`). In `finish` any call may also fail in time
(`Breaks`: writes of the record, DNS and route commands, closes, the lock); it is noted
and the rest goes on. Every deadline is a choice that is open as
soon as the waiting begins, so an answer may be early, late or absent. `MaxEvents` bounds
signals, ticks, edits of the file, lost connections, killed commands, I/O errors, deaths
of the worker and stops, together.

### Rules and Session

A rule is the set of names and the set of addresses it matches (or any) and its outbound.
`Session` gives each flow's goroutine a program counter: `Arrive` and `Endpoint` (the
stack), `Acquire` (Fake-IP reference and the part of `decideFlow` that needs no lookup),
`Lookup`, `Exchange`, `Answered`, `Onward` (a lookup with cache, limit, servers and
fallback), `Resolved` (the rule is matched against the answer, and perhaps a second lookup
begins), `Connect`, `Dial`, `NextAddress`, `Send` (dials with fallback), `Copy` and
`Relay...` (two copying goroutines and the one that collects them), `HandlerReturns`,
`Leave`. Errors are classes, as `IsRecoverable` and `IsBusinessError` tell them apart. A
scenario is a policy with bounds on what the environment does.

### Runtime

The main loop is cut wherever a query, a pump or the network may act in between. `loop`
are its locals; the steps `plan`, `build`, `dns`, `swap` are common to reload and refresh
and `loop.why` tells them apart, as their error paths differ. `refresh` is
`networkRefreshState`. A fingerprint is the interface's state with the *set* of servers
that all its outbounds ask (`Asked`), since the code sorts and compacts them; the plan of
bypass routes is the gateway with the host routes that the system does not keep itself,
and a lookup of it may fail. The two are independent: the gateway is not in the
fingerprint and the interface's address not in the plan. A query takes its snapshot in
`Load` and asks the current generation in `Decide`. `reader`, `writer` and `pool` are the
pumps and the buffers; a goroutine whose result is in its channel is `ended`, and `taken`
when the loop or `finish` has received it.

### LaunchService and Installation

A command is a program counter over shared pieces (`Start`, `Stop`, account, storage,
activation of files, roll-back). File contents are version numbers; the job is out, in or
leaving; the service process starts, becomes ready, gives up, crashes or exits by itself.
`dirs.rest` are files in the data directory that no command knows by name: a journal that a
crash left, a file set aside as corrupt. `Transactional` is the specification of
`Installation` under a mapping that shows the installation a command found until it ends:
between commands files, manifest, account and owner of the data are what the last one
reported, whatever failed inside. The exception is the code's own: a purge, or the roll-back
of a directory that it created, leaves a data directory that is not empty, which
`Installation` sees as `left`. `cmd.hasty` remembers that `Start`, or an uninstallation,
found launchd still removing the job. A command that
was killed, or whose roll-back failed as well, may leave anything (`torn`), from which
`UninstallClears` must still lead out.

## 3. Runs

Passing runs (every property with what it says is commented in its module):

| run | shows | bounds |
|---|---|---|
| `pool` | indexes inverse, counts exact, a client's answer stays valid, the bounded scan finds a free address, only the roll-back of a failed write takes a mapping from a flow | 3 domains for 2 mappings and 3 addresses (full pool, wrap of the cursor, reuse of an address), 2 flows, time 4 with TTL 2 and 1 (expiry, renewal, reuse) |
| `wal` | answers survive restarts (`DurableAnswers`), no address is ever in two clients' caches for two domains (`AnswersAgree`), and whatever a crash leaves recovers exactly the committed mappings (`CrashConsistent`) | 2 domains, 3 addresses, 1 flow, 2 crashes or 1 failing call, journal of 2 records (so checkpoints are forced), legacy snapshot, medium error |
| `host` | no process unlinks a successor's lock file, recovery claims only what the dead left; until a process overtakes another, every change in effect is in the record, and a running instance keeps record and routes | 2 instances, 1 recovery, in any interleaving, 1 service, a utun and a physical route, 1 fault, kills anywhere |
| `host_user` | outside the window between two commands no older DNS value comes back over the user's; a recovery restores the host | 1 instance, 1 recovery, user edits at every step, 1 fault |
| `dataplane` | no generation in use is let go, statistics are exact across reloads, UDP limits hold, flows that lose the race are served, replaced generations are freed | 1 TCP and 2 UDP flows of one source with limit 1, 2 generations |
| `service` | what `service reload` reports is true and stays true, the two halves agree, late answers fail nothing, a repeated request runs once, a clean stop is reported as one, a dead worker leaves no captured host | 2 configurations, 3 requests (an apply and its rollback, and one more), cache of 2, 1 disturbance besides the deadlines |
| `launch` | commands are all-or-nothing (refinement of `Installation`), what runs is what is installed, a stopped service stays stopped across respawns and reboots, a failed command brings the service up again, an uninstallation clears whatever is left | 7 kinds of host (bare, kept configuration with or without an account, installed and stopped, running, running at boot, the older version that ran as root), 2 commands, 2 failing calls or crashes, 1 killed command or reboot |
| `session` | flows are dialled only where the deciding rule and its fallbacks allow, with addresses told to that outbound; a flow reported as completed delivered both directions; nothing leaks on any path; `Close` ends every flow | scenarios: every shape of rules and fallback for one TCP or UDP flow with 2 failing calls; two flows that share cache and resolver limit (both 1); a relay in detail; two flows for one TCP slot |
| `runtime` | DNS server, data plane, loop, reported digest and record agree whenever the loop waits; a network whose servers, taken as a set, changed is applied in the end, and no failed refresh is forgotten; the instance returns whatever ends first; the device gets its packets | scenarios: queries under a reload, an edit, a network change and a fault; two queries at a limit of 1 under two reloads; two network changes (lists of servers in either order, beside an outbound that asks one of them; address; interface gone) with a reload and a fault; captured default route under two changes of gateway, servers, address or the system's own host routes, with a failing lookup; traffic on 2 buffers with 2 faults and every way to end |

Runs that TLC refutes, each a disagreement between the code and what a comment or a
document says of it (`findings` has the quotations):

| run | what happens |
|---|---|
| `wal_stale_epoch` | A checkpoint fails after its rename: the snapshot has a new epoch, the process goes on appending records of the old one, and the next start drops them. |
| `host_intact` | A recovery unlinks and releases the lock; an instance that had looked for a record before there was one gets the lock and starts; the recovery then removes the record, which is that instance's. |
| `launch_commit` | An installation over a kept configuration cannot remove the configuration's backup: the error makes the deferred roll-backs take storage and account away from files that stay installed. |

The modules state more claims of the documentation that the code does not keep. No run
repeats them (each definition's comment says where they come from); TLC refutes each when it
is checked under the configuration named here.

| claim | refuted in | what happens |
|---|---|---|
| `MutualExclusion` (`InstanceLock`) | `LockSpec` with three instances | A process opens the lock file, its owner unlinks and unlocks it, the process locks the unlinked inode, and a third creates and locks a new file: two owners. |
| `AlwaysRecorded` (`HostState`) | `MCHostState.cfg` | A recovery reads the record of an instance that still runs; the instance records and makes one more change and is killed; the recovery claims the lock and writes its outdated copy back. |
| `NeverOverwritten` (`HostState`) | `MCHostStateUser.cfg` | The user changes a service's DNS between the command that reads it and the one that restores it. |
| `ConfigKept` (`Service`) | `MCService.cfg` | A reload command is killed between the two renames that replace the managed configuration: there is none. |
| `PurgeComplete` (`LaunchService`) | `MCLaunchService.cfg` | The service crashes and leaves its journal; a purge removes the files it knows, takes the directory that is not empty for done and reports that the data was purged. |
| `AlwaysUpAgain` (`LaunchService`) | `MCLaunchService.cfg` | An upgraded service does not start; the roll-back boots it out and starts the old version without waiting; `Start` takes the leaving job for loaded, and nothing runs in the end, although no call of the roll-back failed. |
| `OnePolicy` (`Runtime`) | `MCRuntime.cfg` | A DNS query between the two stores of a reload takes its exclusions from one configuration and its decision from the other, because `shouldFake` is not part of the snapshot. |
| `ServersApplied` (`Runtime`) | `MCRuntime.cfg` | A lease gives the same servers in another order (or drops one that another outbound asks): the fingerprint is the same and the outbound keeps the old list. |
| `TopologyWatched` (`Runtime`) | `MCRuntime.cfg` | The gateway changes while address and servers stay: the bypass routes are not even compared, and the instance does not stop. |

`host_intact`, `MutualExclusion` and `AlwaysRecorded` need starts that are not serialised by
the operation lock, as those of `tun-proxy run` are not. `launch` has `CommitFaults`
without `install`, which is `launch_commit`'s question.

Type invariants (`TypeOK`, `WalTypeOK`, `HostTypeOK`, `ServiceTypeOK`, `LockTypeOK`,
`PlaneTypeOK`) document the variables. Those of the pool, the lock and the data plane are
proved, as are `WithinLimit`, `FlowDomain`, `OwnerAgrees`, `LiveLockStays`,
`RegistryExact` and `FoldedFrozen`, which no run repeats.

Deadlock checking is off everywhere: the bounds (time, epochs, requests, generations) and
the end of every process make final states legitimate. What must go on is stated as
liveness.

### Fairness

* `FairHostSpec`: a process that was started goes on (weak fairness of each instance and
  each recovery): they are sequential programs whose commands have timeouts. Nothing is
  assumed of kills, of `Stop`, or of the user.
* `FairPlaneSpec`: a flow's own code runs and the scan is a plain loop. Nothing makes a
  relay end, and nothing makes anybody query the status: `RetiredFreed` says that replaced
  generations are freed *if* queries keep coming. Without them only the next reload scans.
* `SessionSpec`: a flow's goroutines run, and calls return: lookups and dials have deadlines
  (`Exchange` and `Dial` may end in an error), the relay has its grace timer. A peer need
  not send or close; only once the connection is closed must a blocked copy return.
* `RuntimeSpec`: the loop, the queries and the pumps' own code run. Reads that wait for
  packets owe nothing. The ticker and the events that end the instance have strong
  fairness: Go's `select` chooses among ready cases at random, so a case that is ready
  again and again is taken.
* `FairServiceSpec`: the supervisor's goroutine runs and its clean-up deadline passes.
  Nothing is assumed of the worker, which may hang, of the command or of the handlers.

### What the bounds leave out

* `wal`: a torn record only at the second power loss (`TornFrom = 2`), and no failing call
  together with a crash (`Mixed = FALSE`). Beyond these bounds two behaviours of the code
  lose or resurrect a mapping: a torn record stays in the journal until the checkpoint at
  open has cleared it, and a second crash before that makes the whole journal be
  quarantined (`persistence.go:90-97`, `127-131`); and a record that was synced but whose
  close failed is rolled back in memory and replayed at the next start
  (`persistence.go:231-238`, `pool.go:384-386`).
* `AnswerStable` is stated for persists shorter than the margin between `mapping_ttl` and
  `dns_ttl` (`PromptIO`); a slower one can return an address whose mapping has expired.
* `host`: with the user's edits the product with two instances is out of reach, so
  `host_user` has one instance. `HostRecorded` and `UserDNSKept` except the services that
  the user set while a process was between reading and setting them (`late`); two commands
  cannot close that window, in which `NeverOverwritten` fails.
* `service`: an ID's cache record does not reach its time-to-live while its command
  waits, whose deadline is far shorter; a command waits for one answer at a time.
* `launch`: `UpAgain` excepts a `Start`, or an uninstallation, that finds launchd still
  removing the job (`hasty`): a comment says launchd may publish the removal late
  (`manager.go:369-371`), and `Stop` waits for it, but the roll-backs do not
  (`manager.go:277`, `658`), and `AlwaysUpAgain` fails in that case.
* `session`: the two UDP limits are in `DataPlane`; the clock of the caches moves once.
* `runtime`: queries are address queries; two changes of the network, which is enough for
  one to come back to the fingerprint that was applied.

### Known behaviours

What follows is what the code does, reached while modelling, and stated in the modules
where a definition is named.

* A mapping is visible while it is being written; if the write fails it is deleted under a
  flow that has acquired it meanwhile (`ReferencedNotReclaimed`, against
  `src/docs/plans/PLAN.md`).
* An instance that looked for a record in time, but was killed after it had opened and
  truncated the lock file of a dead one, leaves a file without a PID: every later `cleanup`
  is refused (`ClaimMismatch`) until the file is removed by hand. `CleanupRestores` is
  therefore about a lock file that is the dead instance's own, or gone.
* The fingerprint after a start or a reload is taken when everything has been built: a
  change of the interface in that window is not noticed, so that resolvers keep
  their DNS caches until the next change or sleep.
* `service stop` on a job that is installed to start at boot, but not loaded, does not
  disable it (`manager.go:358`): it starts at the next boot.
* The recovery record is in `/var/run`, which a reboot clears, while DNS settings made with
  `networksetup` persist.
* A server failure in reply to a lookup does not lead to a fallback outbound: only errors
  of the network do (`outbound/errors.go:28-60`). Addresses found through a fallback are
  not matched against the rules again; a comment says so (`decision.go:85-88`).
* A half-closed relay is cut when its grace ends although the other direction still sends
  (`relay.go:96`); the flow then counts as failed, not completed.
* The stack's `Close` waits on a `WaitGroup` that a handler enters after it took its slot:
  one that is between the two is not waited for.

Three behaviours of the managed service are deliberate or harmless but worth knowing:
a rollback returns to the previous *file*, which a hand edit may have made different from
the previous running configuration (`src/README.md:380-382` says the original running
configuration is restored); after a reload that timed out, the recovery record and the
worker may name different configurations until the next reload succeeds (`unsure`); and a
worker that leaves on a signal of its own may be reported as a failed stop, since its end
of file may be read before its exit status.

## 4. Proofs

TLAPS checks 49 theorems; those of one module rest on one inductive invariant. Each of
these was first an invariant of a TLC run on the module's small instance.

`FakeIPProofs` is about `FakeIPPool` and `FakeIPWal`. The pool, from the assumptions on
capacity, limit and TTLs that `config.go` enforces: the types are not inductive by
themselves: `Renew` updates the entry that `byDomain` names and `Release` the entry a flow
names, so those entries must exist. `IndexInv` = types, inverse indexes, the domain under
each flow, and the entry the writer is about. On it rest `RefCount`; `CacheInv`, which
says that what clients have cached expires before the mapping does, hence `AnswerStable`;
`WithinLimit`, which needs that the one pending writer's entry is counted; and
`ScanFindsFree`, a pigeonhole argument: the candidates are distinct and one more than the
addresses in use.

The files: `Clean` says, for each step of `record`, `checkpoint` and `OpenPersistence`,
which contents the two files have and may be left with, and what each pair of them
restores. While a call is inside its I/O every pair restores the pool's names but for the
allocation under way and the pending deletions (`Weak`); when it is done the one pair that
is left restores all of them (`Strong`). Two facts about recovery carry it: one more record
of the journal's epoch does to the restored table what `restoreJournal` does to its maps
(`RecoveredAppend`), and a snapshot of a newer epoch makes any older journal void
(`RecoveredFresh`), so the order in which the renamed snapshot and the removed journal
reach the disk does not matter. The first needs induction over the journal. The limit is
part of the invariant: a record is only written when the table without what it replaces has
room, or the replay would refuse the journal. `WalCrashConsistent` follows, for any number
of crashes at any step, as long as no call has failed; it assumes `PromptIO`, that one
call's I/O is shorter than `mapping_ttl - dns_ttl`, without which the entry that is being
persisted may be pruned meanwhile. `AnswersInv` adds the clients' answers: they are listed
in what the files restore while no process runs, in the pool under an unexpired entry while
one does. `WalDurableAnswers` and `WalAnswersAgree` hold while no call has failed and at
most one power loss could tear a record (`crashes <= TornFrom`): after a torn record the
journal is moved away before the first checkpoint replaces it, and a second power loss
between the two finds the snapshot alone. That a single failing call without a crash does
no harm is only model-checked; with a crash it does (run `wal_stale_epoch`).
`KindsAssumption` keeps the marks for no file, a torn record and an unreadable snapshot
apart from contents.

`HostStateProofs` begins with the lock, which `HostState` extends: `LockInv` = types, the
flock belongs to the process between flock and unlock, the path does not change between
check and removal, the PID in an inode is its last owner's, and a claim is on a dead
instance's file. The removal is safe because only the holder of an inode's flock unlinks
it, and no file is created at a name in use.

`DataPlaneProofs`: `PlaneInv` = types, exact reference and active counts, exact registry
and its limits, `ScanSound`, `InUseRetained`. A flow may count itself into a generation
after the scan saw zero there. `ScanSound` says that a generation found idle is retired
and handles nothing, and it stays so because a retired generation is never current again:
the late flow's second look turns it away. `StatsExact` compares a
sum over generations with a set of flows: the sum is the flows' number because each flow
counts in one generation, an induction over the set of generations.

`FoldFacts` holds what those proofs need of folds and sums. The library states induction
for a predicate that is an operator, which the provers cannot instantiate; here it is
stated for a set and rests on the existence of minimal elements.

On top of the lock `HostStateProofs` has two layers. `ShapeInv` = `LockInv`, types, and
for each actor what it has in memory at its stage (an instance its own record, a recovery
the one it read). It is enough for the types and for `HostUsesLock`: every step of a
start, a stop or a recovery is a step of the lock protocol or leaves it alone, so the
theorems about the lock hold of the whole. `HostInv` adds where the lock file is at each
stage, which of the host's changes belong to whom, and which part of a change is written
ahead of it. It is `ShapeInv`, how each actor uses the lock file (`LockUse`), and, as long
as nobody has been overtaken, `Sole`: at most one process is in charge, the changes in
effect are its own or a dead one's, and each is written ahead of being made and behind
being undone. The step that takes charge is where `Overtakes` enters: whoever holds the
file at the path, on the record it looked at, finds nobody else in charge. `HostRecorded`,
`RunningIntact` and `UserDNSKept` follow, for any number of instances and recoveries and
without any assumption on their order. `MarkerAssumption` keeps the marks for "no value"
and "the physical interface" apart from values and processes.

`ServiceProofs`: `ServiceInv` = types; the command's request ID against the control
server's records (`RequestInv`); for every place of the supervisor, the messages under way
in both directions and what the worker runs (`WireInv`: request numbers on the wire are
consecutive and end with the last one sent); how a stop ends (`StopInv`); and that once a
response confirms a configuration, nothing still under way names another (`PromiseInv`).
`AtMostOnce` follows from the first; `HalvesAgree` and `SessionInStep` need the wire,
because an answer may come after its deadline; `CleanStop` and `ReleasedOrRecorded` the
stop; `OutcomeHolds` the promise.
`NamesAssumption`: no configuration is one of the marks.

`RuntimeProofs`: `RuntimeInv` = types; what the loop's locals are for in each case of the
select; the DNS server is ahead of the data plane between the two stores and never else
(`HalvesInStep`); a reload that wrote the state file goes on to switch (`DiskInStep`); a
query that no reload overlaps has the exclusions of the generation that decides it
(`CalmSnapshot`, `CalmDecided`). Hence `PolicyAgrees`, for any networks, leases and
configurations. Three theorems state what no run
lists: only a reload changes the data plane's configuration; `Run` never waits for a
pump's result that it has already taken; no way out of a pump loses a buffer or returns it
twice.

`SessionProofs`: `SessionInv` is said flow by flow. `Routed` is about a flow's locals
alone: where it stands in the decision, the outbounds still allowed, who answered the
addresses it has, and, if nobody was asked, that every answer would have been rejected.
`Held` ties sockets, slots, references and the WaitGroup to the flow's step; `Relayed`
says that a relay which has noted no error has closed nothing and took only whole
directions; `Cached`, `Counted` and `Slotted` bound what flows share. A step of one flow
leaves the others' parts alone (`Local`), so each action is proved for its own flow
(`Sound`) and for what is shared. The chain of fallbacks is the least closed set, so the
proofs need no induction along it. `SessionAssumption` types the scenarios and asks for
the default rule at the end, which `rules.New` appends.

`LaunchServiceProofs`: `LaunchInv` = the shape of a command's record and of the host;
a live process has a record and a job, and while the job is in and no roll-back has failed
it runs the files that are there (`ProcessInv`); where Start and Stop return to, and that
files change only at steps where the job is out or, in a roll-back, on its way out
(`CommandInv`); the disabled label after `service stop` (`StopInv`); and how far an
uninstallation without a failing call has got (`UninstallInv`). `RunsInstalled` needs the
second and third, `StoppedStays` the fourth, and the action property `UninstallClears` the
last. Failing calls, moves that only change the program counter, changes of files and ends
of commands each have one lemma (`FaultInv`, `MoveInv`, `FilesInv`, `EndInv`) that their
actions use.

That `LaunchService` implements `Installation` (`CommandsAreTransactions`) needs to know at
every step what a command has changed and still can put back. `TxInv` says it: every file
with an entry in `done` has its new contents in place and its old ones in the entry, and the
rest are as the command found them (`TxFiles`); how far the list of files is (`TxProgress`);
what was there for the command to begin with (`TxBefore`); whether the account is the
command's own, and half of it made or removed (`TxIdentity`); and the owner the data had
(`TxStorage`). It holds until a command is killed or a roll-back fails, which is
`Installation`'s `Tear`. A step of control keeps it by one lemma over the edges of the
program counter (`Edge`, `EdgeTx`); account, storage and each kind of file step have their
own. `Refines` then reads off the last step of a command what it reports, and every other
step is a stutter. A consequence is that an installation that is there is complete and
usable (`SeenInv`, theorem `InstalledStaysUsable`), from which `UpInv` gets that what a
roll-back restarts can be started: the job is away while files change, what was up had been
installed, and a job that the roll-back has started stays until the command returns
(`ServiceIsUpAgain`).

All three theorems assume `"install" \notin CommitFaults`. With it they fail, as run
`launch_commit` shows for `InstalledUsable`. Run `launch` has the same constants. Nothing is
assumed of launchd: a job may stay as long as it likes after a bootout.

The theorems hold for any number of commands, domains, addresses, flows, processes,
inodes, keys, generations, rules and outbounds. They do not mention the bounds except as
constants.

Five definitions changed on the way. `Resolved` in `Session` had overlapping cases, of
which TLC took the first; they are disjoint now, as the code's early returns make them.
`Chain` was a recursive definition and is now the least closed set. The sums of `DataPlane`
and the replay of `FakeIPWal` were recursive and are folds of the community modules; a
refused replay (`Overflow`) was a constant and is a set that is no table.

Only model-checked: liveness (`FlowsServed`, `RetiredFreed`, `CleanupRestores`,
`DeadWorkerReleased`, `StackCloses`, `NetworkApplied`, `RunEnds`, `OutputFlows`), which is
out of this prover's reach; and `DurableAnswers` and `AnswersAgree` after a failing call.

## 5. Not modelled

Parsing and validation of the configuration, domain names, error texts, the interface
list, process attribution, log files, diagnosis and the status socket are sequential or
read-only and have unit tests; their results are constants of the modules. Framing,
payload validation, peer credentials and the passing of descriptors are abstracted: a
message arrives whole and in order, or the stream ends. The control server's conflict
answer needs a client that reuses an ID, which the command never does. Socket options, the
contents of packets, and the TCP of the user-space stack are outside. Counters for the
status output are modelled where reloads could lose them (`DataPlane`) and nowhere else.

## 6. Plan

Order: what can lose the user's network first, then what carries the traffic, then
algorithms. The modules of section 2 and the proofs of section 4 are done. To come:

1. Proofs: `DurableAnswers` after one failing call and no crash.
2. Refinement: `FakeIPWal` implements a durable map that changes by whole allocations and
   deletions; `DataPlane` implements an atomic swap.
3. A composition of `Service` and `Runtime`: the supervisor's ticker next to the worker's.
