---------------------------- MODULE LaunchService ----------------------------
(***************************************************************************)
(* The commands that install, start, stop, upgrade and uninstall the       *)
(* managed service, step by step, next to launchd and the service process. *)
(*                                                                         *)
(* A command is a program counter over shared pieces (Start, Stop, the     *)
(* account, the worker's storage, activation of files, and the roll-back   *)
(* of all of these); the operation lock admits one command at a time.  Any *)
(* fallible call may fail, at most MaxFaults times, and a command may be   *)
(* killed or the host rebooted between any two steps.  File contents are   *)
(* version numbers, and the manifest is Manual or AtBoot, which decides    *)
(* whether launchd keeps the job alive.                                    *)
(***************************************************************************)
EXTENDS Naturals, Sequences

CONSTANTS
    Inits,        \* the hosts a behaviour may begin with
    MaxOps,       \* bound: commands
    MaxFaults,    \* bound: calls that fail, deadlines that pass, crashes of the service
    MaxKills,     \* bound: killed commands and reboots
    CommitFaults  \* commands whose removal of backups or tombstones may fail

ASSUME LaunchAssumption ==
    /\ Inits \subseteq {"bare", "kept", "keptroot", "stopped", "manual", "boot", "legacy"}
    /\ MaxOps \in Nat /\ MaxFaults \in Nat /\ MaxKills \in Nat
    /\ CommitFaults \subseteq {"install", "start", "upgrade", "uninstall", "purge"}

VARIABLES
    file,     \* contents of the managed files; Absent when there is none
    account,  \* the dedicated user and group in the directory service
    dirs,     \* owner of the worker's runtime directory and of its data directory, and
              \* what the data directory holds besides the managed files
    job,      \* the launchd job: registered or not, keep-alive, and a spawn that is due
    enabled,  \* the label is not disabled; survives reboots
    svc,      \* the service process, its recovery record's phase and what it runs
    cmd,      \* the command that holds the operation lock
    last,     \* what the last finished command reported
    ops, faults, kills, \* bounds
    torn      \* history: a command was killed midway, or its roll-back failed too

host == <<file, account, dirs>>
launchd == <<job, enabled, svc>>
vars == <<file, account, dirs, job, enabled, svc, cmd, last, ops, faults, kills, torn>>

Absent == 0
Legacy == 1      \* a version whose service ran as root, without an account
Present == 2     \* the version installed at the beginning
Version == 0 .. Present + MaxOps
Manual == 1
AtBoot == 2
NoAccount == [user |-> FALSE, group |-> FALSE]
WholeAccount == [user |-> TRUE, group |-> TRUE]
NoDirs == [worker |-> "absent", data |-> "absent", rest |-> {}]

Idle == [op |-> "none", at |-> "idle", ok |-> "", no |-> "", ver |-> Absent, plist |-> Absent,
         start |-> FALSE, again |-> FALSE, back |-> FALSE, up |-> FALSE, hasty |-> FALSE,
         created |-> FALSE, left |-> FALSE,
         saved |-> <<>>, fresh |-> FALSE, todo |-> <<>>, held |-> Absent, done |-> <<>>,
         res |-> "failed", clean |-> TRUE, loaded |-> FALSE, was |-> <<>>]

\* Manager.installed: all three artifacts are there.
Installed == Absent \notin {file.binary, file.config, file.plist}

\* Manager.probeRuntime: the recovery record names a live process.
Running == svc.alive /\ svc.phase # ""
Ready == svc.alive /\ svc.phase = "running"
Loaded == job.st # "out"

\* What a command has to keep together (see Installation).
Inst == [binary |-> file.binary, config |-> file.config, plist |-> file.plist,
         account |-> account, data |-> dirs.data]

NoJob == [st |-> "out", keep |-> FALSE, want |-> FALSE]

\* Manifest: only a job that starts at boot has RunAtLoad and KeepAlive.
JobOf(plist) == [st |-> "in", keep |-> plist = AtBoot, want |-> plist = AtBoot]

\* ManifestStartAtBoot: an upgrade without -start-at-boot keeps the installed choice.
StartAtBoot(choice) == IF choice = Absent THEN file.plist ELSE choice

Dead(phase) == [alive |-> FALSE, phase |-> phase, runs |-> <<Absent, Absent>>]
Files(b, c, p, m) == [binary |-> b, config |-> c, plist |-> p, mappings |-> m]

\* "bare": nothing installed.  "kept": an uninstallation kept the configuration, in
\* "keptroot" that of a version that ran as root.  "stopped", "manual", "boot": installed,
\* and running in the last two; the stopped one has set a corrupt file aside before,
\* the manual one has journalled mappings.
\* "legacy": a stopped service of a version that ran as root.
LaunchInit ==
    /\ \E i \in Inits :
        /\ file = CASE i = "bare" -> Files(Absent, Absent, Absent, Absent)
                    [] i \in {"kept", "keptroot"} -> Files(Absent, Present, Absent, 1)
                    [] i = "boot" -> Files(Present, Present, AtBoot, 1)
                    [] i = "legacy" -> Files(Legacy, Present, Manual, Absent)
                    [] OTHER -> Files(Present, Present, Manual, 1)
        /\ account = IF i \in {"bare", "legacy", "keptroot"} THEN NoAccount ELSE WholeAccount
        /\ dirs = CASE i = "bare" -> NoDirs
                    [] i \in {"legacy", "keptroot"} ->
                         [worker |-> "absent", data |-> "root", rest |-> {}]
                    [] OTHER -> [worker |-> "worker", data |-> "worker",
                                 rest |-> CASE i = "stopped" -> {"corrupt"}
                                           [] i = "manual" -> {"journal"}
                                           [] OTHER -> {}]
        /\ job = IF i \in {"manual", "boot"}
                 THEN [st |-> "in", keep |-> i = "boot", want |-> FALSE] ELSE NoJob
        /\ enabled = (i \in {"bare", "manual", "boot"})
        /\ svc = IF i \in {"manual", "boot"}
                 THEN [alive |-> TRUE, phase |-> "running", runs |-> <<Present, Present>>]
                 ELSE Dead("")
    /\ cmd = Idle
    /\ last = [op |-> "none", res |-> "ok", clean |-> TRUE, loaded |-> FALSE, left |-> FALSE]
    /\ ops = 0 /\ faults = 0 /\ kills = 0 /\ torn = FALSE

----------------------------------------------------------------------------
\* Control of a command

At(l) == cmd.at = l

\* The labels of the roll-backs.
Undoing == {"ungroup", "syncstop", "unload", "recover", "undo", "unstore", "purge", "degroup",
            "restore"}

To(l) == [cmd EXCEPT !.at = l, !.back = @ \/ l \in Undoing]
Goto(l) == cmd' = To(l)
Call(sub, ok, no) == cmd' = [cmd EXCEPT !.at = sub, !.ok = ok, !.no = no]
Step == UNCHANGED <<last, ops, faults, kills, torn>>

\* A call fails and the command goes on at l; in a roll-back the damage stays.
Fault(l) ==
    /\ faults < MaxFaults
    /\ faults' = faults + 1
    /\ cmd' = [To(l) EXCEPT !.clean = FALSE]
    /\ torn' = (torn \/ cmd.back)
    /\ UNCHANGED <<last, ops, kills>>

\* A call fails without any effect on the host.
FaultAt(l, to) == At(l) /\ Fault(to) /\ UNCHANGED <<host, launchd>>

\* The command returns to its caller and releases the operation lock (OperationGuard.Close).
Report(res, left) ==
    /\ last' = [op |-> cmd.op, res |-> res, clean |-> cmd.clean, loaded |-> cmd.loaded,
                left |-> left]
    /\ cmd' = Idle
    /\ UNCHANGED <<ops, faults, kills, torn>>

End(res) == Report(res, cmd.left)

\* BeginOperation: one command at a time; a second one is turned away without effect.
Begin(op, first, rest) ==
    /\ cmd = Idle /\ ops < MaxOps
    /\ ops' = ops + 1
    /\ cmd' = [rest EXCEPT !.op = op, !.at = first, !.ver = Present + ops + 1, !.was = Inst]
    /\ UNCHANGED <<host, launchd, last, faults, kills, torn>>

BeginCommand ==
    \/ \E s \in BOOLEAN, p \in {Manual, AtBoot} :
         Begin("install", "install",
               [Idle EXCEPT !.start = s, !.plist = p, !.todo = <<"binary", "config", "plist">>])
    \/ \E c \in BOOLEAN, p \in {Absent, Manual, AtBoot} :
         Begin("upgrade", "upgrade",
               [Idle EXCEPT !.plist = StartAtBoot(p),
                            !.todo = IF c THEN <<"binary", "config", "plist">>
                                     ELSE <<"binary", "plist">>])
    \/ \E a \in BOOLEAN :
         Begin("start", "sync", [Idle EXCEPT !.again = a, !.todo = <<"config">>])
    \/ Begin("restart", "restart", Idle)
    \/ Begin("stop", "stop", [Idle EXCEPT !.ok = "ok", !.no = "fail"])
    \/ Begin("uninstall", "uninstall", [Idle EXCEPT !.todo = <<"plist", "binary">>])
    \/ Begin("purge", "uninstall",
             [Idle EXCEPT !.todo = <<"plist", "binary", "config", "mappings">>])

\* The checks before anything is changed: a source that cannot be staged, a launchctl or
\* a probe that fails.
Refuse == \E l \in {"install", "upgrade", "sync", "restart", "uninstall"} : FaultAt(l, "fail")

----------------------------------------------------------------------------
\* Manager.Start: enable, bootstrap unless loaded, kickstart, wait until ready

StartEnable ==
    /\ At("start")
    /\ IF Installed THEN enabled' = TRUE /\ Goto("bootstrap")
       ELSE Goto(cmd.no) /\ UNCHANGED enabled
    /\ Step /\ UNCHANGED <<host, job, svc>>

\* A job that is still being removed counts as loaded; `hasty` remembers that there was
\* one, here or when an uninstallation began.
StartBootstrap ==
    /\ At("bootstrap")
    /\ job' = IF Loaded THEN job ELSE JobOf(file.plist)
    /\ cmd' = [To("kick") EXCEPT !.hasty = @ \/ job.st = "leaving"]
    /\ Step /\ UNCHANGED <<host, enabled, svc>>

\* A kickstart that fails is only reported if the service does not become ready.
StartKick ==
    /\ At("kick")
    /\ job' = IF job.st = "in" /\ ~svc.alive THEN [job EXCEPT !.want = TRUE] ELSE job
    /\ Goto("ready")
    /\ Step /\ UNCHANGED <<host, enabled, svc>>

StartReady ==
    /\ At("ready") /\ Ready
    /\ Goto(cmd.ok)
    /\ Step /\ UNCHANGED <<host, launchd>>

\* The worker can run: its account is whole and it owns its data.
Usable ==
    IF svc.runs[1] = Legacy THEN dirs.data = "root"
    ELSE account = WholeAccount /\ dirs.data = "worker"

\* StartTimeout passes although nobody failed: no process will become ready.
Hopeless == IF svc.alive THEN ~Usable ELSE ~(job.st = "in" /\ job.want)

StartHopeless ==
    /\ At("ready") /\ ~Ready /\ Hopeless
    /\ Goto(cmd.no)
    /\ Step /\ UNCHANGED <<host, launchd>>

StartFails ==
    \/ FaultAt("start", cmd.no)
    \/ FaultAt("bootstrap", cmd.no)
    \/ FaultAt("kick", "ready")
    \/ ~Ready /\ FaultAt("ready", cmd.no)

----------------------------------------------------------------------------
\* Manager.Stop: disable, bootout, wait until the job and the process are gone, recover

\* Mutant of StopDisable: the label stays enabled.
StopDisableNot ==
    /\ At("stop")
    /\ cmd' = [cmd EXCEPT !.at = IF Loaded THEN "bootout" ELSE "leftover", !.loaded = Loaded]
    /\ Step /\ UNCHANGED <<host, launchd>>

StopDisable ==
    /\ At("stop")
    /\ cmd' = [cmd EXCEPT !.at = IF Loaded THEN "bootout" ELSE IF Running THEN cmd.no ELSE "leftover",
                          !.loaded = Loaded]
    /\ enabled' = (enabled /\ ~Loaded)
    /\ Step /\ UNCHANGED <<host, job, svc>>

Leaving == [job EXCEPT !.st = "leaving", !.want = FALSE]

StopBootout ==
    /\ At("bootout")
    /\ job' = Leaving
    /\ Goto("unloading")
    /\ Step /\ UNCHANGED <<host, enabled, svc>>

StopUnloaded ==
    /\ At("unloading") /\ ~Loaded /\ ~Running
    /\ Goto("leftover")
    /\ Step /\ UNCHANGED <<host, launchd>>

\* CleanupWithStatusOwners: restores what the record of a dead process names, and
\* refuses while its process holds the instance lock.
Recovered == IF svc.alive THEN svc ELSE Dead("")

StopRecover ==
    /\ At("leftover")
    /\ svc' = Recovered
    /\ Goto(IF Running THEN cmd.no ELSE cmd.ok)
    /\ Step /\ UNCHANGED <<host, job, enabled>>

StopFails ==
    \/ FaultAt("stop", cmd.no)
    \/ FaultAt("bootout", cmd.no)
    \/ FaultAt("unloading", cmd.no)
    \/ FaultAt("leftover", cmd.no)

----------------------------------------------------------------------------
\* Account, storage and files

InstallCheck ==
    /\ At("install")
    /\ Goto(IF Loaded THEN "fail" ELSE "ensure")
    /\ Step /\ UNCHANGED <<host, launchd>>

\* Where a failure before the transaction's first change of a file leads.
EarlyFailure == IF cmd.op = "install" THEN "fail" ELSE "restore"

\* dedicatedAccounts.Ensure: a whole identity is used, half of one refused, and none
\* created, the group first.
EnsureGroup ==
    /\ At("ensure")
    /\ Goto(CASE account = WholeAccount -> "storage"
              [] account = NoAccount -> "user"
              [] OTHER -> EarlyFailure)
    /\ account' = [account EXCEPT !.group = @ \/ account = NoAccount]
    /\ Step /\ UNCHANGED <<file, dirs, launchd>>

\* allocateWorkerID takes the highest ID that is free: the one of the account deleted
\* last, to which directories may still belong, or another.
EnsureUser ==
    /\ At("user")
    /\ account' = WholeAccount
    /\ \E owner \in IF dirs.data = "stray" THEN {"stray", "worker"} ELSE {dirs.data} :
         dirs' = [dirs EXCEPT !.data = owner]
    /\ cmd' = [cmd EXCEPT !.at = "storage", !.created = TRUE]
    /\ Step /\ UNCHANGED <<file, launchd>>

Ungroup ==
    /\ At("ungroup")
    /\ account' = [account EXCEPT !.group = FALSE]
    /\ Goto(EarlyFailure)
    /\ Step /\ UNCHANGED <<file, dirs, launchd>>

\* prepareWorkerStorage: creates or takes over the worker's directories, remembering
\* their owners and which persistence files did not exist.  A directory of neither root
\* nor the worker is refused.
PrepareStorage ==
    /\ At("storage")
    /\ IF dirs.data = "stray" THEN Goto("purge") /\ UNCHANGED dirs
       ELSE /\ dirs' = [dirs EXCEPT !.worker = "worker", !.data = "worker"]
            /\ cmd' = [cmd EXCEPT !.at = "activate", !.saved = <<dirs>>,
                                  !.fresh = file.mappings = Absent]
    /\ Step /\ UNCHANGED <<file, account, launchd>>

New(a) == IF a = "plist" THEN cmd.plist ELSE cmd.ver

\* Where a failed activation leads: Install has loaded nothing yet, Upgrade first makes
\* sure that nothing is loaded, SynchronizeConfig has replaced nothing.
FailedActivation ==
    CASE cmd.op = "install" -> "undo"
      [] cmd.op = "upgrade" -> "unload"
      [] OTHER -> "restore"

\* activateStage, first half: the present file is renamed to a backup.  Install accepts
\* only a configuration that an uninstallation has kept.
Backup ==
    /\ At("activate") /\ cmd.todo # <<>>
    /\ LET a == Head(cmd.todo) IN
         IF cmd.op = "install" /\ a # "config" /\ file[a] # Absent
         THEN Goto(FailedActivation) /\ UNCHANGED file
         ELSE /\ cmd' = [cmd EXCEPT !.at = "place", !.held = file[a]]
              /\ file' = [file EXCEPT ![a] = Absent]
    /\ Step /\ UNCHANGED <<account, dirs, launchd>>

\* activateStage, second half: the staged file is renamed into place.
Place ==
    /\ At("place")
    /\ LET a == Head(cmd.todo) IN
         /\ file' = [file EXCEPT ![a] = New(a)]
         /\ cmd' = [cmd EXCEPT !.at = "activate", !.todo = Tail(@), !.held = Absent,
                               !.done = <<[file |-> a, old |-> cmd.held]>> \o @]
    /\ Step /\ UNCHANGED <<account, dirs, launchd>>

Activated ==
    /\ At("activate") /\ cmd.todo = <<>>
    /\ IF IF cmd.op = "install" THEN cmd.start ELSE cmd.up
       THEN Call("start", "commit", IF cmd.op = "start" THEN "syncstop" ELSE "unload")
       ELSE Goto("commit")
    /\ Step /\ UNCHANGED <<host, launchd>>

\* replacement.commit for every replaced file: only the backups go.  `service start`
\* starts a service that SynchronizeConfig did not restart; if that fails, the new
\* configuration stays.
Commit ==
    /\ At("commit")
    /\ IF cmd.op = "start" /\ ~cmd.up
       THEN /\ cmd' = [cmd EXCEPT !.at = "start", !.ok = "ok", !.no = "fail", !.res = "untidy"]
            /\ Step
       ELSE End("ok")
    /\ UNCHANGED <<host, launchd>>

\* A backup that cannot be removed is an error.  Install's deferred functions then see an
\* error and roll the storage and the account back under the installed service.
CommitFails ==
    /\ At("commit") /\ cmd.op \in CommitFaults
    /\ \E i \in DOMAIN cmd.done : cmd.done[i].old # Absent
    /\ faults < MaxFaults
    /\ faults' = faults + 1
    /\ cmd' = [To(IF cmd.op = "install" THEN "unstore" ELSE "fail") EXCEPT
                 !.clean = FALSE, !.res = "untidy"]
    /\ UNCHANGED <<host, launchd, last, ops, kills, torn>>

\* A failing call of Ensure, prepareWorkerStorage or activateStage: each undoes its own
\* partial work.
PrepareFails ==
    \/ FaultAt("ensure", EarlyFailure)
    \/ FaultAt("user", "ungroup")
    \/ FaultAt("ungroup", EarlyFailure)
    \/ FaultAt("storage", "purge")
    \/ cmd.todo # <<>> /\ FaultAt("activate", FailedActivation)
    \/ /\ At("place") /\ Fault(FailedActivation)
       /\ file' = [file EXCEPT ![Head(cmd.todo)] = cmd.held]
       /\ UNCHANGED <<account, dirs, launchd>>

----------------------------------------------------------------------------
\* Roll-back, in the order of the code: unload, recover, files, storage, account, restart

\* Mutant of Unload: the job of the failed start stays loaded.
UnloadNot ==
    /\ At("unload")
    /\ Goto("recover")
    /\ Step /\ UNCHANGED <<host, launchd>>

Unload ==
    /\ At("unload")
    /\ job' = IF Loaded THEN Leaving ELSE job
    /\ Goto("recover")
    /\ Step /\ UNCHANGED <<host, enabled, svc>>

\* Nobody waits for the job to disappear.  Recover's error, when the process is still
\* alive, is only reported.
RollbackRecover ==
    /\ At("recover")
    /\ svc' = Recovered
    /\ Goto("undo")
    /\ Step /\ UNCHANGED <<host, job, enabled>>

\* Mutant of Undo: only the file replaced last is put back.
UndoNewest ==
    /\ At("undo")
    /\ file' = IF cmd.done = <<>> THEN file
               ELSE [file EXCEPT ![Head(cmd.done).file] = Head(cmd.done).old]
    /\ Goto("unstore")
    /\ Step /\ UNCHANGED <<account, dirs, launchd>>

\* replacement.rollback and removal.rollback, last file first.
Undo ==
    /\ At("undo")
    /\ IF cmd.done = <<>> THEN Goto("unstore") /\ UNCHANGED file
       ELSE /\ file' = [file EXCEPT ![Head(cmd.done).file] = Head(cmd.done).old]
            /\ cmd' = [cmd EXCEPT !.done = Tail(@)]
    /\ Step /\ UNCHANGED <<account, dirs, launchd>>

\* storageTransaction.rollback: persistence files that are new go, then the directories
\* get their owners back or go; a new data directory in which the service has left other
\* files cannot, which is only reported.
Unstore ==
    /\ At("unstore")
    /\ LET stays == dirs.rest # {} /\ cmd.saved # <<>> /\ cmd.saved[1].data = "absent" IN
         /\ dirs' = IF cmd.saved = <<>> THEN dirs
                    ELSE [dirs EXCEPT !.worker = cmd.saved[1].worker,
                                      !.data = IF stays THEN @ ELSE cmd.saved[1].data]
         /\ cmd' = [To("purge") EXCEPT !.left = stays]
    /\ file' = [file EXCEPT !.mappings = IF cmd.fresh THEN Absent ELSE @]
    /\ Step /\ UNCHANGED <<account, launchd>>

\* What the worker owned belongs to nobody once its account is gone.
Orphaned == [dirs EXCEPT !.data = IF @ = "worker" THEN "stray" ELSE @]

\* dedicatedAccounts.Purge of an account this command created.
RollbackUser ==
    /\ At("purge")
    /\ account' = [account EXCEPT !.user = @ /\ ~cmd.created]
    /\ Goto(IF cmd.created THEN "degroup" ELSE "restore")
    /\ Step /\ UNCHANGED <<file, dirs, launchd>>

RollbackGroup ==
    /\ At("degroup")
    /\ account' = [account EXCEPT !.group = FALSE]
    /\ dirs' = Orphaned
    /\ Goto("restore")
    /\ Step /\ UNCHANGED <<file, launchd>>

\* Mutant of Restore: the service stays down.
RestoreNot ==
    /\ At("restore")
    /\ Goto("fail")
    /\ Step /\ UNCHANGED <<host, launchd>>

\* restoreReadyService, restoreServiceState: start what ran before.
Restore ==
    /\ At("restore")
    /\ IF cmd.up THEN Call("start", "fail", "fail") ELSE Goto("fail")
    /\ Step /\ UNCHANGED <<host, launchd>>

\* A step of a roll-back fails: the rest of it still runs.  SynchronizeConfig starts the
\* old service only when both the stop and the roll-back of the file succeeded.
RollbackFails ==
    \/ FaultAt("unload", "recover")
    \/ FaultAt("recover", "undo")
    \/ FaultAt("unstore", "purge")
    \/ cmd.created /\ FaultAt("purge", "restore")
    \/ /\ At("degroup") /\ Fault("restore")
       /\ account' = WholeAccount
       /\ UNCHANGED <<file, dirs, launchd>>
    \/ /\ At("undo") /\ cmd.done # <<>> /\ faults < MaxFaults
       /\ file' = [file EXCEPT ![Head(cmd.done).file] = Absent]
       /\ cmd' = [cmd EXCEPT !.done = Tail(@), !.clean = FALSE, !.up = @ /\ cmd.op # "start"]
       /\ faults' = faults + 1 /\ torn' = TRUE
       /\ UNCHANGED <<account, dirs, launchd, last, ops, kills>>

\* The end of a command.  `service start -use-last-config` tries once more with the
\* configuration that was installed when it began.
Fail ==
    /\ At("fail")
    /\ IF cmd.again
       THEN /\ cmd' = [Idle EXCEPT !.op = "start", !.at = "sync", !.todo = <<"config">>,
                                   !.ver = cmd.was.config, !.was = cmd.was, !.clean = cmd.clean,
                                   !.res = cmd.res]
            /\ Step
       ELSE End(cmd.res)
    /\ UNCHANGED <<host, launchd>>

Succeed ==
    /\ At("ok")
    /\ End("ok")
    /\ UNCHANGED <<host, launchd>>

----------------------------------------------------------------------------
\* The commands' own steps

\* SynchronizeConfig, up to its Stop.
Sync ==
    /\ At("sync")
    /\ cmd' = IF Installed
              THEN [cmd EXCEPT !.at = "stop", !.ok = "activate", !.no = "fail", !.up = Running]
              ELSE To("fail")
    /\ Step /\ UNCHANGED <<host, launchd>>

\* A user configuration that does not validate: nothing is synchronised, and only
\* -use-last-config starts the service.
SyncInvalid ==
    /\ At("sync") /\ cmd.ver # cmd.was.config
    /\ cmd' = [cmd EXCEPT !.at = IF cmd.again THEN "start" ELSE "fail", !.ok = "ok", !.no = "fail",
                          !.again = FALSE]
    /\ Step /\ UNCHANGED <<host, launchd>>

\* The service did not start with the new configuration: stop it, put the old file back,
\* start again.  When the stop fails, the file is put back and nothing is started.
SyncStop ==
    /\ At("syncstop")
    /\ Call("stop", "undo", "giveup")
    /\ Step /\ UNCHANGED <<host, launchd>>

GiveUp ==
    /\ At("giveup")
    /\ cmd' = [To("undo") EXCEPT !.up = FALSE]
    /\ Step /\ UNCHANGED <<host, launchd>>

\* Upgrade, up to its Stop.  Only a service that is ready will be started again.
Upgrade ==
    /\ At("upgrade")
    /\ cmd' = IF Installed
              THEN [cmd EXCEPT !.at = "stop", !.ok = "ensure", !.no = "fail", !.up = Ready]
              ELSE To("fail")
    /\ Step /\ UNCHANGED <<host, launchd>>

Restart ==
    /\ At("restart")
    /\ IF Installed THEN Call("stop", "restarting", "fail") ELSE Goto("fail")
    /\ Step /\ UNCHANGED <<host, launchd>>

Restarting ==
    /\ At("restarting")
    /\ Call("start", "ok", "fail")
    /\ Step /\ UNCHANGED <<host, launchd>>

Uninstall ==
    /\ At("uninstall")
    /\ cmd' = [cmd EXCEPT !.at = "stop", !.ok = "examine", !.no = "fail", !.up = Running,
                          !.hasty = job.st = "leaving"]
    /\ Step /\ UNCHANGED <<host, launchd>>

\* Recover, and before a purge the identity must be whole.
UninstallExamine ==
    /\ At("examine")
    /\ svc' = Recovered
    /\ Goto(IF svc.alive \/ (cmd.op = "purge" /\ account # WholeAccount) THEN "restore" ELSE "remove")
    /\ Step /\ UNCHANGED <<host, job, enabled>>

\* Mutant of Remove: a file that is not there is an error.
RemoveExisting ==
    /\ At("remove") /\ cmd.todo # <<>>
    /\ LET a == Head(cmd.todo) IN
         /\ file' = [file EXCEPT ![a] = Absent]
         /\ cmd' = IF file[a] = Absent THEN To("undo")
                   ELSE [cmd EXCEPT !.todo = Tail(@), !.done = <<[file |-> a, old |-> file[a]]>> \o @]
    /\ Step /\ UNCHANGED <<account, dirs, launchd>>

\* stageRemoval: the file is renamed to a tombstone.
Remove ==
    /\ At("remove") /\ cmd.todo # <<>>
    /\ LET a == Head(cmd.todo) IN
         /\ file' = [file EXCEPT ![a] = Absent]
         /\ cmd' = [cmd EXCEPT !.todo = Tail(@),
                      !.done = IF file[a] = Absent THEN @ ELSE <<[file |-> a, old |-> file[a]]>> \o @]
    /\ Step /\ UNCHANGED <<account, dirs, launchd>>

Removed ==
    /\ At("remove") /\ cmd.todo = <<>>
    /\ Goto(IF cmd.op = "purge" THEN "deluser" ELSE "clear")
    /\ Step /\ UNCHANGED <<host, launchd>>

PurgeUser ==
    /\ At("deluser")
    /\ account' = [account EXCEPT !.user = FALSE]
    /\ Goto("delgroup")
    /\ Step /\ UNCHANGED <<file, dirs, launchd>>

PurgeGroup ==
    /\ At("delgroup")
    /\ account' = [account EXCEPT !.group = FALSE]
    /\ dirs' = Orphaned
    /\ Goto("clear")
    /\ Step /\ UNCHANGED <<file, launchd>>

\* commitRemovals, past which nothing is undone.  A purge then removes the directories
\* that are empty, and one that is not is no error.
Clear ==
    /\ At("clear")
    /\ dirs' = IF cmd.op # "purge" THEN dirs
               ELSE IF dirs.rest = {} THEN NoDirs
               ELSE [dirs EXCEPT !.worker = "absent"]
    /\ Report(IF cmd.res = "untidy" THEN "untidy" ELSE "ok", dirs.rest # {})
    /\ UNCHANGED <<file, account, launchd>>

UninstallFails ==
    \/ FaultAt("examine", "restore")
    \/ cmd.todo # <<>> /\ FaultAt("remove", "undo")
    \/ FaultAt("deluser", "undo")
    \/ /\ At("delgroup") /\ Fault("undo")
       /\ account' = WholeAccount
       /\ UNCHANGED <<file, dirs, launchd>>

\* A tombstone or a directory that cannot be removed.
ClearFails ==
    /\ At("clear") /\ cmd.op \in CommitFaults /\ cmd.res # "untidy"
    /\ faults < MaxFaults
    /\ faults' = faults + 1
    /\ cmd' = [cmd EXCEPT !.res = "untidy", !.clean = FALSE]
    /\ UNCHANGED <<host, launchd, last, ops, kills, torn>>

CommandStep ==
    \/ Refuse \/ InstallCheck \/ Sync \/ SyncInvalid \/ Upgrade \/ Restart \/ Restarting \/ Uninstall
    \/ StartEnable \/ StartBootstrap \/ StartKick \/ StartReady \/ StartHopeless \/ StartFails
    \/ StopDisable \/ StopBootout \/ StopUnloaded \/ StopRecover \/ StopFails
    \/ EnsureGroup \/ EnsureUser \/ Ungroup \/ PrepareStorage \/ PrepareFails
    \/ Backup \/ Place \/ Activated \/ Commit \/ CommitFails
    \/ Unload \/ RollbackRecover \/ Undo \/ Unstore \/ RollbackUser \/ RollbackGroup \/ Restore
    \/ RollbackFails \/ SyncStop \/ GiveUp \/ Fail \/ Succeed
    \/ UninstallExamine \/ Remove \/ Removed \/ PurgeUser \/ PurgeGroup \/ Clear
    \/ UninstallFails \/ ClearFails

----------------------------------------------------------------------------
\* launchd and the service process

\* launchd runs the managed executable.  The supervisor recreates a runtime directory
\* that a reboot has cleared (PrepareEphemeralWorkerRuntime) and writes its record.
Spawn ==
    /\ job.st = "in" /\ job.want /\ ~svc.alive
    /\ Absent \notin {file.binary, file.config}
    /\ svc' = [alive |-> TRUE, phase |-> "starting", runs |-> <<file.binary, file.config>>]
    /\ job' = [job EXCEPT !.want = FALSE]
    /\ dirs' = IF dirs.worker = "absent" /\ account = WholeAccount
               THEN [dirs EXCEPT !.worker = "worker"] ELSE dirs
    /\ UNCHANGED <<file, account, enabled, cmd>> /\ Step

\* The worker opens the mappings, and journals the ones it adds (OpenPersistence, record).
BecomeReady ==
    /\ svc.alive /\ svc.phase = "starting" /\ Usable
    /\ svc' = [svc EXCEPT !.phase = "running"]
    /\ file' = [file EXCEPT !.mappings = 1]
    /\ \E new \in SUBSET {"journal"} : dirs' = [dirs EXCEPT !.rest = @ \cup new]
    /\ UNCHANGED <<account, job, enabled, cmd>> /\ Step

\* The supervisor returns an error before anything is set up; launchd spawns a
\* keep-alive job again.
StartupFails ==
    /\ svc.alive /\ svc.phase = "starting" /\ ~Usable
    /\ svc' = Dead("")
    /\ job' = [job EXCEPT !.want = job.st = "in" /\ job.keep]
    /\ UNCHANGED <<host, enabled, cmd>> /\ Step

\* The process dies and leaves its record.
Crash ==
    /\ svc.alive /\ faults < MaxFaults
    /\ svc' = Dead(svc.phase)
    /\ job' = [job EXCEPT !.want = job.st = "in" /\ job.keep]
    /\ faults' = faults + 1
    /\ cmd' = [cmd EXCEPT !.clean = cmd.op = "none"]
    /\ torn' = (torn \/ cmd.back)
    /\ UNCHANGED <<host, enabled, last, ops, kills>>

\* After a bootout the process cleans up, with the journal folded into the snapshot, and
\* exits; then the job disappears.
Exit ==
    /\ job.st = "leaving" /\ svc.alive
    /\ svc' = Dead("")
    /\ dirs' = [dirs EXCEPT !.rest = @ \ {"journal"}]
    /\ UNCHANGED <<file, account, job, enabled, cmd>> /\ Step

Gone ==
    /\ job.st = "leaving" /\ ~svc.alive
    /\ job' = NoJob
    /\ UNCHANGED <<host, enabled, svc, cmd>> /\ Step

Kill ==
    /\ cmd.op # "none" /\ kills < MaxKills
    /\ cmd' = Idle
    /\ last' = [op |-> cmd.op, res |-> "killed", clean |-> FALSE, loaded |-> FALSE,
                left |-> FALSE]
    /\ kills' = kills + 1
    /\ torn' = TRUE
    /\ UNCHANGED <<host, launchd, ops, faults>>

\* launchd loads every enabled job; /var/run, with the record in it, starts empty.
Reboot ==
    /\ kills < MaxKills
    /\ cmd' = Idle
    /\ kills' = kills + 1
    /\ torn' = (torn \/ cmd.op # "none")
    /\ svc' = Dead("")
    /\ dirs' = [dirs EXCEPT !.worker = "absent"]
    /\ job' = IF enabled /\ file.plist # Absent
              THEN JobOf(file.plist) ELSE NoJob
    /\ last' = IF cmd.op = "none" THEN last
               ELSE [op |-> cmd.op, res |-> "killed", clean |-> FALSE, loaded |-> FALSE,
                left |-> FALSE]
    /\ UNCHANGED <<file, account, enabled, ops, faults>>

Launchd == Spawn \/ BecomeReady \/ StartupFails \/ Exit \/ Gone

LaunchNext == BeginCommand \/ CommandStep \/ Launchd \/ Crash \/ Kill \/ Reboot

LaunchSpec == LaunchInit /\ [][LaunchNext]_vars

----------------------------------------------------------------------------
\* Every command replaces the installation as a whole or, when it reports a failure, leaves
\* it as it was, account and storage included, although it works file by file and any call
\* may fail (Install's deferred functions, Upgrade's rollbackAndRestore, SynchronizeConfig,
\* Uninstall's rollback).
Whole == INSTANCE Installation WITH
    inst <- IF cmd.op = "none" THEN Inst ELSE cmd.was,
    said <- [op |-> last.op, res |-> last.res],
    Manifest <- {Absent, Manual, AtBoot},
    Account <- [user : BOOLEAN, group : BOOLEAN],
    Owner <- {"absent", "root", "worker", "stray"},
    left <- last.left

Transactional == Whole!InstSpec

\* Between commands, a running service runs what is installed: no failed or timed-out start
\* leaves a process of the version that was rolled back (rollbackAndRestore, restoreServiceState).
RunsInstalled ==
    cmd.op = "none" /\ ~torn /\ Ready /\ job.st = "in" => svc.runs = <<file.binary, file.config>>

\* After `service stop` reports success the job stays away until it is started, although
\* launchd respawns keep-alive jobs and loads jobs again at boot (Stop disables the label
\* and boots the job out instead of killing the process).
StoppedStays ==
    cmd.op = "none" /\ last.op = "stop" /\ last.res = "ok" /\ last.loaded
        => job.st = "out" /\ ~svc.alive

\* A command that fails after it stopped a service that was up starts it again before it
\* returns (restartService on every path after Stop), unless a call of the roll-back
\* failed too, or Start, or an uninstallation, found launchd still removing the job.
UpAgain ==
    [][cmd.op # "none" /\ cmd'.op = "none" /\ last'.res = "failed" /\ cmd.up /\ cmd.back
          /\ ~torn' /\ ~cmd.hasty => Ready']_vars

\* Whatever killed commands, failed roll-backs and reboots have left, an uninstallation in
\* which no call fails succeeds, and leaves no executable, no job, no process and no record
\* to recover; only a purge refuses half a worker identity.
UninstallClears ==
    [][cmd.op \in {"uninstall", "purge"} /\ cmd'.op = "none" /\ last'.res # "killed" /\ cmd.clean
          => \/ /\ last'.res = "ok"
                /\ file'.binary = Absent /\ file'.plist = Absent
                /\ job'.st = "out" /\ svc' = Dead("")
                /\ cmd.op = "purge" => file'.config = Absent /\ account' = NoAccount
             \/ cmd.op = "purge" /\ account # WholeAccount]_vars

----------------------------------------------------------------------------
\* What the documentation says and the code does not do

\* "-purge" also deletes the configuration, the mappings and the logs (cli-flags.md:494):
\* after a successful purge no file with mappings is left.
PurgeComplete ==
    cmd.op = "none" /\ last.op = "purge" /\ last.res = "ok"
        => file.mappings = Absent /\ "journal" \notin dirs.rest

\* A new version that does not start is rolled back and the old service restored
\* (build-and-install.md:500-501): it is up again when no call of the roll-back failed.
AlwaysUpAgain ==
    [][cmd.op # "none" /\ cmd'.op = "none" /\ last'.res = "failed" /\ cmd.up /\ cmd.back
          /\ ~torn' => Ready']_vars

\* Between commands, an installed service has the account and the storage its version
\* needs (Ensure and prepareWorkerStorage with their roll-backs).
InstalledUsable ==
    cmd.op = "none" /\ ~torn /\ Installed
        => IF file.binary = Legacy THEN account = NoAccount /\ dirs.data = "root"
           ELSE account = WholeAccount /\ dirs.data = "worker"
=============================================================================
