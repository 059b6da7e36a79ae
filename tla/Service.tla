------------------------------- MODULE Service -------------------------------
(***************************************************************************)
(* The managed service: the `service reload` command, the control server's *)
(* request cache, the root supervisor, the private protocol it speaks, and *)
(* the unprivileged worker.                                                *)
(*                                                                         *)
(* The command replaces the managed configuration file, asks the           *)
(* supervisor over the control socket to load it, and puts the old file    *)
(* back and asks again when it gets no confirmation.  The supervisor reads *)
(* the file, passes it to the worker, waits at most serviceSupervisorTimeout*)
(* for the answer and records the digest.  Each party gives up on its own  *)
(* clock, so an answer can arrive after its question was abandoned.        *)
(* Configurations are compared only through their digests, so one value    *)
(* stands for the bytes and the digest.  The host's routes and DNS are one *)
(* flag here; module HostState has their detail.                           *)
(***************************************************************************)
EXTENDS Naturals, Sequences, FiniteSets

CONSTANTS
    Configs,      \* configurations, by digest
    Boot,         \* the configuration the supervisor starts with
    CacheLimit,   \* requestCacheLimit
    MaxRequests,  \* bound: control request IDs the command may generate
    MaxEvents     \* bound: signals, ticks, edits, lost connections, kills, I/O errors,
                  \* worker failures

ASSUME ServiceAssumption ==
    /\ Boot \in Configs
    /\ CacheLimit \in Nat \ {0}
    /\ MaxRequests \in Nat /\ MaxEvents \in Nat

None == "none"
Missing == "missing"
Absent == "absent"
Running == "running"
Failed == "failed"
Ids == 1 .. MaxRequests

ASSUME NamesAssumption == Configs \cap {None, Missing, Absent, Running, Failed} = {}

VARIABLES
    file,       \* the managed configuration file
    cli,        \* the reload command, which holds the operation lock
    last,       \* history: what the last finished command reported
    issued,     \* request IDs handed out
    want,       \* expected digest of each control request that is not answered
    resp,       \* the control server's request cache: each record's response
    completed,  \* cached IDs in the order of their CompletedAt
    exec,       \* each request's executeReload goroutine
    started,    \* history: how often a request was handed to executeReload
    sup,        \* the supervisor's goroutine
    recorded,   \* ConfigDigest of the recovery record, and the bytes in memory
    captured,   \* host routes and DNS lead to the worker
    reqno,      \* the session's last request number
    toWorker,   \* private protocol, supervisor to worker
    toSup,      \* private protocol, worker to supervisor
    worker,     \* the worker process
    unsure,     \* history: a reload timed out and none has succeeded since
    events      \* bound

cliVars == <<file, cli, last, issued>>
serverVars == <<want, resp, completed, exec, started>>
supVars == <<sup, recorded, captured, reqno, unsure>>
linkVars == <<toWorker, toSup, worker>>
vars == <<cliVars, serverVars, supVars, linkVars, events>>

\* What the command reported: it succeeded, or it failed and restored the old
\* configuration.  A command that reported neither promised nothing.
NoOutcome == [result |-> "none", config |-> None]
IdleCli == [pc |-> "idle", id |-> 0, want |-> None, undo |-> None,
            rolling |-> FALSE]

Serving == {"loop", "load", "push", "await", "persist", "reply"}
Starting == {"start", "awaitPrepared", "install", "commit", "awaitRunning"}
Finishing == {"close", "drain", "restore", "stop", "awaitStop", "reap"}
Errors == {"none", "rejected", "timeout", "worker", "protocol", "persist"}

Supervisor ==
    [pc : Serving \cup Starting \cup Finishing \cup {"stopped"},
     source : {"none", "control", "signal", "tick"},
     id : 0 .. MaxRequests,
     next : Configs \cup {None},
     err : Errors,
     running : BOOLEAN,   \* workerRunning
     late : BOOLEAN,      \* cleanupCtx is done
     broken : BOOLEAN,    \* history: a call of finish failed by itself
     failed : BOOLEAN]    \* finish has collected a failure

Message ==
    [kind : {"bootstrap", "commit", "reload", "shutdown"},
     id : Nat, config : Configs \cup {None}]
Reports ==
    [kind : {"prepared", "running", "result", "stopped", "fatal", "eof"},
     id : Nat, config : Configs \cup {None}, ok : BOOLEAN]

Send(kind, id, config) ==
    toWorker' = Append(toWorker, [kind |-> kind, id |-> id, config |-> config])
Report(kind, id, config, ok) ==
    [kind |-> kind, id |-> id, config |-> config, ok |-> ok]
Eof == Report("eof", 0, None, FALSE)
Fatal == Report("fatal", 0, None, FALSE)

\* Types of every component.
ServiceTypeOK ==
    /\ file \in Configs \cup {Missing}
    /\ cli \in [pc : {"idle", "activate", "send", "await", "remove", "restore"},
                id : 0 .. MaxRequests, want : Configs \cup {None},
                undo : Configs \cup {None}, rolling : BOOLEAN]
    /\ last \in [result : {"none", "ok", "rolledback"}, config : Configs \cup {None}]
    /\ issued \in 0 .. MaxRequests
    /\ want \in [Ids -> Configs \cup {None}]
    /\ resp \in [Ids -> Configs \cup {Absent, Running, Failed}]
    /\ completed \in Seq(Ids)
    /\ exec \in [Ids -> {"none", "offer", "wait"}]
    /\ started \in [Ids -> Nat]
    /\ sup \in Supervisor
    /\ recorded \in Configs
    /\ captured \in BOOLEAN
    /\ reqno \in Nat
    /\ toWorker \in Seq(Message)
    /\ toSup \in Seq(Reports)
    /\ worker \in [phase : {"new", "prepared", "running"},
                   digest : Configs \cup {None}, exit : {"none", "clean", "quiet", "error"}]
    /\ unsure \in BOOLEAN
    /\ events \in 0 .. MaxEvents

Init ==
    /\ file = Boot
    /\ cli = IdleCli
    /\ last = NoOutcome
    /\ issued = 0
    /\ want = [i \in Ids |-> None]
    /\ resp = [i \in Ids |-> Absent]
    /\ completed = <<>>
    /\ exec = [i \in Ids |-> "none"]
    /\ started = [i \in Ids |-> 0]
    /\ sup = [pc |-> "start", source |-> "none", id |-> 0, next |-> None,
              err |-> "none", running |-> FALSE, late |-> FALSE,
              broken |-> FALSE, failed |-> FALSE]
    /\ recorded = Boot
    /\ captured = FALSE
    /\ reqno = 0
    /\ toWorker = <<>>
    /\ toSup = <<>>
    /\ worker = [phase |-> "new", digest |-> None, exit |-> "none"]
    /\ unsure = FALSE
    /\ events = 0

\* One of the bounded disturbances.
Event == events < MaxEvents /\ events' = events + 1

-----------------------------------------------------------------------------
(* The reload command *)

EndCli(outcome) ==
    /\ cli' = IdleCli
    /\ last' = outcome

Outcome(result) == [result |-> result, config |-> cli.want]

\* `service reload -config c`: the running service's file is moved to a backup
\* name, then the staged file is renamed into place.  Between the two renames
\* there is no managed configuration.
BeginUpdate(c) ==
    /\ cli.pc = "idle"
    /\ sup.pc \in Serving
    /\ file # Missing
    /\ issued + 2 <= MaxRequests
    /\ issued' = issued + 1
    /\ cli' = [pc |-> "activate", id |-> issued + 1, want |-> c, undo |-> file,
               rolling |-> FALSE]
    /\ file' = Missing
    /\ last' = NoOutcome
    /\ want' = [want EXCEPT ![issued + 1] = c]
    /\ UNCHANGED <<resp, completed, exec, started, supVars, linkVars, events>>

Activate ==
    /\ cli.pc = "activate"
    /\ file' = cli.want
    /\ cli' = [cli EXCEPT !.pc = "send"]
    /\ UNCHANGED <<last, issued, serverVars, supVars, linkVars, events>>

\* The rename or the directory sync fails: the backup is renamed back.
ActivateFails ==
    /\ cli.pc = "activate"
    /\ Event
    /\ file' = cli.undo
    /\ EndCli(NoOutcome)
    /\ UNCHANGED <<issued, serverVars, supVars, linkVars>>

\* `service reload` without a file: the managed configuration as it stands.
BeginReload ==
    /\ cli.pc = "idle"
    /\ sup.pc \in Serving
    /\ file # Missing
    /\ issued < MaxRequests
    /\ issued' = issued + 1
    /\ cli' = [pc |-> "send", id |-> issued + 1, want |-> file, undo |-> None,
               rolling |-> FALSE]
    /\ last' = NoOutcome
    /\ want' = [want EXCEPT ![issued + 1] = file]
    /\ UNCHANGED <<file, resp, completed, exec, started, supVars, linkVars, events>>

\* requestServiceReload ends without a confirmation: the old file is put back,
\* unless the command brought none or was putting it back already.
GiveUp ==
    IF cli.undo # None /\ ~cli.rolling
      THEN cli' = [cli EXCEPT !.pc = "remove"] /\ UNCHANGED last
      ELSE EndCli(NoOutcome)

RemoveFile ==
    /\ cli.pc = "remove"
    /\ file' = Missing
    /\ cli' = [cli EXCEPT !.pc = "restore"]
    /\ UNCHANGED <<last, issued, serverVars, supVars, linkVars, events>>

\* The backup is back; a new request, with the restored file's digest, asks the
\* runtime to return to it.
RestoreFile ==
    /\ cli.pc = "restore"
    /\ file' = cli.undo
    /\ issued' = issued + 1
    /\ cli' = [cli EXCEPT !.pc = "send", !.id = issued + 1, !.want = cli.undo,
                          !.rolling = TRUE]
    /\ want' = [want EXCEPT ![issued + 1] = cli.undo]
    /\ UNCHANGED <<last, resp, completed, exec, started, supVars, linkVars, events>>

\* The rename fails, or the directory sync after it.
RestoreFails ==
    /\ cli.pc = "restore"
    /\ Event
    /\ file' \in {Missing, cli.undo}
    /\ EndCli(NoOutcome)
    /\ UNCHANGED <<issued, serverVars, supVars, linkVars>>

\* A final response to the request the command is waiting for, read from the
\* connection or, after a lost connection, from the cache by the same ID.
ReceiveResponse ==
    /\ cli.pc = "await" \/ (cli.pc = "send" /\ sup.pc \in Serving)
    /\ resp[cli.id] \notin {Absent, Running}
    /\ IF resp[cli.id] = cli.want
         THEN EndCli(Outcome(IF cli.rolling THEN "rolledback" ELSE "ok"))
         ELSE GiveUp
    /\ UNCHANGED <<file, issued, serverVars, supVars, linkVars, events>>

\* The command's own deadline, or the user's interrupt.
CliTimeout ==
    /\ cli.pc \in {"send", "await"}
    /\ GiveUp
    /\ UNCHANGED <<file, issued, serverVars, supVars, linkVars, events>>

\* A lost connection: the command asks again with the same ID.
Disconnect ==
    /\ cli.pc = "await"
    /\ Event
    /\ cli' = [cli EXCEPT !.pc = "send"]
    /\ UNCHANGED <<file, last, issued, serverVars, supVars, linkVars>>

\* The command is killed; the kernel releases its operation lock.
KillCli ==
    /\ cli.pc # "idle"
    /\ Event
    /\ EndCli(NoOutcome)
    /\ UNCHANGED <<file, issued, serverVars, supVars, linkVars>>

\* The operator edits the managed file between two commands.
EditFile(c) ==
    /\ cli.pc = "idle"
    /\ c # file
    /\ Event
    /\ file' = c
    /\ last' = NoOutcome
    /\ UNCHANGED <<cli, issued, serverVars, supVars, linkVars>>

-----------------------------------------------------------------------------
(* The control server *)

Cached == {i \in Ids : resp[i] # Absent}

\* Records dropped when n of the completed ones have reached their TTL: those,
\* or as many of the oldest completed ones as make room for one more.
Evicted(n) ==
    LET size == Cardinality(Cached)
        room == size + 1 - CacheLimit
    IN  IF size - n < CacheLimit THEN n
        ELSE IF room <= Len(completed) THEN room ELSE Len(completed)

\* processReload for an ID that is not in the cache.  A request meets its own
\* expired record only if the command waits longer than requestCacheTTL.
ProcessReload ==
    /\ cli.pc = "send"
    /\ sup.pc \in Serving
    /\ resp[cli.id] = Absent
    /\ \E n \in 0 .. Len(completed) :
         LET k == Evicted(n)
             dropped == {completed[i] : i \in 1 .. k}
         IN  /\ completed' = SubSeq(completed, k + 1, Len(completed))
             /\ IF Cardinality(Cached) - k >= CacheLimit
                  THEN /\ resp' = [i \in Ids |-> IF i \in dropped THEN Absent ELSE resp[i]]
                       /\ GiveUp
                       /\ UNCHANGED <<exec, started>>
                  ELSE /\ resp' = [i \in Ids |-> IF i = cli.id THEN Running
                                                 ELSE IF i \in dropped THEN Absent
                                                 ELSE resp[i]]
                       /\ exec' = [exec EXCEPT ![cli.id] = "offer"]
                       /\ started' = [started EXCEPT ![cli.id] = @ + 1]
                       /\ cli' = [cli EXCEPT !.pc = "await"]
                       /\ UNCHANGED last
    /\ UNCHANGED <<file, issued, want, supVars, linkVars, events>>

\* Mutant of Complete: the record is forgotten as soon as it is answered.
CompleteAndForget(i, response) ==
    /\ resp' = [resp EXCEPT ![i] = Absent]
    /\ UNCHANGED completed
    /\ exec' = [exec EXCEPT ![i] = "none"]
    /\ want' = [want EXCEPT ![i] = None]

\* executeReload stores the response and closes record.done; its context ends.
Complete(i, response) ==
    /\ resp' = [resp EXCEPT ![i] = response]
    /\ completed' = Append(completed, i)
    /\ exec' = [exec EXCEPT ![i] = "none"]
    /\ want' = [want EXCEPT ![i] = None]

\* The handler's context is done, by controlRequestTimeout or because Close
\* cancelled it: it waits no longer, for the supervisor or for its reply.
HandlerGivesUp(i) ==
    /\ exec[i] # "none"
    /\ Complete(i, Failed)
    /\ UNCHANGED <<cliVars, started, supVars, linkVars, events>>

-----------------------------------------------------------------------------
(* The supervisor *)

GoSup(pc) == sup' = [sup EXCEPT !.pc = pc]
BackToLoop == sup' = [sup EXCEPT !.pc = "loop", !.source = "none", !.id = 0,
                                 !.next = None, !.err = "none"]
Answer(err) == sup' = [sup EXCEPT !.pc = "reply", !.err = err]

\* Mutant of StaleReloadResult: a late answer is taken for a wrong one.
NeverStale(m, id) == FALSE

StaleReloadResult(m, id) == m.kind = "result" /\ m.id # 0 /\ m.id < id
WorkerGone == worker.exit # "none"

\* session.await: the next message decides, unless it answers a question that
\* was given up; the worker's exit and the deadline may come first.
Verdicts == {"accepted", "stale", "worker", "protocol", "timeout"}
Await(kind, id, verdict) ==
    \/ /\ toSup # <<>>
       /\ toSup' = Tail(toSup)
       /\ LET m == Head(toSup)
          IN  verdict = IF m.kind \in {"fatal", "eof"} THEN "worker"
                        ELSE IF StaleReloadResult(m, id) THEN "stale"
                        ELSE IF m.kind # kind \/ m.id # id THEN "protocol"
                        ELSE "accepted"
    \/ WorkerGone /\ verdict = "worker" /\ UNCHANGED toSup
    \/ verdict = "timeout" /\ UNCHANGED toSup

\* Bootstrap is sent and the worker prepares; the host is not touched before.
Bootstrap ==
    /\ sup.pc = "start"
    /\ IF WorkerGone
         THEN GoSup("close") /\ UNCHANGED toWorker
         ELSE GoSup("awaitPrepared") /\ Send("bootstrap", 0, recorded)
    /\ UNCHANGED <<cliVars, serverVars, recorded, captured, reqno, unsure, toSup, worker, events>>

AwaitPrepared ==
    /\ sup.pc = "awaitPrepared"
    /\ \E v \in Verdicts :
         /\ Await("prepared", 0, v)
         /\ GoSup(IF v = "accepted" THEN "install" ELSE "close")
    /\ UNCHANGED <<cliVars, serverVars, recorded, captured, reqno, unsure, toWorker, worker, events>>

\* Routes and DNS; a failure part-way leaves some of them in place.
Install ==
    /\ sup.pc = "install"
    /\ \/ GoSup("commit") /\ captured' = TRUE
       \/ GoSup("close") /\ captured' \in BOOLEAN
    /\ UNCHANGED <<cliVars, serverVars, recorded, reqno, unsure, linkVars, events>>

Commit ==
    /\ sup.pc = "commit"
    /\ IF WorkerGone
         THEN GoSup("close") /\ UNCHANGED toWorker
         ELSE GoSup("awaitRunning") /\ Send("commit", 0, recorded)
    /\ UNCHANGED <<cliVars, serverVars, recorded, captured, reqno, unsure, toSup, worker, events>>

\* The control socket opens last; if that or the record of it fails, the
\* service stops again.
AwaitRunning ==
    /\ sup.pc = "awaitRunning"
    /\ \E v \in Verdicts :
         /\ Await("running", 0, v)
         /\ IF v # "accepted" THEN GoSup("close")
            ELSE \E pc \in {"loop", "close"} : sup' = [sup EXCEPT !.pc = pc, !.running = TRUE]
    /\ UNCHANGED <<cliVars, serverVars, recorded, captured, reqno, unsure, toWorker, worker, events>>

\* The handler's request is received from reloadRequests.
TakeRequest(i) ==
    /\ sup.pc = "loop"
    /\ exec[i] = "offer"
    /\ exec' = [exec EXCEPT ![i] = "wait"]
    /\ sup' = [sup EXCEPT !.pc = "load", !.source = "control", !.id = i]
    /\ UNCHANGED <<cliVars, want, resp, completed, started,
                   recorded, captured, reqno, unsure, linkVars, events>>

TakeSignal ==
    /\ sup.pc = "loop"
    /\ Event
    /\ sup' = [sup EXCEPT !.pc = "load", !.source = "signal"]
    /\ UNCHANGED <<cliVars, serverVars, recorded, captured, reqno, unsure, linkVars>>

\* The network ticker: interface DNS changed, and the worker is given the
\* configuration in memory again; or the bypass topology changed and the
\* service stops.
Tick ==
    /\ sup.pc = "loop"
    /\ Event
    /\ \/ sup' = [sup EXCEPT !.pc = "push", !.source = "tick", !.next = recorded]
       \/ GoSup("close")
    /\ UNCHANGED <<cliVars, serverVars, recorded, captured, reqno, unsure, linkVars>>

\* SIGTERM.
Stop ==
    /\ sup.pc = "loop"
    /\ Event
    /\ GoSup("close")
    /\ UNCHANGED <<cliVars, serverVars, recorded, captured, reqno, unsure, linkVars>>

\* Mutant of SeeWorkerExit: only a failed exit is acted upon.
SeeWorkerFailure ==
    /\ sup.pc = "loop"
    /\ worker.exit = "error"
    /\ sup' = [sup EXCEPT !.pc = "close", !.running = FALSE]
    /\ UNCHANGED <<cliVars, serverVars, recorded, captured, reqno, unsure, linkVars, events>>

SeeWorkerExit ==
    /\ sup.pc = "loop"
    /\ WorkerGone
    /\ sup' = [sup EXCEPT !.pc = "close", !.running = FALSE]
    /\ UNCHANGED <<cliVars, serverVars, recorded, captured, reqno, unsure, linkVars, events>>

\* The file is read; a digest other than the expected one, or a failed
\* preflight, ends the reload.
LoadConfig ==
    /\ sup.pc = "load"
    /\ \/ /\ file \in Configs
          /\ sup.source = "control" => want[sup.id] = file
          /\ sup' = [sup EXCEPT !.pc = "push", !.next = file]
       \/ Answer("rejected")
    /\ UNCHANGED <<cliVars, serverVars, recorded, captured, reqno, unsure, linkVars, events>>

\* session.Reload sends under a fresh request number.
PushReload ==
    /\ sup.pc = "push"
    /\ reqno' = reqno + 1
    /\ IF WorkerGone
         THEN Answer("worker") /\ UNCHANGED toWorker
         ELSE GoSup("await") /\ Send("reload", reqno + 1, sup.next)
    /\ UNCHANGED <<cliVars, serverVars, recorded, captured, unsure, toSup, worker, events>>

Accepted ==
    LET m == Head(toSup)
    IN  IF ~m.ok THEN Answer("rejected") /\ UNCHANGED unsure
        ELSE IF m.config # sup.next THEN Answer("protocol") /\ UNCHANGED unsure
        ELSE /\ IF sup.source = "tick" THEN Answer("none") ELSE GoSup("persist")
             /\ unsure' = FALSE

AwaitResult ==
    /\ sup.pc = "await"
    /\ \E v \in Verdicts :
         /\ Await("result", reqno, v)
         /\ CASE v = "accepted" -> Accepted
              [] v = "stale" -> UNCHANGED <<sup, unsure>>
              [] OTHER -> Answer(v) /\ unsure' = (unsure \/ v = "timeout")
    /\ UNCHANGED <<cliVars, serverVars, recorded, captured, reqno, toWorker, worker, events>>

\* Mutant of PersistDigest: the error of writing the record is dropped.
PersistUnchecked ==
    /\ sup.pc = "persist"
    /\ \/ recorded' = sup.next /\ Answer("none") /\ UNCHANGED events
       \/ Event /\ Answer("none") /\ UNCHANGED recorded
    /\ UNCHANGED <<cliVars, serverVars, captured, reqno, unsure, linkVars>>

\* The digest is written to the recovery record; a failure here is fatal.
PersistDigest ==
    /\ sup.pc = "persist"
    /\ \/ recorded' = sup.next /\ Answer("none") /\ UNCHANGED events
       \/ Event /\ Answer("persist") /\ UNCHANGED recorded
    /\ UNCHANGED <<cliVars, serverVars, captured, reqno, unsure, linkVars>>

\* The result goes to the handler, unless its context is done first.
Reply ==
    /\ sup.pc = "reply"
    /\ IF sup.err = "persist" THEN GoSup("close") ELSE BackToLoop
    /\ \/ /\ sup.source = "control" /\ exec[sup.id] = "wait"
          /\ Complete(sup.id, IF sup.err = "none" THEN sup.next ELSE Failed)
       \/ /\ sup.source = "control" => exec[sup.id] = "none"
          /\ UNCHANGED <<want, resp, completed, exec>>
    /\ UNCHANGED <<cliVars, started, recorded, captured, reqno, unsure,
                   linkVars, events>>

-----------------------------------------------------------------------------
(* finish *)

CleanupExpires ==
    /\ sup.pc \in Finishing
    /\ ~sup.late
    /\ sup' = [sup EXCEPT !.late = TRUE]
    /\ UNCHANGED <<cliVars, serverVars, recorded, captured, reqno, unsure, linkVars, events>>

\* A call of finish fails for a reason of its own: a write of the record, a
\* command for DNS or a route, a setting the user changed meanwhile, a close, the
\* removal of a socket, of the lock or of the record.  finish notes it and goes on.
Breaks(pc) ==
    /\ Event
    /\ sup' = [sup EXCEPT !.pc = pc, !.broken = TRUE, !.failed = TRUE]

\* The record's phase becomes stopping; Server.Close cancels every request's
\* context and closes the listener.
CloseServer ==
    /\ sup.pc = "close"
    /\ \/ GoSup("drain") /\ UNCHANGED events
       \/ Breaks("drain")
    /\ UNCHANGED <<cliVars, serverVars, recorded, captured, reqno, unsure, linkVars>>

Drain ==
    /\ sup.pc = "drain"
    /\ \/ (\A i \in Ids : exec[i] = "none") /\ GoSup("restore") /\ UNCHANGED events
       \/ (\A i \in Ids : exec[i] = "none") /\ Breaks("restore")
       \/ /\ sup.late
          /\ sup' = [sup EXCEPT !.pc = "restore", !.failed = TRUE]
          /\ UNCHANGED events
    /\ UNCHANGED <<cliVars, serverVars, recorded, captured, reqno, unsure, linkVars>>

\* Mutant of RestoreHost: the error of restoring is dropped.
RestoreUnchecked ==
    /\ sup.pc = "restore"
    /\ GoSup("stop")
    /\ captured' = FALSE \/ (sup.late /\ UNCHANGED captured)
    /\ UNCHANGED <<cliVars, serverVars, recorded, reqno, unsure, linkVars, events>>

\* Host DNS and routes go back while the worker still serves them.  Late, no
\* command runs any more; in time one may fail, or the record of what it did.
RestoreHost ==
    /\ sup.pc = "restore"
    /\ \/ captured' = FALSE /\ GoSup("stop") /\ UNCHANGED events
       \/ /\ captured /\ sup.late
          /\ sup' = [sup EXCEPT !.pc = "stop", !.failed = TRUE]
          /\ UNCHANGED <<captured, events>>
       \/ /\ captured
          /\ Breaks("stop")
          /\ captured' \in BOOLEAN
    /\ UNCHANGED <<cliVars, serverVars, recorded, reqno, unsure, linkVars>>

Kill ==
    IF WorkerGone THEN UNCHANGED linkVars
    ELSE /\ worker' = [worker EXCEPT !.exit = "error"]
         /\ toWorker' = <<>>
         /\ toSup' = Append(toSup, Eof)

\* A running worker is asked to stop; one that never ran is killed.
StopWorker ==
    /\ sup.pc = "stop"
    /\ IF ~sup.running THEN GoSup("reap") /\ Kill /\ UNCHANGED reqno
       ELSE /\ reqno' = reqno + 1
            /\ IF WorkerGone
                 THEN /\ sup' = [sup EXCEPT !.pc = "reap", !.failed = TRUE]
                      /\ UNCHANGED linkVars
                 ELSE /\ GoSup("awaitStop")
                      /\ Send("shutdown", reqno + 1, None)
                      /\ UNCHANGED <<toSup, worker>>
    /\ UNCHANGED <<cliVars, serverVars, recorded, captured, unsure, events>>

\* Mutant of AwaitStopped: as in session.await, any exit is a failure.
AwaitStoppedMessage ==
    /\ sup.pc = "awaitStop"
    /\ \/ /\ toSup # <<>>
          /\ toSup' = Tail(toSup)
          /\ IF StaleReloadResult(Head(toSup), reqno) THEN UNCHANGED sup
             ELSE sup' = [sup EXCEPT !.pc = "reap", !.failed = @ \/ ~Head(toSup).ok]
          /\ UNCHANGED <<toWorker, worker>>
       \/ /\ WorkerGone
          /\ sup' = [sup EXCEPT !.pc = "reap", !.failed = TRUE]
          /\ UNCHANGED linkVars
       \/ /\ sup.late
          /\ sup' = [sup EXCEPT !.pc = "reap", !.failed = TRUE]
          /\ Kill
    /\ UNCHANGED <<cliVars, serverVars, recorded, captured, reqno, unsure, events>>

\* session.awaitShutdown: the acknowledgement and a clean exit are equally good.
AwaitStopped ==
    /\ sup.pc = "awaitStop"
    /\ \/ /\ toSup # <<>>
          /\ LET m == Head(toSup)
             IN  /\ IF StaleReloadResult(m, reqno) THEN UNCHANGED sup
                    ELSE sup' = [sup EXCEPT !.pc = "reap",
                                   !.failed = @ \/ m.kind # "stopped" \/ m.id # reqno \/ ~m.ok]
                 /\ IF StaleReloadResult(m, reqno) \/ (m.kind = "stopped" /\ m.id = reqno /\ m.ok)
                      THEN toSup' = Tail(toSup) /\ UNCHANGED <<toWorker, worker>>
                      ELSE Kill
       \/ /\ WorkerGone
          /\ sup' = [sup EXCEPT !.pc = "reap", !.failed = @ \/ worker.exit = "error"]
          /\ UNCHANGED linkVars
       \/ /\ sup.late
          /\ sup' = [sup EXCEPT !.pc = "reap", !.failed = TRUE]
          /\ Kill
    /\ UNCHANGED <<cliVars, serverVars, recorded, captured, reqno, unsure, events>>

\* WaitProcess, then the descriptors, the status socket and the lock; the
\* recovery record is removed when nothing failed.
Reap ==
    /\ sup.pc = "reap"
    /\ \/ /\ WorkerGone
          /\ sup' = [sup EXCEPT !.pc = "stopped",
                       !.failed = @ \/ (sup.running /\ worker.exit = "error")]
          /\ UNCHANGED events
       \/ (WorkerGone \/ sup.late) /\ Breaks("stopped")
       \/ /\ sup.late
          /\ sup' = [sup EXCEPT !.pc = "stopped", !.failed = @ \/ sup.running]
          /\ UNCHANGED events
    /\ UNCHANGED <<cliVars, serverVars, recorded, captured, reqno, unsure, linkVars>>

-----------------------------------------------------------------------------
(* The worker *)

Hears(kind) == ~WorkerGone /\ toWorker # <<>> /\ Head(toWorker).kind = kind
Says(report) == toSup' = Append(toSup, report) /\ toWorker' = Tail(toWorker)

Exit(how, report) ==
    /\ worker' = [worker EXCEPT !.exit = how]
    /\ toSup' = toSup \o report \o <<Eof>>
    /\ toWorker' = <<>>

WorkerPrepares ==
    /\ worker.phase = "new" /\ Hears("bootstrap")
    /\ \/ /\ worker' = [worker EXCEPT !.phase = "prepared", !.digest = Head(toWorker).config]
          /\ Says(Report("prepared", 0, None, TRUE))
       \/ Exit("error", <<Fatal>>)
    /\ UNCHANGED <<cliVars, serverVars, supVars, events>>

WorkerCommits ==
    /\ worker.phase = "prepared" /\ Hears("commit")
    /\ \/ /\ worker' = [worker EXCEPT !.phase = "running"]
          /\ Says(Report("running", 0, worker.digest, TRUE))
       \/ Exit("error", <<Fatal>>)
    /\ UNCHANGED <<cliVars, serverVars, supVars, events>>

\* Mutant of WorkerReloads: the configuration is switched before the last step
\* that can reject it.
WorkerSwitchesEarly ==
    /\ worker.phase = "running" /\ Hears("reload")
    /\ LET m == Head(toWorker)
       IN  /\ worker' = [worker EXCEPT !.digest = m.config]
           /\ \E ok \in BOOLEAN :
                Says(Report("result", m.id, IF ok THEN m.config ELSE None, ok))
    /\ UNCHANGED <<cliVars, serverVars, supVars, events>>

\* The worker builds everything the new configuration needs before it switches,
\* so a rejected reload changes nothing.
WorkerReloads ==
    /\ worker.phase = "running" /\ Hears("reload")
    /\ LET m == Head(toWorker)
       IN  \/ /\ worker' = [worker EXCEPT !.digest = m.config]
              /\ Says(Report("result", m.id, m.config, TRUE))
           \/ /\ UNCHANGED worker
              /\ Says(Report("result", m.id, None, FALSE))
    /\ UNCHANGED <<cliVars, serverVars, supVars, events>>

WorkerStops ==
    /\ worker.phase = "running" /\ Hears("shutdown")
    /\ LET m == Head(toWorker)
       IN  \/ Exit("clean", <<Report("stopped", m.id, None, TRUE)>>)
           \/ Exit("error", <<Report("stopped", m.id, None, FALSE)>>)
    /\ UNCHANGED <<cliVars, serverVars, supVars, events>>

\* A component of the data plane stops, the process dies without a word, or a
\* signal makes it leave with status zero and no acknowledgement.
WorkerDies ==
    /\ ~WorkerGone
    /\ Event
    /\ \/ Exit("error", <<Fatal>>)
       \/ Exit("error", <<>>)
       \/ Exit("quiet", <<>>)
    /\ UNCHANGED <<cliVars, serverVars, supVars>>

-----------------------------------------------------------------------------
CliStep ==
    \/ Activate \/ RemoveFile \/ RestoreFile
    \/ ReceiveResponse \/ CliTimeout \/ ProcessReload
Operator ==
    \/ \E c \in Configs : BeginUpdate(c) \/ EditFile(c)
    \/ BeginReload \/ Disconnect \/ KillCli \/ ActivateFails \/ RestoreFails
    \/ TakeSignal \/ Tick \/ Stop
SupStep ==
    \/ Bootstrap \/ AwaitPrepared \/ Install \/ Commit \/ AwaitRunning
    \/ (\E i \in Ids : TakeRequest(i)) \/ SeeWorkerExit
    \/ LoadConfig \/ PushReload \/ AwaitResult \/ PersistDigest \/ Reply
    \/ CloseServer \/ Drain \/ RestoreHost \/ StopWorker \/ AwaitStopped \/ Reap
WorkerStep ==
    \/ WorkerPrepares \/ WorkerCommits \/ WorkerReloads \/ WorkerStops \/ WorkerDies

ServiceNext ==
    \/ CliStep \/ Operator \/ SupStep \/ WorkerStep \/ CleanupExpires
    \/ \E i \in Ids : HandlerGivesUp(i)

ServiceSpec == Init /\ [][ServiceNext]_vars

\* The supervisor's goroutine runs and its deadlines pass.  Nothing is assumed of
\* the worker, which may hang, nor of the command and the request handlers.
FairServiceSpec ==
    /\ ServiceSpec
    /\ WF_vars(SupStep)
    /\ WF_vars(CleanupExpires)

-----------------------------------------------------------------------------
(* Properties *)

\* A command that reported success, or a completed rollback, told the truth, and
\* it stays true until the next command or edit: the file, the recovery record
\* and the worker all carry the configuration it named.  Late answers, signals
\* and ticks in between, and requests a killed command left behind, do not undo it.
OutcomeHolds ==
    last.result # "none" /\ ~WorkerGone =>
        /\ file = last.config
        /\ recorded = last.config
        /\ worker.digest = last.config

\* Between requests the recovery record names the configuration the worker runs,
\* unless a reload timed out and none has succeeded since: a rejected reload
\* leaves both halves where they were.
HalvesAgree ==
    sup.pc = "loop" /\ ~unsure /\ ~WorkerGone =>
        recorded = worker.digest /\ toWorker = <<>>

\* An answer that arrives after its reload timed out never fails a later reload:
\* the session does not lose step with the worker.
SessionInStep == sup.err # "protocol"

\* However often a command asks again with the same ID, the reload is carried
\* out once.
AtMostOnce == \A i \in Ids : started[i] <= 1

\* A stop is reported as failed, and the recovery record kept, only if a call of
\* the clean-up itself failed, the clean-up ran out of time, or the worker did not
\* stop cleanly when asked: the acknowledgement racing the exit, and answers to
\* abandoned reloads ahead of it in the channel, are no failure.  And a failed
\* call of the clean-up is never forgotten by the steps that follow it.
CleanStop ==
    sup.pc = "stopped" =>
        /\ sup.failed => sup.broken \/ sup.late \/ worker.exit # "clean"
        /\ sup.broken => sup.failed

\* The supervisor ends with the host still captured only after a failure it
\* reports, so that the recovery record is there for the next start.
ReleasedOrRecorded == sup.pc = "stopped" /\ captured => sup.failed

\* When the worker dies, however it dies, the supervisor stops and the host's
\* routes and DNS are released or recorded for recovery.
DeadWorkerReleased == WorkerGone ~> sup.pc = "stopped" /\ (captured => sup.failed)

-----------------------------------------------------------------------------
(* What the documentation says and the code does not do *)

\* "BeginConfigUpdate atomically activates validated configuration bytes while
\* retaining the previous managed configuration" (manager.go:414-416): whenever no
\* command is at work, there is a managed configuration to start from.
ConfigKept == cli.pc = "idle" => file # Missing
=============================================================================
