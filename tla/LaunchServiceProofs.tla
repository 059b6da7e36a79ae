------------------------- MODULE LaunchServiceProofs -------------------------
(***************************************************************************)
(* Proofs about LaunchService, for any number of commands, failing calls,  *)
(* kills and reboots.  Everything rests on two facts: a live process has a *)
(* job, and while a command replaces files the job is gone or, in a        *)
(* roll-back, on its way out.  The refinement of Installation rests on     *)
(* what a command notes to undo: TxInv relates it to files, account and    *)
(* storage at every step.                                                  *)
(***************************************************************************)
EXTENDS LaunchService, SequenceTheorems, TLAPS

Fields == {"op", "at", "ok", "no", "ver", "plist", "start", "again", "back", "up", "hasty", "created",
           "left", "saved", "fresh", "todo", "held", "done", "res", "clean", "loaded", "was"}

\* A command is a record of its locals, whatever they are.
IsCmd(c) == c = [x \in Fields |-> c[x]]

LaunchShape ==
    /\ IsCmd(cmd)
    /\ cmd.back \in BOOLEAN /\ cmd.clean \in BOOLEAN /\ cmd.loaded \in BOOLEAN /\ cmd.again \in BOOLEAN
    /\ job \in [st : {"out", "in", "leaving"}, keep : BOOLEAN, want : BOOLEAN]
    /\ svc = [x \in {"alive", "phase", "runs"} |-> svc[x]]
    /\ svc.alive \in BOOLEAN /\ svc.phase \in {"", "starting", "running"}
    /\ file = [x \in {"binary", "config", "plist", "mappings"} |-> file[x]]
    /\ account \in [user : BOOLEAN, group : BOOLEAN]
    /\ enabled \in BOOLEAN /\ torn \in BOOLEAN

\* A live process has a record and a job, and runs the present files while the job is in.
ProcessInv ==
    /\ svc.alive => svc.phase # "" /\ job.st # "out"
    /\ ~torn /\ svc.alive /\ job.st = "in" => svc.runs = <<file.binary, file.config>>

Starting == {"start", "bootstrap", "kick", "ready"}
Stopping == {"stop", "bootout", "unloading", "leftover"}

\* The steps of a command at which its Stop has succeeded and nothing was started since
Down == {"leftover", "ensure", "user", "ungroup", "storage", "activate", "place", "examine", "remove",
         "deluser", "delgroup", "clear"}

\* Where Start and Stop return to, and what is known of the job on the way
CommandInv ==
    /\ cmd.op = "none" => cmd.at = "idle"
    /\ cmd.at \in Starting =>
         \/ cmd.ok = "commit" /\ cmd.no \in {"unload", "syncstop"}
         \/ cmd.ok \in {"ok", "fail"} /\ cmd.no = "fail"
    /\ cmd.at \in Stopping =>
         \/ cmd.ok \in {"ok", "activate", "restarting", "ensure", "examine"} /\ cmd.no = "fail"
         \/ cmd.ok = "undo" /\ cmd.no = "giveup" /\ cmd.back
    /\ cmd.at \in Undoing => cmd.back
    /\ cmd.at = "giveup" => torn
    /\ cmd.at \in Down => job.st = "out"
    /\ cmd.at \in {"recover", "undo"} => torn \/ job.st # "in"

\* `service stop`, and the time after its success
StopInv ==
    /\ cmd.op = "stop" =>
         /\ cmd.at \in Stopping \cup {"ok", "fail"} /\ ~cmd.again /\ cmd.res = "failed"
         /\ cmd.at \in Stopping => cmd.ok = "ok" /\ cmd.no = "fail"
         /\ cmd.at \in {"bootout", "unloading", "leftover", "ok"} /\ cmd.loaded => ~enabled
         /\ cmd.at = "ok" => job.st = "out"
    /\ cmd.op = "none" /\ last.op = "stop" /\ last.res = "ok" /\ last.loaded => job.st = "out" /\ ~enabled

Doomed == IF cmd.op = "purge" THEN <<"plist", "binary", "config", "mappings">> ELSE <<"plist", "binary">>

\* What an uninstallation has removed when so much is left to do
Removing ==
    \/ cmd.todo = Doomed
    \/ /\ file.plist = Absent
       /\ cmd.todo = IF cmd.op = "purge" THEN <<"binary", "config", "mappings">> ELSE <<"binary">>
    \/ /\ file.plist = Absent /\ file.binary = Absent
       /\ \/ cmd.todo = IF cmd.op = "purge" THEN <<"config", "mappings">> ELSE <<>>
          \/ cmd.op = "purge" /\ file.config = Absent /\ cmd.todo \in {<<"mappings">>, <<>>}

\* An uninstallation in which no call has failed
UninstallInv == cmd.op \in {"uninstall", "purge"} /\ cmd.clean =>
    /\ cmd.res = "failed" /\ ~cmd.again
    /\ \/ cmd.at \in {"uninstall", "examine", "remove", "deluser", "delgroup", "clear"} \cup Stopping
       \/ cmd.op = "purge" /\ account # WholeAccount /\ cmd.at \in {"restore", "fail"} \cup Starting
    /\ cmd.at \in Stopping => cmd.ok = "examine" /\ cmd.no = "fail"
    /\ cmd.at \in Starting => cmd.ok = "fail" /\ cmd.no = "fail"
    /\ cmd.at \in {"uninstall", "examine"} \cup Stopping => cmd.todo = Doomed
    /\ cmd.at \in {"remove", "deluser", "delgroup", "clear"} => svc = Dead("")
    /\ cmd.at = "remove" => Removing
    /\ cmd.at \in {"deluser", "delgroup"} => cmd.op = "purge"
    /\ cmd.at \in {"deluser", "delgroup", "clear"} =>
         file.plist = Absent /\ file.binary = Absent /\ (cmd.op = "purge" => file.config = Absent)
    /\ cmd.at = "delgroup" => ~account.user
    /\ cmd.at = "clear" /\ cmd.op = "purge" => account = NoAccount

LaunchInv == LaunchShape /\ ProcessInv /\ CommandInv /\ StopInv /\ UninstallInv

----------------------------------------------------------------------------
(* Moves of a command *)

\* Nothing but the step and the marks of failure changes.
Kept ==
    /\ IsCmd(cmd') /\ cmd'.op = cmd.op /\ cmd'.again = cmd.again /\ cmd'.todo = cmd.todo
    /\ cmd'.res = cmd.res /\ cmd'.loaded = cmd.loaded

Returns == cmd'.ok = cmd.ok /\ cmd'.no = cmd.no

LEMMA ToFields ==
    ASSUME LaunchShape, NEW l
    PROVE  LET c == To(l) IN
           /\ IsCmd(c) /\ c.at = l /\ (c.back <=> cmd.back \/ l \in Undoing) /\ c.back \in BOOLEAN
           /\ c.op = cmd.op /\ c.again = cmd.again /\ c.todo = cmd.todo /\ c.res = cmd.res
           /\ c.loaded = cmd.loaded /\ c.clean = cmd.clean /\ c.ok = cmd.ok /\ c.no = cmd.no
<1>1. PICK b \in BOOLEAN : b = (cmd.back \/ l \in Undoing)
  OBVIOUS
<1>2. To(l) = [cmd EXCEPT !.at = l, !.back = b]
  BY <1>1 DEF To
<1> QED
  BY <1>1, <1>2 DEF IsCmd, Fields, LaunchShape

LEMMA GotoMoves ==
    ASSUME LaunchShape, NEW l, Goto(l)
    PROVE  /\ Kept /\ Returns /\ cmd'.at = l /\ (cmd'.back <=> cmd.back \/ l \in Undoing) /\ cmd'.back \in BOOLEAN
           /\ cmd'.clean = cmd.clean
BY ToFields DEF Goto, Kept, Returns

\* The command goes to label l and may note a job that is leaving or a directory that stays.
Reaches(l) == \/ Goto(l)
              \/ \E f \in {"hasty", "left"} : \E v : cmd' = [To(l) EXCEPT ![f] = v]

LEMMA ReachMoves ==
    ASSUME LaunchShape, NEW l, Reaches(l)
    PROVE  /\ Kept /\ Returns /\ cmd'.at = l /\ (cmd'.back <=> cmd.back \/ l \in Undoing) /\ cmd'.back \in BOOLEAN
           /\ cmd'.clean = cmd.clean
<1>1. CASE Goto(l)
  BY <1>1, GotoMoves
<1>2. ASSUME NEW f \in {"hasty", "left"}, NEW v, cmd' = [To(l) EXCEPT ![f] = v]
      PROVE  /\ Kept /\ Returns /\ cmd'.at = l /\ (cmd'.back <=> cmd.back \/ l \in Undoing) /\ cmd'.back \in BOOLEAN
             /\ cmd'.clean = cmd.clean
  <2>1. PICK c : c = To(l)
    OBVIOUS
  <2>2. /\ IsCmd(c) /\ c.at = l /\ (c.back <=> cmd.back \/ l \in Undoing) /\ c.back \in BOOLEAN
        /\ c.op = cmd.op /\ c.again = cmd.again /\ c.todo = cmd.todo /\ c.res = cmd.res
        /\ c.loaded = cmd.loaded /\ c.clean = cmd.clean /\ c.ok = cmd.ok /\ c.no = cmd.no
    BY <2>1, ToFields
  <2>3. cmd' = [c EXCEPT ![f] = v]
    BY <1>2, <2>1
  <2>4. /\ cmd'.at = c.at /\ cmd'.back = c.back /\ cmd'.clean = c.clean /\ cmd'.op = c.op
        /\ cmd'.again = c.again /\ cmd'.todo = c.todo /\ cmd'.res = c.res /\ cmd'.loaded = c.loaded
        /\ cmd'.ok = c.ok /\ cmd'.no = c.no /\ IsCmd(cmd')
    BY <2>2, <2>3 DEF IsCmd, Fields
  <2> QED
    BY <2>2, <2>4 DEF Kept, Returns
<1> QED
  BY <1>1, <1>2 DEF Reaches

LEMMA FaultMoves ==
    ASSUME LaunchShape, NEW l, Fault(l)
    PROVE  /\ Kept /\ Returns /\ cmd'.at = l /\ (cmd'.back <=> cmd.back \/ l \in Undoing) /\ cmd'.back \in BOOLEAN
           /\ cmd'.clean = FALSE /\ (torn' <=> torn \/ cmd.back) /\ torn' \in BOOLEAN /\ last' = last
<1>1. PICK c : c = To(l)
  OBVIOUS
<1>2. /\ IsCmd(c) /\ c.at = l /\ (c.back <=> cmd.back \/ l \in Undoing) /\ c.back \in BOOLEAN
      /\ c.op = cmd.op /\ c.again = cmd.again /\ c.todo = cmd.todo /\ c.res = cmd.res
      /\ c.loaded = cmd.loaded /\ c.ok = cmd.ok /\ c.no = cmd.no
  BY <1>1, ToFields
<1>3. cmd' = [c EXCEPT !.clean = FALSE] /\ torn' = (torn \/ cmd.back) /\ last' = last
  BY <1>1 DEF Fault
<1> QED
  BY <1>2, <1>3 DEF Kept, Returns, IsCmd, Fields, LaunchShape

LEMMA CallMoves ==
    ASSUME LaunchShape, NEW sub, NEW ok, NEW no, Call(sub, ok, no)
    PROVE  /\ Kept /\ cmd'.at = sub /\ cmd'.ok = ok /\ cmd'.no = no
           /\ cmd'.back = cmd.back /\ cmd'.clean = cmd.clean
BY DEF Call, LaunchShape, Kept, IsCmd, Fields

\* The record of a command that is over
LEMMA IdleFields ==
    /\ IsCmd(Idle) /\ Idle.op = "none" /\ Idle.at = "idle" /\ Idle.back = FALSE /\ Idle.clean = TRUE
    /\ Idle.loaded = FALSE /\ Idle.again = FALSE /\ Idle.res = "failed"
BY DEF Idle, IsCmd, Fields

----------------------------------------------------------------------------
(* Steps that change neither the three artifacts nor the job nor a live process *)

Quiet ==
    /\ UNCHANGED <<job, enabled, last>>
    /\ svc' \in {svc, Recovered}
    /\ file' = [x \in {"binary", "config", "plist", "mappings"} |-> file'[x]]
    /\ file'.binary = file.binary /\ file'.config = file.config /\ file'.plist = file.plist
    /\ account' \in [user : BOOLEAN, group : BOOLEAN]

\* The command goes to label l, whatever else it notes.
Moves(l) ==
    /\ IsCmd(cmd') /\ cmd'.op = cmd.op /\ cmd'.at = l
    /\ cmd'.back \in BOOLEAN /\ cmd'.clean \in BOOLEAN /\ cmd'.loaded \in BOOLEAN /\ cmd'.again \in BOOLEAN
    /\ cmd.back \/ l \in Undoing => cmd'.back
    /\ cmd'.clean => cmd.clean
    /\ cmd.op = "stop" => Kept
    /\ torn' \in BOOLEAN /\ (torn => torn')

\* What must be known where Start and Stop return to
StartReturns(ok, no) == \/ ok = "commit" /\ no \in {"unload", "syncstop"}
                        \/ ok \in {"ok", "fail"} /\ no = "fail"
StopReturns(ok, no, back) == \/ ok \in {"ok", "activate", "restarting", "ensure", "examine"} /\ no = "fail"
                             \/ ok = "undo" /\ no = "giveup" /\ back

\* Label l may be next.
Legal(l) ==
    /\ l \in Starting => StartReturns(cmd'.ok, cmd'.no)
    /\ l \in Stopping => StopReturns(cmd'.ok, cmd'.no, cmd'.back)
    /\ l = "giveup" => torn'
    /\ l \in Down => job.st = "out"
    /\ l \in {"recover", "undo"} => torn' \/ job.st # "in"
    /\ cmd.op = "stop" =>
         /\ l \in Stopping \cup {"ok", "fail"}
         /\ l \in Stopping => cmd.at \in Stopping /\ Returns
         /\ l \in {"bootout", "unloading", "leftover", "ok"} => cmd.at \in {"bootout", "unloading", "leftover"}
         /\ l = "ok" => job.st = "out"

LEMMA MoveInv ==
    ASSUME LaunchInv, NEW l, cmd.at # "idle", Quiet, Moves(l), Legal(l), UninstallInv'
    PROVE  LaunchInv'
<1>0. /\ svc' = [x \in {"alive", "phase", "runs"} |-> svc'[x]]
      /\ svc'.alive = svc.alive /\ svc'.phase \in {"", "starting", "running"}
      /\ svc.alive => svc' = svc
  <2>1. CASE svc' = svc
    BY <2>1 DEF LaunchInv, LaunchShape
  <2>2. CASE ~svc.alive /\ svc' = Dead("")
    <3>1. svc.alive = FALSE
      BY <2>2 DEF LaunchInv, LaunchShape
    <3> QED
      BY <2>2, <3>1 DEF Dead
  <2> QED
    BY <2>1, <2>2 DEF Quiet, Recovered
<1>1. LaunchShape'
  BY <1>0 DEF LaunchInv, LaunchShape, Quiet, Moves
<1>2. ProcessInv'
  BY <1>0 DEF LaunchInv, LaunchShape, ProcessInv, Quiet, Moves
<1>3. cmd.op # "none" /\ cmd'.op = cmd.op /\ job' = job /\ enabled' = enabled /\ last' = last /\ cmd'.at = l
  BY DEF LaunchInv, CommandInv, Moves, Quiet
<1>4. CommandInv'
  BY <1>3 DEF LaunchInv, CommandInv, Moves, Legal, StartReturns, StopReturns, Starting, Stopping, Down, Undoing
<1>5. StopInv'
  BY <1>3 DEF LaunchInv, StopInv, Moves, Kept, Legal, Returns, Stopping, Starting
<1> QED
  BY <1>1, <1>2, <1>4, <1>5 DEF LaunchInv

\* The labels of an uninstallation in which no call has failed
Clearing == {"uninstall", "examine", "remove", "deluser", "delgroup", "clear", "restore", "fail"} \cup Stopping \cup Starting

\* Such an uninstallation is not at this label.
LEMMA NotClearing ==
    ASSUME LaunchInv, cmd.at \notin Clearing, cmd'.op = cmd.op, cmd'.clean => cmd.clean
    PROVE  UninstallInv'
BY DEF LaunchInv, UninstallInv, Clearing

\* A call that fails
LEMMA FaultInv ==
    ASSUME LaunchInv, NEW l, cmd.at # "idle", Quiet, Fault(l),
           l \notin Stopping, l \in Starting => cmd.at \in Starting,
           l = "giveup" => cmd.back,
           l \in Down => job.st = "out",
           l \in {"recover", "undo"} => torn \/ cmd.back \/ job.st # "in",
           cmd.op = "stop" => l = "fail"
    PROVE  LaunchInv'
<1>1. /\ Kept /\ Returns /\ cmd'.at = l /\ (cmd'.back <=> cmd.back \/ l \in Undoing) /\ cmd'.back \in BOOLEAN
      /\ cmd'.clean = FALSE /\ (torn' <=> torn \/ cmd.back) /\ torn' \in BOOLEAN
  BY FaultMoves DEF LaunchInv
<1>2. Moves(l)
  BY <1>1 DEF Moves, Kept, LaunchInv, LaunchShape
<1>3. Legal(l)
  BY <1>1 DEF Legal, LaunchInv, CommandInv, StartReturns, Returns, Stopping
<1>4. UninstallInv'
  BY <1>1 DEF UninstallInv
<1> QED
  BY <1>2, <1>3, <1>4, MoveInv

\* The command goes on without a failure.
LEMMA GotoInv ==
    ASSUME LaunchInv, NEW l, cmd.at # "idle", Quiet, Reaches(l), torn' \in BOOLEAN, torn => torn', Legal(l),
           cmd.at \notin Clearing \/ UninstallInv'
    PROVE  LaunchInv'
<1>1. /\ Kept /\ cmd'.at = l /\ (cmd'.back <=> cmd.back \/ l \in Undoing) /\ cmd'.back \in BOOLEAN
      /\ cmd'.clean = cmd.clean
  BY ReachMoves DEF LaunchInv
<1>2. Moves(l)
  BY <1>1 DEF Moves, Kept, LaunchInv, LaunchShape
<1>3. UninstallInv'
  BY <1>1, NotClearing DEF Kept
<1> QED
  BY <1>2, <1>3, MoveInv

\* A call that fails without effect leaves everything else.
LEMMA FaultAtQuiet ==
    ASSUME LaunchInv, NEW l, NEW to, FaultAt(l, to)
    PROVE  Quiet /\ Fault(to) /\ cmd.at = l
BY DEF FaultAt, At, Fault, Quiet, LaunchInv, LaunchShape, host, launchd

\* A change of the account or of the directories disturbs nothing else.
LEMMA StillQuiet ==
    ASSUME LaunchInv, account' \in [user : BOOLEAN, group : BOOLEAN], UNCHANGED <<file, launchd, last>>
    PROVE  Quiet
BY DEF Quiet, LaunchInv, LaunchShape, launchd

LEMMA RecoverQuiet ==
    ASSUME LaunchInv, svc' = Recovered, UNCHANGED <<file, account, job, enabled, last>>
    PROVE  Quiet /\ (job.st = "out" => ~svc.alive /\ svc' = Dead(""))
BY DEF Quiet, LaunchInv, LaunchShape, ProcessInv, Recovered

----------------------------------------------------------------------------
(* Calls that fail *)

LEMMA RefuseInv ==
    ASSUME LaunchInv, Refuse
    PROVE  LaunchInv'
<1>1. PICK l \in {"install", "upgrade", "sync", "restart", "uninstall"} : FaultAt(l, "fail")
  BY DEF Refuse
<1>2. Quiet /\ Fault("fail") /\ cmd.at = l
  BY <1>1, FaultAtQuiet
<1> QED
  BY <1>1, <1>2, FaultInv DEF Stopping, Starting, Down

LEMMA StartFailsInv ==
    ASSUME LaunchInv, StartFails
    PROVE  LaunchInv'
<1>1. PICK l \in Starting, to \in {"ready", cmd.no} : FaultAt(l, to)
  BY DEF StartFails, Starting
<1>2. Quiet /\ Fault(to) /\ cmd.at = l
  BY <1>1, FaultAtQuiet
<1>3. to \in {"ready", "unload", "syncstop", "fail"} /\ cmd.op # "stop"
  BY <1>1, <1>2 DEF LaunchInv, CommandInv, StopInv, Starting, Stopping
<1> QED
  BY <1>1, <1>2, <1>3, FaultInv DEF Stopping, Starting, Down

LEMMA StopFailsInv ==
    ASSUME LaunchInv, StopFails
    PROVE  LaunchInv'
<1>1. PICK l \in Stopping : FaultAt(l, cmd.no)
  BY DEF StopFails, Stopping
<1>2. Quiet /\ Fault(cmd.no) /\ cmd.at = l
  BY <1>1, FaultAtQuiet
<1>3. /\ cmd.no \in {"fail", "giveup"} /\ (cmd.no = "giveup" => cmd.back)
      /\ cmd.op = "stop" => cmd.no = "fail"
  BY <1>1, <1>2 DEF LaunchInv, CommandInv, StopInv
<1> QED
  BY <1>1, <1>2, <1>3, FaultInv DEF Stopping, Starting, Down

\* Where a failure before or at an activation leads
LEMMA FailureTargets ==
    EarlyFailure \in {"fail", "restore"} /\ FailedActivation \in {"undo", "unload", "restore"}
BY DEF EarlyFailure, FailedActivation

LEMMA PrepareFailsInv ==
    ASSUME LaunchInv, PrepareFails
    PROVE  LaunchInv'
<1>1. PICK l \in {"ensure", "user", "ungroup", "storage", "activate", "place"},
            to \in {EarlyFailure, "ungroup", "purge", FailedActivation} :
        /\ cmd.at = l /\ Fault(to)
        /\ \/ FaultAt(l, to)
           \/ l = "place" /\ file' = [file EXCEPT ![Head(cmd.todo)] = cmd.held] /\ UNCHANGED <<account, dirs, launchd>>
  BY DEF PrepareFails, FaultAt, At
<1>2. /\ to \in {"fail", "restore", "undo", "unload", "ungroup", "purge"}
      /\ job.st = "out" /\ cmd.op \notin {"stop", "none"}
  BY <1>1, FailureTargets DEF LaunchInv, CommandInv, StopInv, Down, Stopping
<1>3. CASE FaultAt(l, to)
  BY <1>1, <1>2, <1>3, FaultAtQuiet, FaultInv DEF Stopping, Starting, Down
<1>4. CASE file' = [file EXCEPT ![Head(cmd.todo)] = cmd.held] /\ UNCHANGED <<account, dirs, launchd>>
  <2>1. /\ Kept /\ Returns /\ cmd'.at = to /\ (cmd'.back <=> cmd.back \/ to \in Undoing) /\ cmd'.back \in BOOLEAN
        /\ cmd'.clean = FALSE /\ (torn' <=> torn \/ cmd.back) /\ torn' \in BOOLEAN /\ last' = last
    BY <1>1, FaultMoves DEF LaunchInv
  <2>2. UNCHANGED <<account, job, enabled, svc>>
    BY <1>4 DEF launchd
  <2>3. LaunchShape'
    BY <1>4, <2>1, <2>2 DEF LaunchInv, LaunchShape, Kept
  <2>4. ProcessInv'
    BY <1>2, <2>2 DEF LaunchInv, ProcessInv
  <2>5. CommandInv'
    BY <1>2, <2>1, <2>2 DEF CommandInv, Starting, Stopping, Undoing, Kept
  <2>6. StopInv' /\ UninstallInv'
    BY <1>2, <2>1 DEF StopInv, UninstallInv, Kept
  <2> QED
    BY <2>3, <2>4, <2>5, <2>6 DEF LaunchInv
<1> QED
  BY <1>1, <1>3, <1>4

LEMMA UninstallFailsInv ==
    ASSUME LaunchInv, UninstallFails
    PROVE  LaunchInv'
<1>1. PICK l \in {"examine", "remove", "deluser", "delgroup"}, to \in {"restore", "undo"} :
        /\ cmd.at = l /\ Fault(to)
        /\ FaultAt(l, to) \/ (account' = WholeAccount /\ UNCHANGED <<file, dirs, launchd>>)
  BY DEF UninstallFails, FaultAt, At
<1>2. job.st = "out" /\ cmd.op # "stop"
  BY <1>1 DEF LaunchInv, CommandInv, StopInv, Down, Stopping
<1>3. Quiet
  <2>1. last' = last /\ WholeAccount \in [user : BOOLEAN, group : BOOLEAN]
    BY <1>1 DEF Fault, WholeAccount
  <2> QED
    BY <1>1, <2>1, FaultAtQuiet, StillQuiet
<1> QED
  BY <1>1, <1>2, <1>3, FaultInv DEF Stopping, Starting, Down

LEMMA RollbackFailsInv ==
    ASSUME LaunchInv, RollbackFails
    PROVE  LaunchInv'
<1>1. CASE \E l \in {"unload", "recover", "unstore", "purge", "degroup"}, to \in {"recover", "undo", "purge", "restore"} :
             /\ cmd.at = l /\ Fault(to)
             /\ FaultAt(l, to) \/ (account' = WholeAccount /\ UNCHANGED <<file, dirs, launchd>>)
  <2>1. PICK l \in {"unload", "recover", "unstore", "purge", "degroup"}, to \in {"recover", "undo", "purge", "restore"} :
             /\ cmd.at = l /\ Fault(to)
             /\ FaultAt(l, to) \/ (account' = WholeAccount /\ UNCHANGED <<file, dirs, launchd>>)
    BY <1>1
  <2>2. cmd.back /\ cmd.op # "stop"
    BY <2>1 DEF LaunchInv, CommandInv, StopInv, Undoing, Stopping
  <2>3. Quiet
    <3>1. last' = last /\ WholeAccount \in [user : BOOLEAN, group : BOOLEAN]
      BY <2>1 DEF Fault, WholeAccount
    <3> QED
      BY <2>1, <3>1, FaultAtQuiet, StillQuiet
  <2> QED
    BY <2>1, <2>2, <2>3, FaultInv DEF Stopping, Starting, Down
<1>2. CASE /\ cmd.at = "undo"
           /\ file' = [file EXCEPT ![Head(cmd.done).file] = Absent]
           /\ cmd' = [cmd EXCEPT !.done = Tail(@), !.clean = FALSE, !.up = @ /\ cmd.op # "start"]
           /\ torn' = TRUE
           /\ UNCHANGED <<account, dirs, launchd, last>>
  <2>1. /\ Kept /\ Returns /\ cmd'.at = cmd.at /\ cmd'.back = cmd.back /\ cmd'.clean = FALSE
        /\ UNCHANGED <<account, job, enabled, svc, last>>
    BY <1>2 DEF LaunchInv, LaunchShape, IsCmd, Fields, Kept, Returns, launchd
  <2>2. LaunchShape'
    BY <1>2, <2>1 DEF LaunchInv, LaunchShape, Kept
  <2>3. ProcessInv'
    BY <1>2, <2>1 DEF LaunchInv, ProcessInv
  <2>4. CommandInv'
    BY <1>2, <2>1 DEF LaunchInv, CommandInv, Kept, Starting, Stopping, Down, Undoing
  <2>5. StopInv' /\ UninstallInv'
    BY <1>2, <2>1 DEF LaunchInv, CommandInv, StopInv, UninstallInv, Kept, Stopping
  <2> QED
    BY <2>2, <2>3, <2>4, <2>5 DEF LaunchInv
<1> QED
  BY <1>1, <1>2 DEF RollbackFails, FaultAt, At

----------------------------------------------------------------------------
(* Start and Stop *)

LEMMA StartReadyInv ==
    ASSUME LaunchInv, StartReady \/ StartHopeless
    PROVE  LaunchInv'
<1>1. /\ cmd.at = "ready" /\ UNCHANGED <<file, account, launchd, last>>
      /\ torn' \in BOOLEAN /\ (torn => torn')
  BY DEF StartReady, StartHopeless, At, Step, LaunchInv, LaunchShape, host
<1>2. PICK l \in {cmd.ok, cmd.no} : Goto(l)
  BY DEF StartReady, StartHopeless
<1>3. Quiet
  BY <1>1, StillQuiet DEF LaunchInv, LaunchShape
<1>4. l \in {"commit", "unload", "syncstop", "ok", "fail"} /\ cmd.op # "stop"
  BY <1>1, <1>2 DEF LaunchInv, CommandInv, StopInv, Starting, Stopping
<1>5. Legal(l)
  BY <1>4 DEF Legal, Starting, Stopping, Down
<1>6. /\ Kept /\ cmd'.at = l /\ cmd'.clean = cmd.clean
  BY <1>2, GotoMoves DEF LaunchInv
<1>7. UninstallInv'
  BY <1>1, <1>2, <1>3, <1>6 DEF LaunchInv, UninstallInv, Kept, Quiet, Starting, Stopping
<1> QED
  BY <1>1, <1>2, <1>3, <1>5, <1>7, GotoInv DEF Reaches

LEMMA StartEnableInv ==
    ASSUME LaunchInv, StartEnable
    PROVE  LaunchInv'
<1>1. LaunchShape /\ cmd.at = "start" /\ UNCHANGED <<file, account, dirs, job, svc, last, torn>>
  BY DEF LaunchInv, StartEnable, At, Step, host
<1>2. \/ Goto("bootstrap") /\ enabled' = TRUE
      \/ Goto(cmd.no) /\ UNCHANGED enabled
  BY DEF StartEnable
<1>3. PICK l \in {"bootstrap", cmd.no} :
        /\ Kept /\ Returns /\ cmd'.at = l /\ (cmd'.back <=> cmd.back \/ l \in Undoing) /\ cmd'.back \in BOOLEAN
        /\ cmd'.clean = cmd.clean
  BY <1>1, <1>2, GotoMoves
<1>4. enabled' \in BOOLEAN
  BY <1>1, <1>2 DEF LaunchShape
<1>5. LaunchShape'
  BY <1>1, <1>3, <1>4 DEF LaunchShape, Kept
<1>6. ProcessInv'
  BY <1>1 DEF LaunchInv, ProcessInv
<1>7. CommandInv'
  BY <1>1, <1>3 DEF LaunchInv, CommandInv, Kept, Returns, Starting, Stopping, Down, Undoing
<1>8. StopInv'
  BY <1>1, <1>3 DEF LaunchInv, CommandInv, StopInv, Kept, Starting, Stopping
<1>9. UninstallInv'
  BY <1>1, <1>3 DEF LaunchInv, UninstallInv, Kept, Returns, Starting, Stopping
<1> QED
  BY <1>5, <1>6, <1>7, <1>8, <1>9 DEF LaunchInv

LEMMA StartLoadInv ==
    ASSUME LaunchInv, StartBootstrap \/ StartKick
    PROVE  LaunchInv'
<1>1. /\ cmd.at \in {"bootstrap", "kick"} /\ UNCHANGED <<file, account, enabled, svc, last, torn>>
      /\ Reaches("kick") \/ Reaches("ready")
  <2>1. CASE StartBootstrap
    <3>1. PICK v : cmd' = [To("kick") EXCEPT !.hasty = v]
      BY <2>1 DEF StartBootstrap
    <3> QED
      BY <2>1, <3>1 DEF StartBootstrap, At, Step, host, Reaches
  <2>2. CASE StartKick
    BY <2>2 DEF StartKick, At, Step, host, Reaches
  <2> QED
    BY <2>1, <2>2
<1>2. /\ job' \in [st : {"out", "in", "leaving"}, keep : BOOLEAN, want : BOOLEAN]
      /\ job.st # "out" => job'.st = job.st
  <2>1. CASE StartBootstrap
    <3>1. PICK b \in BOOLEAN : b = (file.plist = AtBoot)
      OBVIOUS
    <3>2. job' = IF job.st # "out" THEN job ELSE [st |-> "in", keep |-> b, want |-> b]
      BY <2>1, <3>1 DEF StartBootstrap, Loaded, JobOf
    <3> QED
      BY <3>2 DEF LaunchInv, LaunchShape
  <2>2. CASE StartKick
    BY <2>2 DEF StartKick, LaunchInv, LaunchShape
  <2> QED
    BY <2>1, <2>2
<1>3. PICK l \in {"kick", "ready"} :
        /\ Kept /\ Returns /\ cmd'.at = l /\ (cmd'.back <=> cmd.back \/ l \in Undoing) /\ cmd'.back \in BOOLEAN
        /\ cmd'.clean = cmd.clean
  BY <1>1, ReachMoves DEF LaunchInv
<1>4. LaunchShape'
  BY <1>1, <1>2, <1>3 DEF LaunchInv, LaunchShape, Kept
<1>5. ProcessInv'
  BY <1>1, <1>2 DEF LaunchInv, ProcessInv
<1>6. CommandInv'
  BY <1>1, <1>3 DEF LaunchInv, CommandInv, Kept, Returns, Starting, Stopping, Down, Undoing
<1>7. StopInv'
  BY <1>1, <1>3 DEF LaunchInv, CommandInv, StopInv, Kept, Starting, Stopping
<1>8. UninstallInv'
  BY <1>1, <1>3 DEF LaunchInv, UninstallInv, Kept, Returns, Starting, Stopping
<1> QED
  BY <1>4, <1>5, <1>6, <1>7, <1>8 DEF LaunchInv

LEMMA StopDisableInv ==
    ASSUME LaunchInv, StopDisable
    PROVE  LaunchInv'
<1>1. LaunchShape /\ cmd.at = "stop" /\ UNCHANGED <<file, account, dirs, job, svc, last, torn>>
  BY DEF LaunchInv, StopDisable, At, Step, host
<1>2. PICK b \in BOOLEAN : b = Loaded
  BY DEF Loaded
<1>3. PICK l : l = IF b THEN "bootout" ELSE "leftover"
  OBVIOUS
<1>4. cmd' = [cmd EXCEPT !.at = l, !.loaded = b] /\ enabled' = (enabled /\ ~b)
  BY <1>1, <1>2, <1>3 DEF StopDisable, Running, Loaded, LaunchInv, ProcessInv
<1>5. /\ IsCmd(cmd') /\ cmd'.at = l /\ cmd'.loaded = b /\ cmd'.ok = cmd.ok /\ cmd'.no = cmd.no /\ cmd'.back = cmd.back
      /\ cmd'.op = cmd.op /\ cmd'.again = cmd.again /\ cmd'.todo = cmd.todo /\ cmd'.res = cmd.res
      /\ cmd'.clean = cmd.clean
  BY <1>1, <1>4 DEF LaunchShape, IsCmd, Fields
<1>6. LaunchShape'
  BY <1>1, <1>4, <1>5 DEF LaunchShape
<1>7. ProcessInv'
  BY <1>1 DEF LaunchInv, ProcessInv
<1>8. cmd'.at \in {"bootout", "leftover"} /\ (cmd'.at = "leftover" => job.st = "out") /\ (cmd'.loaded => ~enabled')
  <2>1. CASE b
    <3>1. ~enabled'
      BY <1>4, <2>1, Zenon
    <3>2. cmd'.at = "bootout"
      BY <1>3, <1>5, <2>1
    <3> QED
      BY <3>1, <3>2
  <2>2. CASE ~b
    BY <1>2, <1>3, <1>5, <2>2 DEF Loaded
  <2> QED
    BY <2>1, <2>2
<1>9. CommandInv'
  BY <1>1, <1>5, <1>8 DEF LaunchInv, CommandInv, Starting, Stopping, Down, Undoing
<1>10. cmd.op # "none"
  BY <1>1 DEF LaunchInv, CommandInv
<1>11. StopInv'
  BY <1>1, <1>5, <1>8, <1>10 DEF LaunchInv, StopInv, Stopping
<1>12. UninstallInv'
  BY <1>1, <1>5, <1>8 DEF LaunchInv, UninstallInv, Starting, Stopping, Doomed
<1> QED
  BY <1>6, <1>7, <1>9, <1>11, <1>12 DEF LaunchInv

LEMMA StopBootoutInv ==
    ASSUME LaunchInv, StopBootout
    PROVE  LaunchInv'
<1>1. /\ cmd.at = "bootout" /\ UNCHANGED <<file, account, enabled, svc, last, torn>> /\ Goto("unloading")
      /\ job' = [job EXCEPT !.st = "leaving", !.want = FALSE]
  BY DEF StopBootout, At, Step, host, Leaving
<1>2. job' \in [st : {"out", "in", "leaving"}, keep : BOOLEAN, want : BOOLEAN] /\ job'.st = "leaving"
  BY <1>1 DEF LaunchInv, LaunchShape
<1>3. /\ Kept /\ Returns /\ cmd'.at = "unloading" /\ cmd'.clean = cmd.clean
      /\ cmd'.back \in BOOLEAN /\ (cmd'.back <=> cmd.back)
  BY <1>1, GotoMoves DEF LaunchInv, Undoing
<1>4. LaunchShape'
  BY <1>1, <1>2, <1>3 DEF LaunchInv, LaunchShape, Kept
<1>5. ProcessInv'
  BY <1>1, <1>2 DEF LaunchInv, ProcessInv
<1>6. CommandInv'
  BY <1>1, <1>3 DEF LaunchInv, CommandInv, Kept, Returns, Starting, Stopping, Down, Undoing
<1>7. cmd.op # "none"
  BY <1>1 DEF LaunchInv, CommandInv
<1>8. StopInv'
  BY <1>1, <1>3, <1>7 DEF LaunchInv, StopInv, Kept, Returns, Stopping
<1>9. UninstallInv'
  BY <1>1, <1>3 DEF LaunchInv, UninstallInv, Kept, Returns, Starting, Stopping, Doomed
<1> QED
  BY <1>4, <1>5, <1>6, <1>8, <1>9 DEF LaunchInv

LEMMA StopUnloadedInv ==
    ASSUME LaunchInv, StopUnloaded
    PROVE  LaunchInv'
<1>1. /\ cmd.at = "unloading" /\ UNCHANGED <<file, account, launchd, last, torn>> /\ Goto("leftover")
      /\ job.st = "out"
  BY DEF StopUnloaded, At, Step, host, Loaded
<1>2. Quiet /\ torn' \in BOOLEAN
  BY <1>1, StillQuiet DEF LaunchInv, LaunchShape
<1>3. /\ Kept /\ Returns /\ cmd'.at = "leftover" /\ cmd'.clean = cmd.clean
      /\ cmd'.back \in BOOLEAN /\ (cmd'.back <=> cmd.back)
  BY <1>1, GotoMoves DEF LaunchInv, Undoing
<1>4. Legal("leftover")
  BY <1>1, <1>3 DEF Legal, StopReturns, LaunchInv, CommandInv, Returns, Starting, Stopping
<1>5. UninstallInv'
  BY <1>1, <1>3 DEF LaunchInv, UninstallInv, Kept, Returns, Starting, Stopping, Doomed
<1> QED
  BY <1>1, <1>2, <1>4, <1>5, GotoInv DEF Reaches

LEMMA StopRecoverInv ==
    ASSUME LaunchInv, StopRecover
    PROVE  LaunchInv'
<1>1. /\ cmd.at = "leftover" /\ svc' = Recovered /\ UNCHANGED <<file, account, job, enabled, last, torn>>
  BY DEF StopRecover, At, Step, host
<1>2. job.st = "out" /\ torn' \in BOOLEAN
  BY <1>1 DEF LaunchInv, LaunchShape, CommandInv, Down
<1>3. Quiet /\ ~svc.alive
  BY <1>1, <1>2, RecoverQuiet
<1>4. Goto(cmd.ok)
  BY <1>3 DEF StopRecover, Running
<1>5. /\ Kept /\ Returns /\ cmd'.at = cmd.ok /\ cmd'.clean = cmd.clean
  BY <1>4, GotoMoves DEF LaunchInv
<1>6. Legal(cmd.ok)
  BY <1>1, <1>2 DEF Legal, LaunchInv, CommandInv, StopInv, Starting, Stopping
<1>7. UninstallInv'
  BY <1>1, <1>5 DEF LaunchInv, UninstallInv, Kept, Starting, Stopping, Doomed
<1> QED
  BY <1>1, <1>2, <1>3, <1>4, <1>6, <1>7, GotoInv DEF Reaches

----------------------------------------------------------------------------
(* Account, storage and roll-back *)

\* The steps that only read, or change the account, the directories or the mappings
LEMMA AccountInv ==
    ASSUME LaunchInv, InstallCheck \/ EnsureGroup \/ Ungroup \/ Unstore \/ RollbackUser \/ RollbackGroup
    PROVE  LaunchInv'
<1>1. /\ cmd.at \in {"install", "ensure", "ungroup", "unstore", "purge", "degroup"}
      /\ UNCHANGED <<job, enabled, svc, last, torn>>
  BY DEF InstallCheck, EnsureGroup, Ungroup, Unstore, RollbackUser, RollbackGroup, At, Step, launchd
<1>2. account' \in [user : BOOLEAN, group : BOOLEAN]
  <2>1. CASE InstallCheck \/ Unstore
    BY <2>1 DEF InstallCheck, Unstore, host, LaunchInv, LaunchShape
  <2>2. CASE EnsureGroup
    <3>1. PICK b \in BOOLEAN : b = (account.group \/ account = NoAccount)
      BY DEF LaunchInv, LaunchShape
    <3> QED
      BY <2>2, <3>1 DEF EnsureGroup, LaunchInv, LaunchShape
  <2>3. CASE Ungroup \/ RollbackGroup
    BY <2>3 DEF Ungroup, RollbackGroup, LaunchInv, LaunchShape
  <2>4. CASE RollbackUser
    <3>1. PICK b \in BOOLEAN : b = (account.user /\ ~cmd.created)
      OBVIOUS
    <3> QED
      BY <2>4, <3>1 DEF RollbackUser, LaunchInv, LaunchShape
  <2> QED
    BY <2>1, <2>2, <2>3, <2>4
<1>3. /\ file' = [x \in {"binary", "config", "plist", "mappings"} |-> file'[x]]
      /\ file'.binary = file.binary /\ file'.config = file.config /\ file'.plist = file.plist
  <2>1. CASE Unstore
    BY <2>1 DEF Unstore, LaunchInv, LaunchShape
  <2>2. CASE ~Unstore
    <3>1. file' = file
      BY <2>2 DEF InstallCheck, EnsureGroup, Ungroup, RollbackUser, RollbackGroup, host
    <3> QED
      BY <3>1 DEF LaunchInv, LaunchShape
  <2> QED
    BY <2>1, <2>2
<1>4. Quiet
  BY <1>1, <1>2, <1>3 DEF Quiet
<1>5. PICK l : Reaches(l) /\ \/ l \in {"fail", "restore", "purge", "degroup"}
                             \/ l \in {"storage", "user", "ensure"} /\ job.st = "out"
  <2>1. CASE InstallCheck
    BY <2>1 DEF InstallCheck, Loaded, Reaches
  <2>2. CASE EnsureGroup
    BY <2>2, FailureTargets DEF EnsureGroup, At, LaunchInv, CommandInv, Down, Reaches
  <2>3. CASE Ungroup \/ RollbackUser \/ RollbackGroup
    BY <2>3, FailureTargets DEF Ungroup, RollbackUser, RollbackGroup, Reaches
  <2>4. CASE Unstore
    <3>1. \E v : cmd' = [To("purge") EXCEPT !.left = v]
      BY <2>4 DEF Unstore
    <3> QED
      BY <3>1 DEF Reaches
  <2> QED
    BY <2>1, <2>2, <2>3, <2>4
<1>6. cmd.op # "stop" /\ torn' \in BOOLEAN
  BY <1>1 DEF LaunchInv, LaunchShape, StopInv, Stopping
<1>7. Legal(l)
  BY <1>5, <1>6 DEF Legal, Starting, Stopping, Down
<1>8. cmd.at \notin Clearing
  BY <1>1 DEF Clearing, Starting, Stopping
<1> QED
  BY <1>1, <1>4, <1>5, <1>6, <1>7, <1>8, GotoInv

LEMMA RollbackRecoverInv ==
    ASSUME LaunchInv, RollbackRecover
    PROVE  LaunchInv'
<1>1. /\ cmd.at = "recover" /\ svc' = Recovered /\ UNCHANGED <<file, account, job, enabled, last, torn>>
      /\ Goto("undo")
  BY DEF RollbackRecover, At, Step, host
<1>2. Quiet
  BY <1>1, RecoverQuiet
<1>3. cmd.op # "stop" /\ torn' \in BOOLEAN /\ (torn \/ job.st # "in") /\ cmd.at \notin Clearing
  BY <1>1 DEF LaunchInv, LaunchShape, CommandInv, StopInv, Stopping, Starting, Clearing
<1>4. Legal("undo")
  BY <1>1, <1>3 DEF Legal, Starting, Stopping, Down
<1> QED
  BY <1>1, <1>2, <1>3, <1>4, GotoInv DEF Reaches

LEMMA UnloadInv ==
    ASSUME LaunchInv, Unload
    PROVE  LaunchInv'
<1>1. /\ cmd.at = "unload" /\ UNCHANGED <<file, account, enabled, svc, last, torn>> /\ Goto("recover")
      /\ job' = IF Loaded THEN [job EXCEPT !.st = "leaving", !.want = FALSE] ELSE job
  BY DEF Unload, At, Step, host, Leaving
<1>2. /\ job' \in [st : {"out", "in", "leaving"}, keep : BOOLEAN, want : BOOLEAN] /\ job'.st # "in"
      /\ job.st # "out" => job'.st # "out"
  BY <1>1 DEF LaunchInv, LaunchShape, Loaded
<1>3. /\ Kept /\ cmd'.at = "recover" /\ cmd'.clean = cmd.clean /\ cmd'.back = TRUE
  BY <1>1, GotoMoves DEF LaunchInv, Undoing
<1>4. cmd.op \notin {"stop", "none"} /\ cmd.at \notin Clearing
  BY <1>1 DEF LaunchInv, CommandInv, StopInv, Stopping, Starting, Clearing
<1>5. LaunchShape'
  BY <1>1, <1>2, <1>3 DEF LaunchInv, LaunchShape, Kept
<1>6. ProcessInv'
  BY <1>1, <1>2 DEF LaunchInv, ProcessInv
<1>7. CommandInv'
  BY <1>2, <1>3, <1>4 DEF CommandInv, Kept, Starting, Stopping, Down, Undoing
<1>8. StopInv' /\ UninstallInv'
  BY <1>3, <1>4, NotClearing DEF StopInv, Kept
<1> QED
  BY <1>5, <1>6, <1>7, <1>8 DEF LaunchInv

----------------------------------------------------------------------------
(* The commands' own steps *)

\* A step outside an uninstallation without failures, to one of the labels that need
\* nothing, or where what they need is known
LEMMA OwnInv ==
    ASSUME LaunchInv, Quiet, UNCHANGED torn, NEW l,
           cmd.at \notin Clearing \cup {"idle", "ok"},
           IsCmd(cmd'), cmd'.op = cmd.op, cmd'.at = l,
           cmd'.back \in BOOLEAN, cmd'.clean \in BOOLEAN, cmd'.again \in BOOLEAN, cmd'.loaded = cmd.loaded,
           cmd.back \/ l \in Undoing => cmd'.back, cmd'.clean => cmd.clean,
           \/ l \in {"fail", "commit", "unstore", "purge"}
           \/ l \in {"storage", "activate"} /\ job.st = "out"
           \/ l = "undo" /\ torn
           \/ l = "start" /\ StartReturns(cmd'.ok, cmd'.no)
           \/ l = "stop" /\ StopReturns(cmd'.ok, cmd'.no, cmd'.back)
    PROVE  LaunchInv'
<1>1. cmd.op # "stop"
  BY DEF LaunchInv, StopInv, Clearing
<1>2. Moves(l)
  BY <1>1 DEF Moves, LaunchInv, LaunchShape
<1>3. Legal(l)
  BY <1>1 DEF Legal, Starting, Stopping, Down
<1>4. UninstallInv'
  BY NotClearing
<1> QED
  BY <1>2, <1>3, <1>4, MoveInv

LEMMA PrepareInv ==
    ASSUME LaunchInv, EnsureUser \/ PrepareStorage
    PROVE  LaunchInv'
<1>1. cmd.at \in {"user", "storage"} /\ UNCHANGED <<file, launchd, last, torn>>
  BY DEF EnsureUser, PrepareStorage, At, Step
<1>2. account' \in [user : BOOLEAN, group : BOOLEAN]
  <2>1. CASE EnsureUser
    BY <2>1 DEF EnsureUser, WholeAccount
  <2>2. CASE PrepareStorage
    BY <2>2 DEF PrepareStorage, LaunchInv, LaunchShape
  <2> QED
    BY <2>1, <2>2
<1>3. /\ IsCmd(cmd') /\ cmd'.op = cmd.op /\ cmd'.at \in {"storage", "activate", "purge"}
      /\ cmd'.back \in BOOLEAN /\ (cmd.back \/ cmd'.at \in Undoing => cmd'.back)
      /\ cmd'.clean = cmd.clean /\ cmd'.again = cmd.again /\ cmd'.loaded = cmd.loaded
  <2>1. CASE EnsureUser
    BY <2>1 DEF EnsureUser, LaunchInv, LaunchShape, IsCmd, Fields, Undoing
  <2>2. CASE PrepareStorage /\ dirs.data # "stray"
    <3>1. PICK x, y : cmd' = [cmd EXCEPT !.at = "activate", !.saved = x, !.fresh = y]
      BY <2>2 DEF PrepareStorage
    <3> QED
      BY <3>1 DEF LaunchInv, LaunchShape, IsCmd, Fields, Undoing
  <2>3. CASE PrepareStorage /\ dirs.data = "stray"
    <3>1. Goto("purge")
      BY <2>3 DEF PrepareStorage
    <3> QED
      BY <3>1, GotoMoves DEF LaunchInv, Kept
  <2> QED
    BY <2>1, <2>2, <2>3
<1>4. /\ cmd.at \notin Clearing \cup {"idle", "ok"} /\ job.st = "out"
      /\ cmd.back \in BOOLEAN /\ cmd.clean \in BOOLEAN /\ cmd.again \in BOOLEAN
  BY <1>1 DEF Clearing, Starting, Stopping, LaunchInv, LaunchShape, CommandInv, Down
<1>5. Quiet
  BY <1>1, <1>2, StillQuiet
<1> QED
  BY <1>1, <1>3, <1>4, <1>5, OwnInv

LEMMA EnterInv ==
    ASSUME LaunchInv, Sync \/ SyncInvalid \/ Upgrade \/ Restart \/ Restarting \/ SyncStop \/ Activated
    PROVE  LaunchInv'
<1>1. cmd.at \in {"sync", "upgrade", "restart", "restarting", "syncstop", "activate"}
      /\ UNCHANGED <<file, account, launchd, last, torn>>
  BY DEF Sync, SyncInvalid, Upgrade, Restart, Restarting, SyncStop, Activated, At, Step, host
<1>2. /\ cmd.at \notin Clearing \cup {"idle", "ok"}
      /\ cmd.back \in BOOLEAN /\ cmd.clean \in BOOLEAN /\ cmd.again \in BOOLEAN
      /\ cmd.at = "syncstop" => cmd.back
  BY <1>1 DEF Clearing, Starting, Stopping, LaunchInv, LaunchShape, CommandInv, Undoing
<1>3. Quiet
  BY <1>1, StillQuiet DEF LaunchInv, LaunchShape
<1>4. PICK l :
        /\ IsCmd(cmd') /\ cmd'.op = cmd.op /\ cmd'.at = l /\ cmd'.back \in BOOLEAN /\ (cmd'.back <=> cmd.back)
        /\ cmd'.clean = cmd.clean /\ cmd'.again \in BOOLEAN /\ cmd'.loaded = cmd.loaded
        /\ \/ l \in {"fail", "commit"}
           \/ l = "start" /\ StartReturns(cmd'.ok, cmd'.no)
           \/ l = "stop" /\ StopReturns(cmd'.ok, cmd'.no, cmd'.back)
  <2>1. CASE Goto("fail") \/ Goto("commit")
    BY <1>2, <2>1, GotoMoves DEF LaunchInv, Kept, Undoing
  <2>2. CASE \E ok, no : Call("start", ok, no) /\ StartReturns(ok, no)
    BY <1>2, <2>2, CallMoves DEF LaunchInv, Kept
  <2>3. CASE \E ok, no : Call("stop", ok, no) /\ StopReturns(ok, no, cmd.back)
    BY <1>2, <2>3, CallMoves DEF LaunchInv, Kept
  <2>4. CASE Sync \/ Upgrade
    <3>1. CASE \E u : \E ok \in {"activate", "ensure"} : cmd' = [cmd EXCEPT !.at = "stop", !.ok = ok, !.no = "fail", !.up = u]
      <4>1. PICK u, ok : ok \in {"activate", "ensure"} /\ cmd' = [cmd EXCEPT !.at = "stop", !.ok = ok, !.no = "fail", !.up = u]
        BY <3>1
      <4>2. /\ IsCmd(cmd') /\ cmd'.op = cmd.op /\ cmd'.at = "stop" /\ cmd'.back = cmd.back /\ cmd'.clean = cmd.clean
            /\ cmd'.again = cmd.again /\ cmd'.loaded = cmd.loaded /\ cmd'.ok = ok /\ cmd'.no = "fail"
        BY <4>1 DEF LaunchInv, LaunchShape, IsCmd, Fields
      <4> QED
        BY <1>2, <4>1, <4>2 DEF StopReturns
    <3> QED
      BY <2>1, <2>4, <3>1 DEF Sync, Upgrade, Goto
  <2>5. CASE SyncInvalid
    <3>1. PICK l \in {"start", "fail"} : cmd' = [cmd EXCEPT !.at = l, !.ok = "ok", !.no = "fail", !.again = FALSE]
      BY <2>5 DEF SyncInvalid
    <3>2. /\ IsCmd(cmd') /\ cmd'.op = cmd.op /\ cmd'.at = l /\ cmd'.back = cmd.back /\ cmd'.clean = cmd.clean
          /\ cmd'.again = FALSE /\ cmd'.loaded = cmd.loaded /\ cmd'.ok = "ok" /\ cmd'.no = "fail"
      BY <3>1 DEF LaunchInv, LaunchShape, IsCmd, Fields
    <3> QED
      BY <1>2, <3>1, <3>2 DEF StartReturns
  <2>6. CASE Restart
    BY <2>1, <2>3, <2>6 DEF Restart, StopReturns
  <2>7. CASE Restarting
    BY <2>2, <2>7 DEF Restarting, StartReturns
  <2>8. CASE SyncStop
    BY <1>2, <2>3, <2>8 DEF SyncStop, At, StopReturns
  <2>9. CASE Activated
    <3>1. CASE Goto("commit")
      BY <2>1, <3>1
    <3>2. CASE \E no \in {"syncstop", "unload"} : Call("start", "commit", no)
      BY <2>2, <3>2 DEF StartReturns
    <3> QED
      BY <2>9, <3>1, <3>2 DEF Activated
  <2> QED
    BY <2>4, <2>5, <2>6, <2>7, <2>8, <2>9
<1>5. l \notin Undoing
  BY <1>4 DEF Undoing
<1> QED
  BY <1>1, <1>2, <1>3, <1>4, <1>5, OwnInv

LEMMA GiveUpInv ==
    ASSUME LaunchInv, GiveUp \/ CommitFails
    PROVE  LaunchInv'
<1>1. cmd.at \in {"giveup", "commit"} /\ UNCHANGED <<file, account, launchd, last, torn>>
  BY DEF GiveUp, CommitFails, At, Step, host
<1>2. cmd.at \notin Clearing \cup {"idle", "ok"} /\ (cmd.at = "giveup" => torn)
  BY <1>1 DEF Clearing, Starting, Stopping, LaunchInv, CommandInv
<1>3. Quiet
  BY <1>1, StillQuiet DEF LaunchInv, LaunchShape
<1>4. PICK l \in {"undo", "unstore", "fail"} :
        /\ l = "undo" => cmd.at = "giveup"
        /\ \/ cmd' = [To(l) EXCEPT !.up = FALSE]
           \/ cmd' = [To(l) EXCEPT !.clean = FALSE, !.res = "untidy"]
  BY DEF GiveUp, CommitFails, At
<1>5. PICK c : c = To(l)
  OBVIOUS
<1>6. /\ IsCmd(c) /\ c.at = l /\ (c.back <=> cmd.back \/ l \in Undoing) /\ c.back \in BOOLEAN
      /\ c.op = cmd.op /\ c.again = cmd.again /\ c.loaded = cmd.loaded /\ c.clean = cmd.clean
  BY <1>5, ToFields DEF LaunchInv
<1>7. cmd.again \in BOOLEAN /\ cmd.clean \in BOOLEAN
  BY DEF LaunchInv, LaunchShape
<1>8. /\ IsCmd(cmd') /\ cmd'.at = l /\ (cmd'.back <=> cmd.back \/ l \in Undoing) /\ cmd'.back \in BOOLEAN
      /\ cmd'.op = cmd.op /\ cmd'.again \in BOOLEAN /\ cmd'.loaded = cmd.loaded
      /\ cmd'.clean \in BOOLEAN /\ (cmd'.clean => cmd.clean)
  <2>1. CASE cmd' = [c EXCEPT !.up = FALSE]
    BY <1>6, <1>7, <2>1 DEF IsCmd, Fields
  <2>2. CASE cmd' = [c EXCEPT !.clean = FALSE, !.res = "untidy"]
    BY <1>6, <1>7, <2>2 DEF IsCmd, Fields
  <2> QED
    BY <1>4, <1>5, <2>1, <2>2
<1> QED
  BY <1>1, <1>2, <1>3, <1>4, <1>8, OwnInv

----------------------------------------------------------------------------
(* Files *)

\* Files change only while nothing is loaded, or, in a roll-back, while the job leaves.
LEMMA FilesInv ==
    ASSUME LaunchInv, UNCHANGED <<account, job, enabled, svc, last, torn>>,
           cmd.at \notin Clearing \cup {"idle", "ok"}, torn \/ job.st # "in",
           file' = [x \in {"binary", "config", "plist", "mappings"} |-> file'[x]],
           IsCmd(cmd'), cmd'.op = cmd.op, cmd'.again = cmd.again, cmd'.loaded = cmd.loaded,
           cmd'.clean = cmd.clean, cmd'.back \in BOOLEAN, cmd.back \/ cmd'.at \in Undoing => cmd'.back,
           \/ cmd'.at \in {"undo", "unload", "restore", "unstore"}
           \/ cmd'.at \in {"activate", "place"} /\ job.st = "out"
    PROVE  LaunchInv'
<1>1. cmd.op \notin {"stop", "none"}
  BY DEF LaunchInv, StopInv, CommandInv, Clearing
<1>2. LaunchShape'
  BY DEF LaunchInv, LaunchShape
<1>3. ProcessInv'
  BY DEF LaunchInv, ProcessInv
<1>4. CommandInv'
  BY <1>1 DEF CommandInv, Starting, Stopping, Down, Undoing
<1>5. StopInv'
  BY <1>1 DEF StopInv
<1>6. UninstallInv'
  BY NotClearing
<1> QED
  BY <1>2, <1>3, <1>4, <1>5, <1>6 DEF LaunchInv

LEMMA ActivateInv ==
    ASSUME LaunchInv, Backup \/ Place
    PROVE  LaunchInv'
<1>1. /\ cmd.at \in {"activate", "place"} /\ UNCHANGED <<account, job, enabled, svc, last, torn>>
  BY DEF Backup, Place, At, Step, launchd
<1>2. cmd.at \notin Clearing \cup {"idle", "ok"} /\ job.st = "out" /\ cmd.back \in BOOLEAN
  BY <1>1 DEF Clearing, Starting, Stopping, LaunchInv, LaunchShape, CommandInv, Down
<1>3. file' = [x \in {"binary", "config", "plist", "mappings"} |-> file'[x]]
  BY DEF Backup, Place, LaunchInv, LaunchShape
<1>4. /\ IsCmd(cmd') /\ cmd'.op = cmd.op /\ cmd'.again = cmd.again /\ cmd'.loaded = cmd.loaded
      /\ cmd'.clean = cmd.clean /\ cmd'.back \in BOOLEAN /\ (cmd.back \/ cmd'.at \in Undoing => cmd'.back)
      /\ cmd'.at \in {"undo", "unload", "restore", "activate", "place"}
  <2>1. CASE Goto(FailedActivation)
    BY <2>1, GotoMoves, FailureTargets DEF LaunchInv, Kept
  <2>2. ASSUME NEW l \in {"activate", "place"}, IsCmd(cmd'), cmd'.op = cmd.op, cmd'.again = cmd.again,
               cmd'.loaded = cmd.loaded, cmd'.clean = cmd.clean, cmd'.back = cmd.back, cmd'.at = l
        PROVE  /\ cmd'.back \in BOOLEAN /\ (cmd.back \/ cmd'.at \in Undoing => cmd'.back)
               /\ cmd'.at \in {"undo", "unload", "restore", "activate", "place"}
    BY <1>2, <2>2 DEF Undoing
  <2>3. CASE \E h : cmd' = [cmd EXCEPT !.at = "place", !.held = h]
    <3>1. PICK h : cmd' = [cmd EXCEPT !.at = "place", !.held = h]
      BY <2>3
    <3>2. /\ IsCmd(cmd') /\ cmd'.op = cmd.op /\ cmd'.again = cmd.again /\ cmd'.loaded = cmd.loaded
          /\ cmd'.clean = cmd.clean /\ cmd'.back = cmd.back /\ cmd'.at = "place"
      BY <3>1 DEF LaunchInv, LaunchShape, IsCmd, Fields
    <3> QED
      BY <2>2, <3>2
  <2>4. CASE \E t, d : cmd' = [cmd EXCEPT !.at = "activate", !.todo = t, !.held = Absent, !.done = d]
    <3>1. PICK t, d : cmd' = [cmd EXCEPT !.at = "activate", !.todo = t, !.held = Absent, !.done = d]
      BY <2>4
    <3>2. /\ IsCmd(cmd') /\ cmd'.op = cmd.op /\ cmd'.again = cmd.again /\ cmd'.loaded = cmd.loaded
          /\ cmd'.clean = cmd.clean /\ cmd'.back = cmd.back /\ cmd'.at = "activate"
      BY <3>1 DEF LaunchInv, LaunchShape, IsCmd, Fields
    <3> QED
      BY <2>2, <3>2
  <2> QED
    BY <2>1, <2>3, <2>4 DEF Backup, Place
<1> QED
  BY <1>1, <1>2, <1>3, <1>4, FilesInv

LEMMA UndoInv ==
    ASSUME LaunchInv, Undo
    PROVE  LaunchInv'
<1>1. cmd.at = "undo" /\ UNCHANGED <<account, job, enabled, svc, last, torn>>
  BY DEF Undo, At, Step, launchd
<1>2. /\ cmd.at \notin Clearing \cup {"idle", "ok"} /\ (torn \/ job.st # "in") /\ cmd.back = TRUE
  BY <1>1 DEF Clearing, Starting, Stopping, LaunchInv, LaunchShape, CommandInv, Undoing
<1>3. file' = [x \in {"binary", "config", "plist", "mappings"} |-> file'[x]]
  BY DEF Undo, LaunchInv, LaunchShape
<1>4. /\ IsCmd(cmd') /\ cmd'.op = cmd.op /\ cmd'.again = cmd.again /\ cmd'.loaded = cmd.loaded
      /\ cmd'.clean = cmd.clean /\ cmd'.back = TRUE /\ cmd'.at \in {"undo", "unstore"}
  <2>1. CASE Goto("unstore")
    BY <1>2, <2>1, GotoMoves DEF LaunchInv, Kept
  <2>2. CASE \E d : cmd' = [cmd EXCEPT !.done = d]
    BY <1>1, <1>2, <2>2 DEF LaunchInv, LaunchShape, IsCmd, Fields
  <2> QED
    BY <2>1, <2>2 DEF Undo
<1> QED
  BY <1>1, <1>2, <1>3, <1>4, FilesInv

----------------------------------------------------------------------------
(* Uninstall, and the restart it shares with the other roll-backs *)

LEMMA RestoreInv ==
    ASSUME LaunchInv, Restore
    PROVE  LaunchInv'
<1>1. cmd.at = "restore" /\ UNCHANGED <<file, account, launchd, last, torn>>
  BY DEF Restore, At, Step, host
<1>2. Quiet /\ cmd.op # "stop" /\ torn' \in BOOLEAN
  BY <1>1, StillQuiet DEF LaunchInv, LaunchShape, StopInv, Stopping
<1>3. CASE Goto("fail")
  <2>1. Kept /\ cmd'.at = "fail" /\ cmd'.clean = cmd.clean
    BY <1>3, GotoMoves DEF LaunchInv
  <2>2. UninstallInv'
    BY <1>1, <2>1 DEF LaunchInv, UninstallInv, Kept, Starting, Stopping
  <2>3. Legal("fail")
    BY <1>2 DEF Legal, Starting, Stopping, Down
  <2> QED
    BY <1>1, <1>2, <1>3, <2>2, <2>3, GotoInv DEF Reaches
<1>4. CASE Call("start", "fail", "fail")
  <2>1. /\ Kept /\ cmd'.at = "start" /\ cmd'.ok = "fail" /\ cmd'.no = "fail"
        /\ cmd'.back = cmd.back /\ cmd'.clean = cmd.clean
    BY <1>4, CallMoves DEF LaunchInv
  <2>2. UninstallInv'
    BY <1>1, <2>1 DEF LaunchInv, UninstallInv, Kept, Starting, Stopping
  <2>3. Moves("start")
    BY <1>1, <1>2, <2>1 DEF Moves, Kept, LaunchInv, LaunchShape, Undoing
  <2>4. Legal("start")
    BY <1>2, <2>1 DEF Legal, StartReturns, Starting, Stopping, Down
  <2> QED
    BY <1>1, <1>2, <2>2, <2>3, <2>4, MoveInv
<1> QED
  BY <1>3, <1>4 DEF Restore

LEMMA UninstallBeginInv ==
    ASSUME LaunchInv, Uninstall
    PROVE  LaunchInv'
<1>1. cmd.at = "uninstall" /\ UNCHANGED <<file, account, launchd, last, torn>>
  BY DEF Uninstall, At, Step, host
<1>2. Quiet /\ cmd.op # "stop" /\ torn' \in BOOLEAN
  BY <1>1, StillQuiet DEF LaunchInv, LaunchShape, StopInv, Stopping
<1>3. PICK u, h : cmd' = [cmd EXCEPT !.at = "stop", !.ok = "examine", !.no = "fail", !.up = u, !.hasty = h]
  BY DEF Uninstall
<1>4. /\ Kept /\ cmd'.at = "stop" /\ cmd'.ok = "examine" /\ cmd'.no = "fail"
      /\ cmd'.back = cmd.back /\ cmd'.clean = cmd.clean
  BY <1>3 DEF LaunchInv, LaunchShape, IsCmd, Fields, Kept
<1>5. UninstallInv'
  BY <1>1, <1>4 DEF LaunchInv, UninstallInv, Kept, Starting, Stopping, Doomed
<1>6. Moves("stop")
  BY <1>1, <1>2, <1>4 DEF Moves, Kept, LaunchInv, LaunchShape, Undoing
<1>7. Legal("stop")
  BY <1>2, <1>4 DEF Legal, StopReturns, Starting, Stopping, Down
<1> QED
  BY <1>1, <1>2, <1>5, <1>6, <1>7, MoveInv

LEMMA UninstallExamineInv ==
    ASSUME LaunchInv, UninstallExamine
    PROVE  LaunchInv'
<1>1. cmd.at = "examine" /\ svc' = Recovered /\ UNCHANGED <<file, account, job, enabled, last, torn>>
  BY DEF UninstallExamine, At, Step, host
<1>2. job.st = "out" /\ cmd.op # "stop" /\ torn' \in BOOLEAN
  BY <1>1 DEF LaunchInv, LaunchShape, CommandInv, StopInv, Down, Stopping
<1>3. Quiet /\ ~svc.alive /\ svc' = Dead("")
  BY <1>1, <1>2, RecoverQuiet
<1>4. \/ Goto("restore") /\ cmd.op = "purge" /\ account # WholeAccount
      \/ Goto("remove")
  BY <1>3 DEF UninstallExamine
<1>5. PICK l \in {"restore", "remove"} :
        /\ Goto(l) /\ (l = "restore" => cmd.op = "purge" /\ account # WholeAccount)
  BY <1>4
<1>6. Kept /\ cmd'.at = l /\ cmd'.clean = cmd.clean
  BY <1>5, GotoMoves DEF LaunchInv
<1>7. UninstallInv'
  BY <1>1, <1>3, <1>5, <1>6 DEF LaunchInv, UninstallInv, Kept, Starting, Stopping, Doomed, Removing
<1>8. Legal(l)
  BY <1>2 DEF Legal, Starting, Stopping, Down
<1> QED
  BY <1>1, <1>2, <1>3, <1>5, <1>7, <1>8, GotoInv DEF Reaches

\* What is left to remove, and its next file
LEMMA Queues ==
    /\ Head(<<"plist", "binary", "config", "mappings">>) = "plist"
    /\ Tail(<<"plist", "binary", "config", "mappings">>) = <<"binary", "config", "mappings">>
    /\ Head(<<"plist", "binary">>) = "plist" /\ Tail(<<"plist", "binary">>) = <<"binary">>
    /\ Head(<<"binary", "config", "mappings">>) = "binary"
    /\ Tail(<<"binary", "config", "mappings">>) = <<"config", "mappings">>
    /\ Head(<<"binary">>) = "binary" /\ Tail(<<"binary">>) = <<>>
    /\ Head(<<"config", "mappings">>) = "config" /\ Tail(<<"config", "mappings">>) = <<"mappings">>
    /\ Head(<<"mappings">>) = "mappings" /\ Tail(<<"mappings">>) = <<>>
OBVIOUS

LEMMA RemoveInv ==
    ASSUME LaunchInv, Remove
    PROVE  LaunchInv'
<1>1. cmd.at = "remove" /\ UNCHANGED <<account, job, enabled, svc, last, torn>>
  BY DEF Remove, At, Step, launchd
<1>2. job.st = "out" /\ cmd.op \notin {"stop", "none"}
  BY <1>1 DEF LaunchInv, CommandInv, StopInv, Down, Stopping
<1>3. cmd.todo # <<>> /\ file' = [file EXCEPT ![Head(cmd.todo)] = Absent]
  BY DEF Remove
<1>4. PICK d : cmd' = [cmd EXCEPT !.todo = Tail(@), !.done = d]
  BY DEF Remove
<1>5. /\ IsCmd(cmd') /\ cmd'.at = "remove" /\ cmd'.op = cmd.op /\ cmd'.again = cmd.again /\ cmd'.res = cmd.res
      /\ cmd'.loaded = cmd.loaded /\ cmd'.clean = cmd.clean /\ cmd'.back = cmd.back /\ cmd'.todo = Tail(cmd.todo)
  BY <1>1, <1>4 DEF LaunchInv, LaunchShape, IsCmd, Fields
<1>6. LaunchShape'
  BY <1>1, <1>3, <1>5 DEF LaunchInv, LaunchShape
<1>7. ProcessInv'
  BY <1>1, <1>2 DEF LaunchInv, ProcessInv
<1>8. CommandInv'
  BY <1>1, <1>2, <1>5 DEF CommandInv, Starting, Stopping, Undoing
<1>9. StopInv'
  BY <1>2, <1>5 DEF StopInv
<1>10. UninstallInv'
  <2> SUFFICES ASSUME cmd.op \in {"uninstall", "purge"}, cmd.clean
               PROVE  UninstallInv'
    BY <1>5 DEF UninstallInv
  <2>1. cmd.res = "failed" /\ ~cmd.again /\ svc = Dead("") /\ Removing
    BY <1>1 DEF LaunchInv, UninstallInv
  <2>2. file = [x \in {"binary", "config", "plist", "mappings"} |-> file[x]]
    BY DEF LaunchInv, LaunchShape
  <2>3. Removing'
    <3>1. CASE cmd.op = "purge"
      BY <1>3, <1>5, <2>1, <2>2, <3>1, Queues DEF Removing, Doomed
    <3>2. CASE cmd.op = "uninstall"
      BY <1>3, <1>5, <2>1, <2>2, <3>2, Queues DEF Removing, Doomed
    <3> QED
      BY <3>1, <3>2
  <2> QED
    BY <1>1, <1>5, <2>1, <2>3 DEF UninstallInv, Starting, Stopping
<1> QED
  BY <1>6, <1>7, <1>8, <1>9, <1>10 DEF LaunchInv

LEMMA PurgeInv ==
    ASSUME LaunchInv, Removed \/ PurgeUser \/ PurgeGroup
    PROVE  LaunchInv'
<1>1. cmd.at \in {"remove", "deluser", "delgroup"} /\ UNCHANGED <<file, launchd, last, torn>>
  BY DEF Removed, PurgeUser, PurgeGroup, At, Step, host
<1>2. /\ account' \in [user : BOOLEAN, group : BOOLEAN]
      /\ cmd.at = "deluser" => ~account'.user
      /\ cmd.at = "delgroup" => account'.user = account.user /\ ~account'.group
      /\ cmd.at = "remove" => account' = account
  BY DEF Removed, PurgeUser, PurgeGroup, At, LaunchInv, LaunchShape, host
<1>3. Quiet /\ svc' = svc /\ file' = file
  BY <1>1, <1>2, StillQuiet DEF launchd
<1>4. PICK l \in {"deluser", "delgroup", "clear"} :
        /\ Goto(l)
        /\ cmd.at = "remove" => cmd.todo = <<>> /\ l = IF cmd.op = "purge" THEN "deluser" ELSE "clear"
        /\ cmd.at = "deluser" => l = "delgroup"
        /\ cmd.at = "delgroup" => l = "clear"
  BY DEF Removed, PurgeUser, PurgeGroup, At
<1>5. job.st = "out" /\ cmd.op \notin {"stop", "none"} /\ torn' \in BOOLEAN
  BY <1>1 DEF LaunchInv, LaunchShape, CommandInv, StopInv, Down, Stopping
<1>6. Kept /\ cmd'.at = l /\ cmd'.clean = cmd.clean
  BY <1>4, GotoMoves DEF LaunchInv
<1>7. Legal(l)
  BY <1>4, <1>5 DEF Legal, Starting, Stopping, Down
<1>8. UninstallInv'
  <2> SUFFICES ASSUME cmd.op \in {"uninstall", "purge"}, cmd.clean
               PROVE  UninstallInv'
    BY <1>6 DEF UninstallInv, Kept
  <2>1. cmd.res = "failed" /\ ~cmd.again /\ svc = Dead("")
    BY <1>1 DEF LaunchInv, UninstallInv
  <2>2. /\ file.plist = Absent /\ file.binary = Absent /\ (cmd.op = "purge" => file.config = Absent)
    <3>1. CASE cmd.at = "remove"
      <4>1. Removing /\ cmd.todo = <<>>
        BY <1>4, <3>1 DEF LaunchInv, UninstallInv
      <4>2. cmd.todo # Doomed
        BY <4>1 DEF Doomed
      <4> QED
        BY <4>1, <4>2 DEF Removing
    <3>2. CASE cmd.at # "remove"
      BY <1>1, <3>2 DEF LaunchInv, UninstallInv
    <3> QED
      BY <3>1, <3>2
  <2>3. /\ cmd'.at \in {"deluser", "delgroup"} => cmd.op = "purge"
        /\ cmd'.at = "delgroup" => ~account'.user
    BY <1>1, <1>2, <1>4, <1>6 DEF LaunchInv, UninstallInv
  <2>4. cmd'.at = "clear" /\ cmd.op = "purge" => account' = NoAccount
    <3>1. cmd'.at = "clear" /\ cmd.op = "purge" => cmd.at = "delgroup" /\ ~account.user
      BY <1>1, <1>4, <1>6 DEF LaunchInv, UninstallInv
    <3> QED
      BY <1>2, <3>1 DEF NoAccount
  <2> QED
    BY <1>3, <1>4, <1>6, <2>1, <2>2, <2>3, <2>4 DEF UninstallInv, Kept, Starting, Stopping
<1> QED
  BY <1>1, <1>3, <1>4, <1>5, <1>7, <1>8, GotoInv DEF Reaches

LEMMA ClearFailsInv ==
    ASSUME LaunchInv, ClearFails
    PROVE  LaunchInv'
<1>1. cmd.at = "clear" /\ UNCHANGED <<file, account, launchd, last, torn>>
  BY DEF ClearFails, At, host
<1>2. Quiet /\ cmd.op \notin {"stop", "none"} /\ torn' \in BOOLEAN /\ job.st = "out"
  BY <1>1, StillQuiet DEF LaunchInv, LaunchShape, StopInv, CommandInv, Stopping, Down
<1>3. /\ IsCmd(cmd') /\ cmd'.at = "clear" /\ cmd'.op = cmd.op /\ cmd'.again = cmd.again
      /\ cmd'.loaded = cmd.loaded /\ cmd'.clean = FALSE /\ cmd'.back = cmd.back
  BY <1>1 DEF ClearFails, LaunchInv, LaunchShape, IsCmd, Fields
<1>4. Moves("clear")
  BY <1>1, <1>2, <1>3 DEF Moves, LaunchInv, LaunchShape, Undoing
<1>5. Legal("clear")
  BY <1>2 DEF Legal, Starting, Stopping
<1>6. UninstallInv'
  BY <1>3 DEF UninstallInv
<1> QED
  BY <1>1, <1>2, <1>4, <1>5, <1>6, MoveInv

----------------------------------------------------------------------------
(* The end of a command *)

LEMMA EndInv ==
    ASSUME LaunchInv, NEW res, NEW kept, Report(res, kept), UNCHANGED <<file, account, launchd>>,
           cmd.op = "stop" /\ res = "ok" => cmd.at = "ok"
    PROVE  LaunchInv'
<1>1. /\ cmd' = Idle
      /\ last' = [op |-> cmd.op, res |-> res, clean |-> cmd.clean, loaded |-> cmd.loaded, left |-> kept]
      /\ UNCHANGED <<file, account, job, enabled, svc, torn>>
  BY DEF Report, launchd
<1>2. LaunchShape'
  BY <1>1, IdleFields DEF LaunchInv, LaunchShape
<1>3. ProcessInv'
  BY <1>1 DEF LaunchInv, ProcessInv
<1>4. CommandInv'
  BY <1>1, IdleFields DEF CommandInv, Starting, Stopping, Down, Undoing
<1>5. StopInv'
  BY <1>1, IdleFields DEF LaunchInv, StopInv
<1>6. UninstallInv'
  BY <1>1, IdleFields DEF UninstallInv
<1> QED
  BY <1>2, <1>3, <1>4, <1>5, <1>6 DEF LaunchInv

LEMMA ClosingInv ==
    ASSUME LaunchInv, Succeed \/ Clear
    PROVE  LaunchInv'
<1>1. PICK res, kept : Report(res, kept) /\ (cmd.at = "ok" \/ cmd.at = "clear")
  BY DEF Succeed, Clear, At, End
<1>2. UNCHANGED <<file, account, launchd>>
  BY DEF Succeed, Clear, host
<1>3. cmd.op = "stop" => cmd.at = "ok"
  BY <1>1 DEF LaunchInv, StopInv, Stopping
<1> QED
  BY <1>1, <1>2, <1>3, EndInv

LEMMA CommitInv ==
    ASSUME LaunchInv, Commit
    PROVE  LaunchInv'
<1>1. cmd.at = "commit" /\ UNCHANGED <<file, account, launchd>>
  BY DEF Commit, At, host
<1>2. CASE End("ok")
  BY <1>1, <1>2, EndInv DEF End, LaunchInv, StopInv, Stopping
<1>3. CASE cmd' = [cmd EXCEPT !.at = "start", !.ok = "ok", !.no = "fail", !.res = "untidy"] /\ Step
  <2>1. UNCHANGED <<last, torn>>
    BY <1>3 DEF Step
  <2>2. Quiet /\ cmd.at \notin Clearing \cup {"idle", "ok"}
    BY <1>1, <2>1, StillQuiet DEF LaunchInv, LaunchShape, Clearing, Starting, Stopping
  <2>3. /\ IsCmd(cmd') /\ cmd'.at = "start" /\ cmd'.op = cmd.op /\ cmd'.again = cmd.again
        /\ cmd'.loaded = cmd.loaded /\ cmd'.clean = cmd.clean /\ cmd'.back = cmd.back
        /\ StartReturns(cmd'.ok, cmd'.no)
    BY <1>3 DEF LaunchInv, LaunchShape, IsCmd, Fields, StartReturns
  <2>4. cmd.back \in BOOLEAN /\ cmd.clean \in BOOLEAN /\ cmd.again \in BOOLEAN /\ "start" \notin Undoing
    BY DEF LaunchInv, LaunchShape, Undoing
  <2> QED
    BY <2>1, <2>2, <2>3, <2>4, OwnInv
<1> QED
  BY <1>2, <1>3 DEF Commit

LEMMA FailInv ==
    ASSUME LaunchInv, Fail
    PROVE  LaunchInv'
<1>1. cmd.at = "fail" /\ UNCHANGED <<file, account, launchd>>
  BY DEF Fail, At, host
<1>2. CASE End(cmd.res)
  <2>1. ~(cmd.op = "stop" /\ cmd.res = "ok")
    BY DEF LaunchInv, StopInv
  <2> QED
    BY <1>1, <1>2, <2>1, EndInv DEF End
<1>3. CASE /\ cmd' = [Idle EXCEPT !.op = "start", !.at = "sync", !.todo = <<"config">>,
                                  !.ver = cmd.was.config, !.was = cmd.was, !.clean = cmd.clean,
                                  !.res = cmd.res]
           /\ Step
  <2>1. UNCHANGED <<file, account, job, enabled, svc, last, torn>>
    BY <1>1, <1>3 DEF Step, launchd
  <2>2. PICK v, w, c, r : /\ c = cmd.clean
                          /\ cmd' = [Idle EXCEPT !.op = "start", !.at = "sync", !.todo = <<"config">>,
                                                 !.ver = v, !.was = w, !.clean = c, !.res = r]
    BY <1>3
  <2>3. /\ IsCmd(cmd') /\ cmd'.op = "start" /\ cmd'.at = "sync" /\ cmd'.back = FALSE /\ cmd'.clean = cmd.clean
        /\ cmd'.loaded = FALSE /\ cmd'.again = FALSE
    BY <2>2, IdleFields DEF IsCmd, Fields
  <2>4. LaunchShape'
    BY <2>1, <2>3 DEF LaunchInv, LaunchShape
  <2>5. ProcessInv'
    BY <2>1 DEF LaunchInv, ProcessInv
  <2>6. CommandInv' /\ StopInv' /\ UninstallInv'
    BY <2>3 DEF CommandInv, StopInv, UninstallInv, Starting, Stopping, Down, Undoing
  <2> QED
    BY <2>4, <2>5, <2>6 DEF LaunchInv
<1> QED
  BY <1>2, <1>3 DEF Fail

----------------------------------------------------------------------------
(* The beginning of a command *)

\* A command op may begin at label first with the locals r.
Entry(op, first, r) ==
    /\ op \in {"install", "upgrade", "start", "restart", "stop", "uninstall", "purge"}
    /\ first \in {"install", "upgrade", "sync", "restart", "stop", "uninstall"}
    /\ IsCmd(r) /\ r.back = FALSE /\ r.clean = TRUE /\ r.loaded = FALSE /\ r.again \in BOOLEAN /\ r.res = "failed"
    /\ op \in {"stop", "uninstall", "purge"} => ~r.again
    /\ first = "stop" <=> op = "stop"
    /\ op = "stop" => r.ok = "ok" /\ r.no = "fail"
    /\ op \in {"uninstall", "purge"} => first = "uninstall"
    /\ op = "uninstall" => r.todo = <<"plist", "binary">>
    /\ op = "purge" => r.todo = <<"plist", "binary", "config", "mappings">>

LEMMA BeginInv ==
    ASSUME LaunchInv, NEW op, NEW first, NEW rest, Begin(op, first, rest), Entry(op, first, rest)
    PROVE  LaunchInv'
<1>1. UNCHANGED <<file, account, job, enabled, svc, last, torn>>
  BY DEF Begin, host, launchd
<1>2. PICK v, w : cmd' = [rest EXCEPT !.op = op, !.at = first, !.ver = v, !.was = w]
  BY DEF Begin
<1>3. /\ IsCmd(cmd') /\ cmd'.op = op /\ cmd'.at = first /\ cmd'.back = FALSE /\ cmd'.clean = TRUE
      /\ cmd'.loaded = FALSE /\ cmd'.again = rest.again /\ cmd'.res = "failed" /\ cmd'.todo = rest.todo
      /\ cmd'.ok = rest.ok /\ cmd'.no = rest.no
  BY <1>2 DEF Entry, IsCmd, Fields
<1>4. LaunchShape'
  BY <1>1, <1>3 DEF Entry, LaunchInv, LaunchShape
<1>5. ProcessInv'
  BY <1>1 DEF LaunchInv, ProcessInv
<1>6. CommandInv'
  BY <1>3 DEF Entry, CommandInv, Starting, Stopping, Down, Undoing
<1>7. StopInv'
  BY <1>3 DEF Entry, StopInv, Stopping
<1>8. UninstallInv'
  BY <1>3 DEF Entry, UninstallInv, Starting, Stopping, Doomed
<1> QED
  BY <1>4, <1>5, <1>6, <1>7, <1>8 DEF LaunchInv

LEMMA BeginCommandInv ==
    ASSUME LaunchInv, BeginCommand
    PROVE  LaunchInv'
<1>1. CASE \E s, p, t : Begin("install", "install", [Idle EXCEPT !.start = s, !.plist = p, !.todo = t])
  <2>1. PICK s, p, t : Begin("install", "install", [Idle EXCEPT !.start = s, !.plist = p, !.todo = t])
    BY <1>1
  <2>2. PICK r : r = [Idle EXCEPT !.start = s, !.plist = p, !.todo = t]
    OBVIOUS
  <2>3. /\ IsCmd(r) /\ r.back = FALSE /\ r.clean = TRUE /\ r.loaded = FALSE /\ r.again = FALSE
        /\ r.res = "failed"
    BY <2>2 DEF Idle, IsCmd, Fields
  <2>4. Entry("install", "install", r)
    BY <2>3 DEF Entry
  <2>5. Begin("install", "install", r)
    BY <2>1, <2>2
  <2> QED
    BY <2>4, <2>5, BeginInv
<1>2. CASE \E p, t : Begin("upgrade", "upgrade", [Idle EXCEPT !.plist = p, !.todo = t])
  <2>1. PICK p, t : Begin("upgrade", "upgrade", [Idle EXCEPT !.plist = p, !.todo = t])
    BY <1>2
  <2>2. PICK r : r = [Idle EXCEPT !.plist = p, !.todo = t]
    OBVIOUS
  <2>3. /\ IsCmd(r) /\ r.back = FALSE /\ r.clean = TRUE /\ r.loaded = FALSE /\ r.again = FALSE
        /\ r.res = "failed"
    BY <2>2 DEF Idle, IsCmd, Fields
  <2>4. Entry("upgrade", "upgrade", r)
    BY <2>3 DEF Entry
  <2>5. Begin("upgrade", "upgrade", r)
    BY <2>1, <2>2
  <2> QED
    BY <2>4, <2>5, BeginInv
<1>3. CASE \E a \in BOOLEAN : Begin("start", "sync", [Idle EXCEPT !.again = a, !.todo = <<"config">>])
  <2>1. PICK a \in BOOLEAN : Begin("start", "sync", [Idle EXCEPT !.again = a, !.todo = <<"config">>])
    BY <1>3
  <2>2. PICK r : r = [Idle EXCEPT !.again = a, !.todo = <<"config">>]
    OBVIOUS
  <2>3. /\ IsCmd(r) /\ r.back = FALSE /\ r.clean = TRUE /\ r.loaded = FALSE /\ r.again = a
        /\ r.res = "failed"
    BY <2>2 DEF Idle, IsCmd, Fields
  <2>4. Entry("start", "sync", r)
    BY <2>3 DEF Entry
  <2>5. Begin("start", "sync", r)
    BY <2>1, <2>2
  <2> QED
    BY <2>4, <2>5, BeginInv
<1>4. CASE Begin("restart", "restart", Idle)
  <2>2. PICK r : r = Idle
    OBVIOUS
  <2>3. /\ IsCmd(r) /\ r.back = FALSE /\ r.clean = TRUE /\ r.loaded = FALSE /\ r.again = FALSE
        /\ r.res = "failed"
    BY <2>2 DEF Idle, IsCmd, Fields
  <2>4. Entry("restart", "restart", r)
    BY <2>3 DEF Entry
  <2>5. Begin("restart", "restart", r)
    BY <1>4, <2>2
  <2> QED
    BY <2>4, <2>5, BeginInv
<1>5. CASE Begin("stop", "stop", [Idle EXCEPT !.ok = "ok", !.no = "fail"])
  <2>2. PICK r : r = [Idle EXCEPT !.ok = "ok", !.no = "fail"]
    OBVIOUS
  <2>3. /\ IsCmd(r) /\ r.back = FALSE /\ r.clean = TRUE /\ r.loaded = FALSE /\ r.again = FALSE
        /\ r.res = "failed" /\ r.ok = "ok" /\ r.no = "fail"
    BY <2>2 DEF Idle, IsCmd, Fields
  <2>4. Entry("stop", "stop", r)
    BY <2>3 DEF Entry
  <2>5. Begin("stop", "stop", r)
    BY <1>5, <2>2
  <2> QED
    BY <2>4, <2>5, BeginInv
<1>6. CASE Begin("uninstall", "uninstall", [Idle EXCEPT !.todo = <<"plist", "binary">>])
  <2>2. PICK r : r = [Idle EXCEPT !.todo = <<"plist", "binary">>]
    OBVIOUS
  <2>3. /\ IsCmd(r) /\ r.back = FALSE /\ r.clean = TRUE /\ r.loaded = FALSE /\ r.again = FALSE
        /\ r.res = "failed" /\ r.todo = <<"plist", "binary">>
    BY <2>2 DEF Idle, IsCmd, Fields
  <2>4. Entry("uninstall", "uninstall", r)
    BY <2>3 DEF Entry
  <2>5. Begin("uninstall", "uninstall", r)
    BY <1>6, <2>2
  <2> QED
    BY <2>4, <2>5, BeginInv
<1>7. CASE Begin("purge", "uninstall", [Idle EXCEPT !.todo = <<"plist", "binary", "config", "mappings">>])
  <2>2. PICK r : r = [Idle EXCEPT !.todo = <<"plist", "binary", "config", "mappings">>]
    OBVIOUS
  <2>3. /\ IsCmd(r) /\ r.back = FALSE /\ r.clean = TRUE /\ r.loaded = FALSE /\ r.again = FALSE
        /\ r.res = "failed" /\ r.todo = <<"plist", "binary", "config", "mappings">>
    BY <2>2 DEF Idle, IsCmd, Fields
  <2>4. Entry("purge", "uninstall", r)
    BY <2>3 DEF Entry
  <2>5. Begin("purge", "uninstall", r)
    BY <1>7, <2>2
  <2> QED
    BY <2>4, <2>5, BeginInv
<1> QED
  BY <1>1, <1>2, <1>3, <1>4, <1>5, <1>6, <1>7 DEF BeginCommand

----------------------------------------------------------------------------
(* launchd, the service process and the host *)

LEMMA LaunchdInv ==
    ASSUME LaunchInv, Launchd
    PROVE  LaunchInv'
<1>1. UNCHANGED <<cmd, account, enabled, last, torn>>
  BY DEF Launchd, Spawn, BecomeReady, StartupFails, Exit, Gone, Step, host
<1>2. file' = file \/ file' = [file EXCEPT !.mappings = 1]
  BY DEF Launchd, Spawn, BecomeReady, StartupFails, Exit, Gone, Step, host
<1>3. /\ file' = [x \in {"binary", "config", "plist", "mappings"} |-> file'[x]]
      /\ file'.binary = file.binary /\ file'.config = file.config /\ file'.plist = file.plist
  BY <1>2 DEF LaunchInv, LaunchShape
<1>4. /\ svc' = [x \in {"alive", "phase", "runs"} |-> svc'[x]]
      /\ svc'.alive \in BOOLEAN /\ svc'.phase \in {"", "starting", "running"}
      /\ job' \in [st : {"out", "in", "leaving"}, keep : BOOLEAN, want : BOOLEAN]
      /\ job.st = "out" => job'.st = "out" /\ svc' = svc
      /\ job'.st = "in" => job.st = "in"
      /\ svc'.alive => svc'.phase # "" /\ job'.st # "out"
      /\ \/ svc'.alive => svc.alive /\ svc'.runs = svc.runs
         \/ svc'.runs = <<file.binary, file.config>>
  <2>1. CASE Spawn
    BY <2>1 DEF Spawn, LaunchInv, LaunchShape
  <2>2. CASE BecomeReady
    BY <2>2 DEF BecomeReady, LaunchInv, LaunchShape, ProcessInv
  <2>3. CASE StartupFails
    <3>1. PICK b \in BOOLEAN : b = (job.st = "in" /\ job.keep)
      OBVIOUS
    <3>2. svc.alive /\ svc' = Dead("") /\ job' = [job EXCEPT !.want = b]
      BY <2>3, <3>1 DEF StartupFails
    <3> QED
      BY <3>2 DEF Dead, LaunchInv, LaunchShape, ProcessInv
  <2>4. CASE Exit
    BY <2>4 DEF Exit, Dead, LaunchInv, LaunchShape
  <2>5. CASE Gone
    BY <2>5 DEF Gone, NoJob, LaunchInv, LaunchShape
  <2> QED
    BY <2>1, <2>2, <2>3, <2>4, <2>5 DEF Launchd
<1>5. LaunchShape'
  BY <1>1, <1>3, <1>4 DEF LaunchInv, LaunchShape
<1>6. ProcessInv'
  BY <1>1, <1>3, <1>4 DEF LaunchInv, ProcessInv
<1>7. CommandInv'
  BY <1>1, <1>4 DEF LaunchInv, CommandInv
<1>8. StopInv'
  BY <1>1, <1>4 DEF LaunchInv, StopInv
<1>9. UninstallInv'
  <2>1. cmd.at \in {"remove", "deluser", "delgroup", "clear"} => svc' = svc
    BY <1>4 DEF LaunchInv, CommandInv, Down
  <2>2. Removing => Removing'
    BY <1>1, <1>3 DEF Removing, Doomed
  <2> QED
    BY <1>1, <1>3, <2>1, <2>2 DEF LaunchInv, UninstallInv, Doomed
<1> QED
  BY <1>5, <1>6, <1>7, <1>8, <1>9 DEF LaunchInv

LEMMA CrashInv ==
    ASSUME LaunchInv, Crash
    PROVE  LaunchInv'
<1>1. /\ UNCHANGED <<file, account, enabled, last>> /\ svc.alive /\ svc' = Dead(svc.phase)
      /\ torn' = (torn \/ cmd.back)
  BY DEF Crash, host
<1>2. PICK b \in BOOLEAN : b = (job.st = "in" /\ job.keep)
  OBVIOUS
<1>3. job' = [job EXCEPT !.want = b]
  BY <1>2 DEF Crash
<1>4. /\ job' \in [st : {"out", "in", "leaving"}, keep : BOOLEAN, want : BOOLEAN] /\ job'.st = job.st
      /\ job.st # "out" /\ ~svc'.alive /\ svc' = [x \in {"alive", "phase", "runs"} |-> svc'[x]]
      /\ svc'.alive \in BOOLEAN /\ svc'.phase \in {"", "starting", "running"}
  BY <1>1, <1>3 DEF LaunchInv, LaunchShape, ProcessInv, Dead
<1>5. PICK c \in BOOLEAN : c = (cmd.op = "none")
  OBVIOUS
<1>6. cmd' = [cmd EXCEPT !.clean = c]
  BY <1>5 DEF Crash
<1>7. /\ IsCmd(cmd') /\ cmd'.at = cmd.at /\ cmd'.op = cmd.op /\ cmd'.again = cmd.again /\ cmd'.res = cmd.res
      /\ cmd'.loaded = cmd.loaded /\ cmd'.clean = c /\ cmd'.back = cmd.back /\ cmd'.todo = cmd.todo
      /\ cmd'.ok = cmd.ok /\ cmd'.no = cmd.no
  BY <1>6 DEF LaunchInv, LaunchShape, IsCmd, Fields
<1>8. torn' \in BOOLEAN /\ (torn => torn')
  BY <1>1 DEF LaunchInv, LaunchShape
<1>9. LaunchShape'
  BY <1>1, <1>4, <1>7, <1>8 DEF LaunchInv, LaunchShape
<1>10. ProcessInv'
  BY <1>4 DEF ProcessInv
<1>11. CommandInv'
  BY <1>4, <1>7, <1>8 DEF LaunchInv, CommandInv
<1>12. StopInv'
  BY <1>1, <1>4, <1>7 DEF LaunchInv, StopInv
<1>13. UninstallInv'
  BY <1>5, <1>7 DEF UninstallInv
<1> QED
  BY <1>9, <1>10, <1>11, <1>12, <1>13 DEF LaunchInv

\* A killed command leaves the host to launchd.
LEMMA KillInv ==
    ASSUME LaunchInv, Kill \/ Reboot
    PROVE  LaunchInv'
<1>1. cmd' = Idle /\ UNCHANGED <<file, account, enabled>> /\ torn' \in BOOLEAN /\ (torn => torn')
  BY DEF Kill, Reboot, host, launchd, LaunchInv, LaunchShape
<1>2. \/ last' = last /\ cmd.op = "none"
      \/ last' = [op |-> cmd.op, res |-> "killed", clean |-> FALSE, loaded |-> FALSE, left |-> FALSE]
  BY DEF Kill, Reboot
<1>3. /\ svc' = [x \in {"alive", "phase", "runs"} |-> svc'[x]]
      /\ svc'.alive \in BOOLEAN /\ svc'.phase \in {"", "starting", "running"}
      /\ job' \in [st : {"out", "in", "leaving"}, keep : BOOLEAN, want : BOOLEAN]
      /\ \/ svc' = svc /\ job' = job
         \/ ~svc'.alive /\ (~enabled => job'.st = "out")
  <2>1. CASE Kill
    BY <2>1 DEF Kill, launchd, LaunchInv, LaunchShape
  <2>2. CASE Reboot
    <3>1. PICK b \in BOOLEAN : b = (file.plist = AtBoot)
      OBVIOUS
    <3>2. /\ svc' = Dead("")
          /\ job' = IF enabled /\ file.plist # Absent THEN [st |-> "in", keep |-> b, want |-> b]
                    ELSE [st |-> "out", keep |-> FALSE, want |-> FALSE]
      BY <2>2, <3>1 DEF Reboot, JobOf, NoJob
    <3> QED
      BY <3>2 DEF Dead
  <2> QED
    BY <2>1, <2>2
<1>4. LaunchShape'
  BY <1>1, <1>3, IdleFields DEF LaunchInv, LaunchShape
<1>5. ProcessInv'
  BY <1>1, <1>3 DEF LaunchInv, ProcessInv
<1>6. CommandInv' /\ UninstallInv'
  BY <1>1, IdleFields DEF CommandInv, UninstallInv, Starting, Stopping, Down, Undoing
<1>7. StopInv'
  <2>1. cmd'.op = "none" /\ enabled' = enabled
    BY <1>1, IdleFields
  <2>2. CASE last' = last /\ cmd.op = "none"
    BY <1>3, <2>1, <2>2 DEF LaunchInv, StopInv
  <2>3. CASE last' = [op |-> cmd.op, res |-> "killed", clean |-> FALSE, loaded |-> FALSE, left |-> FALSE]
    BY <2>1, <2>3 DEF StopInv
  <2> QED
    BY <1>2, <2>2, <2>3
<1> QED
  BY <1>4, <1>5, <1>6, <1>7 DEF LaunchInv

----------------------------------------------------------------------------
(* The invariant *)

LEMMA LaunchInitInv == LaunchInit => LaunchInv
<1> SUFFICES ASSUME LaunchInit
             PROVE  LaunchInv
  OBVIOUS
<1>1. /\ cmd = Idle /\ torn = FALSE
      /\ last = [op |-> "none", res |-> "ok", clean |-> TRUE, loaded |-> FALSE, left |-> FALSE]
  BY DEF LaunchInit
<1>2. PICK i \in Inits :
        /\ file = CASE i = "bare" -> Files(Absent, Absent, Absent, Absent)
                    [] i \in {"kept", "keptroot"} -> Files(Absent, Present, Absent, 1)
                    [] i = "boot" -> Files(Present, Present, AtBoot, 1)
                    [] i = "legacy" -> Files(Legacy, Present, Manual, Absent)
                    [] OTHER -> Files(Present, Present, Manual, 1)
        /\ account = IF i \in {"bare", "legacy", "keptroot"} THEN NoAccount ELSE WholeAccount
        /\ dirs = CASE i = "bare" -> NoDirs
                    [] i \in {"legacy", "keptroot"} ->
                         [worker |-> "absent", data |-> "root", rest |-> {}]
                    [] OTHER -> [worker |-> "worker", data |-> "worker",
                                 rest |-> CASE i = "stopped" -> {"corrupt"}
                                           [] i = "manual" -> {"journal"}
                                           [] OTHER -> {}]
        /\ job = IF i \in {"manual", "boot"}
                 THEN [st |-> "in", keep |-> i = "boot", want |-> FALSE] ELSE NoJob
        /\ enabled = (i \in {"bare", "manual", "boot"})
        /\ svc = IF i \in {"manual", "boot"}
                 THEN [alive |-> TRUE, phase |-> "running", runs |-> <<Present, Present>>]
                 ELSE Dead("")
  BY DEF LaunchInit
<1>3. PICK b, c, p, m : file = Files(b, c, p, m) /\ (i \in {"manual", "boot"} => b = Present /\ c = Present)
  <2>1. CASE i = "bare"
    BY <1>2, <2>1
  <2>2. CASE i \in {"kept", "keptroot"}
    BY <1>2, <2>2
  <2>3. CASE i = "boot"
    BY <1>2, <2>3
  <2>4. CASE i = "legacy"
    BY <1>2, <2>4
  <2>5. CASE i \in {"stopped", "manual"}
    BY <1>2, <2>5
  <2> QED
    BY <2>1, <2>2, <2>3, <2>4, <2>5, LaunchAssumption
<1>4. /\ file = [x \in {"binary", "config", "plist", "mappings"} |-> file[x]]
      /\ file.binary = b /\ file.config = c
      /\ account \in [user : BOOLEAN, group : BOOLEAN] /\ enabled \in BOOLEAN
  <2>1. account = NoAccount \/ account = WholeAccount
    BY <1>2, Zenon
  <2>2. account \in [user : BOOLEAN, group : BOOLEAN]
    <3>1. NoAccount \in [user : BOOLEAN, group : BOOLEAN] /\ WholeAccount \in [user : BOOLEAN, group : BOOLEAN]
      BY DEF NoAccount, WholeAccount
    <3> QED
      BY <2>1, <3>1
  <2>3. enabled \in BOOLEAN
    <3>1. enabled = (i \in {"bare", "manual", "boot"})
      BY <1>2, Zenon
    <3>2. (i \in {"bare", "manual", "boot"}) \in BOOLEAN
      OBVIOUS
    <3> QED
      BY <3>1, <3>2, Zenon
  <2>4. /\ file = [x \in {"binary", "config", "plist", "mappings"} |-> file[x]]
        /\ file.binary = b /\ file.config = c
    BY <1>3 DEF Files
  <2> QED
    BY <2>2, <2>3, <2>4
<1>5. \/ job = NoJob /\ svc = Dead("")
      \/ /\ \E k \in BOOLEAN : job = [st |-> "in", keep |-> k, want |-> FALSE]
         /\ svc = [alive |-> TRUE, phase |-> "running", runs |-> <<Present, Present>>]
         /\ file.binary = Present /\ file.config = Present
  <2>1. CASE i \in {"manual", "boot"}
    <3>1. PICK k \in BOOLEAN : k = (i = "boot")
      OBVIOUS
    <3> QED
      BY <1>2, <1>3, <1>4, <2>1, <3>1
  <2>2. CASE i \notin {"manual", "boot"}
    BY <1>2, <2>2
  <2> QED
    BY <2>1, <2>2
<1>6. /\ job \in [st : {"out", "in", "leaving"}, keep : BOOLEAN, want : BOOLEAN]
      /\ svc = [x \in {"alive", "phase", "runs"} |-> svc[x]]
      /\ svc.alive \in BOOLEAN /\ svc.phase \in {"", "starting", "running"}
      /\ svc.alive => svc.phase # "" /\ job.st # "out" /\ svc.runs = <<file.binary, file.config>>
  <2>1. CASE job = NoJob /\ svc = Dead("")
    BY <2>1 DEF NoJob, Dead
  <2>2. CASE /\ \E k \in BOOLEAN : job = [st |-> "in", keep |-> k, want |-> FALSE]
             /\ svc = [alive |-> TRUE, phase |-> "running", runs |-> <<Present, Present>>]
             /\ file.binary = Present /\ file.config = Present
    BY <2>2
  <2> QED
    BY <1>5, <2>1, <2>2
<1>7. LaunchShape
  BY <1>1, <1>4, <1>6, IdleFields DEF LaunchShape
<1>8. ProcessInv
  BY <1>6 DEF ProcessInv
<1>9. CommandInv /\ StopInv /\ UninstallInv
  BY <1>1, IdleFields DEF CommandInv, StopInv, UninstallInv, Starting, Stopping, Down, Undoing
<1> QED
  BY <1>7, <1>8, <1>9 DEF LaunchInv

LEMMA LaunchInvStep == LaunchInv /\ [LaunchNext]_vars => LaunchInv'
<1> SUFFICES ASSUME LaunchInv, [LaunchNext]_vars
             PROVE  LaunchInv'
  OBVIOUS
<1>1. CASE BeginCommand
  BY <1>1, BeginCommandInv
<1>2. CASE CommandStep
  <2>1. CASE Refuse \/ StartFails \/ StopFails \/ PrepareFails \/ RollbackFails \/ UninstallFails \/ ClearFails
    BY <2>1, RefuseInv, StartFailsInv, StopFailsInv, PrepareFailsInv, RollbackFailsInv, UninstallFailsInv,
       ClearFailsInv
  <2>2. CASE Sync \/ SyncInvalid \/ Upgrade \/ Restart \/ Restarting \/ SyncStop \/ Activated
    BY <2>2, EnterInv
  <2>3. CASE StartEnable \/ StartBootstrap \/ StartKick \/ StartReady \/ StartHopeless
    BY <2>3, StartEnableInv, StartLoadInv, StartReadyInv
  <2>4. CASE StopDisable \/ StopBootout \/ StopUnloaded \/ StopRecover
    BY <2>4, StopDisableInv, StopBootoutInv, StopUnloadedInv, StopRecoverInv
  <2>5. CASE InstallCheck \/ EnsureGroup \/ Ungroup \/ Unstore \/ RollbackUser \/ RollbackGroup
    BY <2>5, AccountInv
  <2>6. CASE EnsureUser \/ PrepareStorage \/ GiveUp \/ CommitFails
    BY <2>6, PrepareInv, GiveUpInv
  <2>7. CASE Backup \/ Place \/ Undo \/ Unload \/ RollbackRecover \/ Restore
    BY <2>7, ActivateInv, UndoInv, UnloadInv, RollbackRecoverInv, RestoreInv
  <2>8. CASE Uninstall \/ UninstallExamine \/ Remove \/ Removed \/ PurgeUser \/ PurgeGroup
    BY <2>8, UninstallBeginInv, UninstallExamineInv, RemoveInv, PurgeInv
  <2>9. CASE Commit \/ Fail \/ Succeed \/ Clear
    BY <2>9, CommitInv, FailInv, ClosingInv
  <2> QED
    BY <1>2, <2>1, <2>2, <2>3, <2>4, <2>5, <2>6, <2>7, <2>8, <2>9 DEF CommandStep
<1>3. CASE Launchd
  BY <1>3, LaunchdInv
<1>4. CASE Crash
  BY <1>4, CrashInv
<1>5. CASE Kill \/ Reboot
  BY <1>5, KillInv
<1>6. CASE UNCHANGED vars
  <2>1. UNCHANGED <<file, account, job, enabled, svc, cmd, last, torn>>
    BY <1>6 DEF vars
  <2>2. LaunchShape'
    <3>1. IsCmd(cmd')
      BY <2>1 DEF LaunchInv, LaunchShape
    <3>2. enabled' \in BOOLEAN /\ torn' \in BOOLEAN
      BY <2>1, Zenon DEF LaunchInv, LaunchShape
    <3>3. cmd'.back \in BOOLEAN /\ cmd'.clean \in BOOLEAN /\ cmd'.loaded \in BOOLEAN /\ cmd'.again \in BOOLEAN
      BY <2>1, Zenon DEF LaunchInv, LaunchShape
    <3>4. job' \in [st : {"out", "in", "leaving"}, keep : BOOLEAN, want : BOOLEAN]
      BY <2>1, Zenon DEF LaunchInv, LaunchShape
    <3>5. svc'.alive \in BOOLEAN /\ svc'.phase \in {"", "starting", "running"}
      BY <2>1, Zenon DEF LaunchInv, LaunchShape
    <3>6. account' \in [user : BOOLEAN, group : BOOLEAN]
      BY <2>1, Zenon DEF LaunchInv, LaunchShape
    <3>7. /\ svc' = [x \in {"alive", "phase", "runs"} |-> svc'[x]]
          /\ file' = [x \in {"binary", "config", "plist", "mappings"} |-> file'[x]]
      BY <2>1 DEF LaunchInv, LaunchShape
    <3> QED
      BY <3>1, <3>2, <3>3, <3>4, <3>5, <3>6, <3>7 DEF LaunchShape
  <2>3. ProcessInv'
    BY <2>1 DEF LaunchInv, ProcessInv
  <2>4. CommandInv' /\ StopInv'
    BY <2>1 DEF LaunchInv, CommandInv, StopInv
  <2>5. UninstallInv'
    BY <2>1 DEF LaunchInv, UninstallInv, Removing, Doomed
  <2> QED
    BY <2>2, <2>3, <2>4, <2>5 DEF LaunchInv
<1> QED
  BY <1>1, <1>2, <1>3, <1>4, <1>5, <1>6 DEF LaunchNext

----------------------------------------------------------------------------
(* The transaction: what a command has changed, and what it will put back *)

Elems(s) == {s[i] : i \in DOMAIN s}
Unique(s) == \A i, j \in DOMAIN s : s[i] = s[j] => i = j

Core == {"binary", "config", "plist"}
Names == Core \cup {"mappings"}
Replacing == {"install", "upgrade", "start"}
Clearers == {"uninstall", "purge"}
HalfAccount == [user |-> FALSE, group |-> TRUE]

\* What a file may contain after so many commands
Content(a) == IF a = "plist" THEN {Absent, Manual, AtBoot} ELSE 0 .. Present + ops
Entries == {e \in [file : Names, old : Nat] : e.old \in Content(e.file)}
Owners == {"absent", "root", "worker", "stray"}
Dirs == [worker : {"absent", "worker"}, data : Owners, rest : SUBSET {"journal", "corrupt"}]
Accounts == [user : BOOLEAN, group : BOOLEAN]
InstShape(i) == i = [binary |-> i.binary, config |-> i.config, plist |-> i.plist,
                     account |-> i.account, data |-> i.data]

\* What a command notes is of an installation.
CmdTypes ==
    /\ InstShape(cmd.was) /\ \A a \in Core : cmd.was[a] \in Content(a)
    /\ cmd.was.account \in Accounts /\ cmd.was.data \in Owners
    /\ cmd.ver \in 0 .. Present + ops /\ cmd.plist \in {Absent, Manual, AtBoot}
    /\ cmd.todo \in Seq(Names) /\ cmd.done \in Seq(Entries)
    /\ cmd.at = "place" => cmd.todo # <<>> /\ cmd.held \in Content(Head(cmd.todo))
    /\ cmd.saved = <<>> \/ \E d \in Dirs : cmd.saved = <<d>>
    /\ cmd.created \in BOOLEAN /\ cmd.left \in BOOLEAN /\ cmd.res \in {"failed", "untidy"}

TxTypes ==
    /\ ops \in Nat /\ ops <= MaxOps
    /\ \A a \in Names : file[a] \in Content(a)
    /\ dirs \in Dirs
    /\ cmd.op # "none" => CmdTypes

\* Start within the transaction, after it was undone, and at the end of a command; Stop
\* before it, and to undo it
Trying == cmd.at \in Starting /\ cmd.ok = "commit"
Resuming == cmd.at \in Starting /\ cmd.ok = "fail"
Finishing == cmd.at \in Starting /\ cmd.ok = "ok"
Halting == cmd.at \in Stopping /\ cmd.ok # "undo"
Retreating == cmd.at \in Stopping /\ cmd.ok = "undo"

\* Which command is where
TxOps ==
    /\ cmd.op \in Replacing \cup Clearers \cup {"stop", "restart"}
    /\ cmd.again => cmd.op = "start"
    /\ cmd.at = "install" => cmd.op = "install"
    /\ cmd.at = "upgrade" => cmd.op = "upgrade"
    /\ cmd.at \in {"sync", "syncstop"} \/ Retreating => cmd.op = "start"
    /\ cmd.at \in Starting /\ cmd.no = "syncstop" => cmd.op = "start"
    /\ cmd.at \in {"restart", "restarting"} => cmd.op = "restart"
    /\ cmd.at \in {"ensure", "user", "ungroup", "storage"} => cmd.op \in {"install", "upgrade"}
    /\ cmd.at \in {"activate", "place", "commit"} \/ Trying => cmd.op \in Replacing
    /\ cmd.at \in {"uninstall", "examine", "remove", "deluser", "delgroup", "clear"} => cmd.op \in Clearers
    /\ cmd.at \in {"deluser", "delgroup"} => cmd.op = "purge"
    /\ cmd.at = "ok" \/ Finishing => cmd.op \in {"stop", "restart", "start"}
    /\ cmd.at \in Stopping =>
         /\ cmd.ok = "ok" => cmd.op = "stop"
         /\ cmd.ok = "activate" => cmd.op = "start"
         /\ cmd.ok = "restarting" => cmd.op = "restart"
         /\ cmd.ok = "ensure" => cmd.op = "upgrade"
         /\ cmd.ok = "examine" => cmd.op \in Clearers
    /\ cmd.res = "untidy" =>
         \/ cmd.op = "start"
         \/ cmd.op \in Clearers /\ cmd.at = "clear"
         \/ cmd.op = "upgrade" /\ cmd.at = "fail"

\* The files a command may touch, those it has to replace and those it has to remove
Scope == CASE cmd.op \in {"install", "upgrade"} -> Core
           [] cmd.op = "start" -> {"config"}
           [] cmd.op = "uninstall" -> {"plist", "binary"}
           [] cmd.op = "purge" -> Names
           [] OTHER -> {}
Targets == CASE cmd.op = "install" -> Core
             [] cmd.op = "upgrade" -> {"binary", "plist"}
             [] OTHER -> {"config"}
Victims == IF cmd.op = "purge" THEN Core ELSE {"binary", "plist"}

\* Files with an entry in `done`, and the one between its backup and its replacement
Touched == {e.file : e \in Elems(cmd.done)}
Handled == IF cmd.at = "place" THEN {Head(cmd.todo)} ELSE {}

\* Whether v is what file a was.  A second attempt of `service start` may find the
\* configuration that the first one committed.
Base(a, v) == IF a = "config" /\ cmd.op = "start" /\ cmd.res = "untidy" THEN v # Absent ELSE v = cmd.was[a]

\* Every file with an entry in `done` has its new contents there and its old ones in the
\* entry; the rest are as they were.
TxFiles ==
    /\ Unique(cmd.todo) /\ Elems(cmd.todo) \cap Touched = {}
    /\ Elems(cmd.todo) \subseteq Scope /\ Touched \subseteq Scope
    /\ \A e \in Elems(cmd.done) :
         /\ e.file \in Core => Base(e.file, e.old)
         /\ cmd.op \in Replacing /\ cmd.at # "undo" => file[e.file] = New(e.file)
         /\ cmd.op = "install" /\ e.file # "config" => e.old = Absent
    /\ \A a \in Core \ (Touched \cup Handled) : Base(a, file[a])
    /\ cmd.at = "place" =>
         /\ Base(Head(cmd.todo), cmd.held)
         /\ cmd.op = "install" /\ Head(cmd.todo) # "config" => cmd.held = Absent

\* How far the files are
NothingDone ==
    \/ cmd.at \in {"install", "upgrade", "sync", "restart", "restarting", "uninstall", "ensure", "user",
                   "ungroup", "storage", "examine", "unstore", "purge", "degroup", "restore"}
    \/ Halting \/ Resuming
    \/ cmd.res = "failed" /\ (cmd.at \in {"fail", "ok"} \/ Finishing)

TxProgress ==
    /\ NothingDone => cmd.done = <<>>
    /\ cmd.op \in Replacing =>
         /\ \/ cmd.at \in {"install", "upgrade", "sync", "ensure", "user", "storage", "activate", "place", "commit"}
            \/ Halting \/ Trying
            => Targets \subseteq Elems(cmd.todo) \cup Touched
         /\ cmd.at = "commit" \/ Trying => cmd.todo = <<>>
         /\ cmd.op = "upgrade" /\ cmd.res = "untidy" => Targets \subseteq Touched
    /\ cmd.op \in Clearers =>
         /\ cmd.at \in {"uninstall", "examine", "remove", "deluser", "delgroup", "clear"} \/ Halting
            => \A a \in Victims \ Elems(cmd.todo) : file[a] = Absent
         /\ cmd.at \in {"deluser", "delgroup", "clear"} => cmd.todo = <<>>

\* What was there for the command to begin with
TxBefore ==
    /\ cmd.op = "install" => cmd.ver \notin {Absent, Legacy} /\ cmd.plist # Absent
    /\ cmd.was.account = NoAccount => cmd.was.data # "worker"
    /\ cmd.op = "upgrade" =>
         /\ cmd.was.binary < cmd.ver /\ cmd.plist \in {Manual, AtBoot, cmd.was.plist}
         /\ cmd.at \notin {"upgrade", "fail"} \/ cmd.res = "untidy"
              => Absent \notin {cmd.was.binary, cmd.was.config, cmd.was.plist}
    /\ cmd.op = "start" =>
         /\ cmd.ver # Absent \/ cmd.ver = cmd.was.config
         /\ \/ cmd.res = "untidy"
            \/ cmd.at \notin {"sync", "fail"} /\ ~(cmd.at = "start" /\ cmd.ok = "ok")
            => cmd.was.config # Absent

\* Whatever was changed is as it was again.
Undone == cmd.at = "restore" \/ Resuming \/ (cmd.at = "fail" /\ cmd.res = "failed")

\* The account
TxIdentity ==
    /\ cmd.op \notin {"install", "upgrade"} => ~cmd.created
    /\ cmd.at \in {"install", "upgrade", "ensure", "user", "ungroup"} \/ Halting => ~cmd.created
    /\ cmd.at \in {"user", "ungroup", "degroup"} => account = HalfAccount /\ cmd.was.account = NoAccount
    /\ cmd.at = "delgroup" => account = HalfAccount /\ cmd.was.account = WholeAccount
    /\ cmd.at \in {"remove", "deluser"} /\ cmd.op = "purge" => account = WholeAccount
    /\ cmd.at = "clear" /\ cmd.op = "purge" => account = NoAccount
    /\ Undone => account = cmd.was.account
    /\ cmd.at \notin {"user", "ungroup", "degroup", "delgroup"} /\ ~(cmd.at = "clear" /\ cmd.op = "purge") /\ ~Undone
         => /\ cmd.created => account = WholeAccount /\ cmd.was.account = NoAccount
            /\ ~cmd.created => account = cmd.was.account
    /\ cmd.op \in {"install", "upgrade"}
         /\ (cmd.at \in {"storage", "activate", "place", "commit"} \/ Trying \/ cmd.res = "untidy")
         => account = WholeAccount

\* The directory of an account deleted before came back with the account.
Adopted(d) == cmd.created /\ cmd.was.data = "stray" /\ d = "worker"

\* A directory the command created could not be removed.
StaysBehind == cmd.left /\ cmd.was.data = "absent"

\* The owner of the worker's data
TxStorage ==
    /\ cmd.op \notin {"install", "upgrade"} => cmd.saved = <<>>
    /\ cmd.saved = <<>> => ~cmd.left
    /\ cmd.saved = <<>> /\ ~Undone /\ ~(cmd.at = "clear" /\ cmd.op = "purge")
         => dirs.data = cmd.was.data \/ Adopted(dirs.data)
    /\ cmd.at \in {"purge", "degroup"} => dirs.data = cmd.was.data \/ Adopted(dirs.data) \/ StaysBehind
    /\ Undone => dirs.data = cmd.was.data \/ StaysBehind
    /\ cmd.saved # <<>> => cmd.saved[1].data = cmd.was.data \/ Adopted(cmd.saved[1].data)
    /\ cmd.at \in {"install", "upgrade", "ensure", "user", "ungroup", "storage"} \/ Halting => cmd.saved = <<>>
    /\ cmd.op \in {"install", "upgrade"}
         /\ (cmd.at \in {"activate", "place", "commit"} \/ Trying \/ cmd.res = "untidy")
         => dirs.data = "worker"

\* Without an account nothing is the worker's.
Owned == account = NoAccount => dirs.data # "worker"

\* A command that was not torn can be finished or undone.
TxBody == TxOps /\ TxFiles /\ TxProgress /\ TxBefore /\ TxIdentity /\ TxStorage
TxInv == TxTypes /\ (~torn => Owned) /\ (cmd.op # "none" /\ ~torn => TxBody)

\* What the abstract specification sees: the installation, as it was while a command runs
Seen == IF cmd.op = "none" THEN Inst ELSE cmd.was

\* An installation that is there at all is complete and can be used.
Complete(i) ==
    i.plist # Absent =>
        /\ i.binary # Absent /\ i.config # Absent
        /\ IF i.binary = Legacy THEN i.account = NoAccount /\ i.data = "root"
           ELSE i.account = WholeAccount /\ i.data = "worker"
SeenInv == ~torn => Complete(Seen)

\* The roll-back brings back what was up: the job is away while files change, and once it
\* was started again it stays.
UpInv == ~torn =>
    /\ cmd.back => \/ cmd.at \in Undoing \cup {"giveup", "fail"}
                   \/ Retreating \/ Resuming
    /\ cmd.op = "install" => ~cmd.up
    /\ cmd.op # "none" /\ cmd.up /\ ~cmd.hasty => Absent \notin {cmd.was.binary, cmd.was.config, cmd.was.plist}
    /\ Resuming => cmd.back /\ cmd.up
    /\ Resuming /\ ~cmd.hasty =>
         /\ cmd.at \in {"kick", "ready"} => job.st = "in"
         /\ cmd.at = "ready" => svc.alive \/ job.want
    /\ cmd.at = "fail" /\ cmd.back /\ cmd.up /\ ~cmd.hasty => Ready /\ job.st = "in"
    /\ job.st = "in" \/ cmd.at = "bootstrap" => Installed

----------------------------------------------------------------------------
(* Queues *)

LEMMA TailElems ==
    ASSUME NEW S, NEW s \in Seq(S), s # <<>>
    PROVE  /\ Head(s) \in S /\ Tail(s) \in Seq(S) /\ Elems(s) = {Head(s)} \cup Elems(Tail(s))
           /\ Unique(s) => Unique(Tail(s)) /\ Head(s) \notin Elems(Tail(s))
<1>1. Len(s) \in Nat \ {0} /\ DOMAIN s = 1 .. Len(s) /\ Head(s) = s[1]
  BY EmptySeq, LenProperties
<1>2. /\ Tail(s) \in Seq(S) /\ DOMAIN Tail(s) = 1 .. Len(s) - 1
      /\ \A i \in 1 .. Len(s) - 1 : Tail(s)[i] = s[i + 1]
  BY <1>1, HeadTailProperties, LenProperties
<1>3. Elems(s) \subseteq {Head(s)} \cup Elems(Tail(s))
  <2> SUFFICES ASSUME NEW i \in DOMAIN s, i # 1 PROVE s[i] \in Elems(Tail(s))
    BY <1>1 DEF Elems
  <2>1. i - 1 \in 1 .. Len(s) - 1 /\ (i - 1) + 1 = i
    BY <1>1
  <2> QED BY <1>2, <2>1 DEF Elems
<1>4. \A i \in DOMAIN Tail(s) : i + 1 \in DOMAIN s /\ i + 1 # 1
  BY <1>1, <1>2
<1>5. {Head(s)} \cup Elems(Tail(s)) \subseteq Elems(s)
  BY <1>1, <1>2, <1>4 DEF Elems
<1>6. ASSUME Unique(s) PROVE Unique(Tail(s)) /\ Head(s) \notin Elems(Tail(s))
  <2>1. ASSUME NEW i \in DOMAIN Tail(s), NEW j \in DOMAIN Tail(s), Tail(s)[i] = Tail(s)[j] PROVE i = j
    <3>1. i + 1 = j + 1
      BY <1>2, <1>4, <1>6, <2>1 DEF Unique
    <3> QED BY <1>1, <1>2, <3>1
  <2>2. \A i \in DOMAIN Tail(s) : Tail(s)[i] # s[1]
    BY <1>1, <1>2, <1>4, <1>6 DEF Unique
  <2> QED BY <1>1, <2>1, <2>2 DEF Unique, Elems
<1>7. Head(s) \in S
  BY <1>1, ElementOfSeq
<1> QED BY <1>2, <1>3, <1>5, <1>6, <1>7

LEMMA PushElems ==
    ASSUME NEW S, NEW s \in Seq(S), NEW e \in S
    PROVE  <<e>> \o s \in Seq(S) /\ Elems(<<e>> \o s) = {e} \cup Elems(s)
<1> DEFINE t == <<e>> \o s
<1>1. <<e>> \in Seq(S) /\ Len(<<e>>) = 1 /\ <<e>>[1] = e
  OBVIOUS
<1>2. /\ t \in Seq(S) /\ Len(t) = 1 + Len(s)
      /\ \A i \in 1 .. Len(t) : t[i] = IF i <= 1 THEN <<e>>[i] ELSE s[i - 1]
  <2>1. /\ t \in Seq(S) /\ Len(t) = Len(<<e>>) + Len(s)
        /\ \A i \in 1 .. Len(<<e>>) + Len(s) : t[i] = IF i <= Len(<<e>>) THEN <<e>>[i] ELSE s[i - Len(<<e>>)]
    BY <1>1, ConcatProperties, Zenon
  <2> QED BY <1>1, <2>1
<1>3. Len(s) \in Nat /\ DOMAIN s = 1 .. Len(s) /\ DOMAIN t = 1 .. Len(t)
  BY <1>2, LenProperties
<1> HIDE DEF t
<1>4. t[1] = e /\ \A i \in DOMAIN s : i + 1 \in DOMAIN t /\ t[i + 1] = s[i]
  BY <1>1, <1>2, <1>3
<1>5. \A i \in DOMAIN t : t[i] = e \/ (i - 1 \in DOMAIN s /\ t[i] = s[i - 1])
  BY <1>1, <1>2, <1>3
<1>6. 1 \in DOMAIN t
  BY <1>2, <1>3
<1>7. Elems(t) = {e} \cup Elems(s)
  BY <1>4, <1>5, <1>6 DEF Elems
<1> QED BY <1>2, <1>7 DEF t

LEMMA NoElems == Elems(<<>>) = {} /\ Unique(<<>>)
BY DEF Elems, Unique

----------------------------------------------------------------------------
(* What the transaction is about *)

SameFiles ==
    /\ cmd'.op = cmd.op /\ cmd'.ver = cmd.ver /\ cmd'.plist = cmd.plist /\ cmd'.todo = cmd.todo
    /\ cmd'.held = cmd.held /\ cmd'.done = cmd.done /\ cmd'.res = cmd.res /\ cmd'.was = cmd.was
    /\ cmd'.again => cmd.again
SameData == SameFiles /\ cmd'.created = cmd.created /\ cmd'.saved = cmd.saved /\ cmd'.left = cmd.left

SameHost == (\A a \in Core : file'[a] = file[a]) /\ account' = account /\ dirs'.data = dirs.data

LEMMA ToData ==
    ASSUME LaunchShape, NEW l
    PROVE  LET c == To(l) IN
           /\ IsCmd(c) /\ c.at = l /\ c.ok = cmd.ok /\ c.no = cmd.no /\ c.up = cmd.up
           /\ (c.back <=> cmd.back \/ l \in Undoing) /\ c.back \in BOOLEAN
           /\ c.op = cmd.op /\ c.ver = cmd.ver /\ c.plist = cmd.plist /\ c.created = cmd.created
           /\ c.saved = cmd.saved /\ c.todo = cmd.todo /\ c.held = cmd.held /\ c.done = cmd.done
           /\ c.res = cmd.res /\ c.was = cmd.was /\ c.again = cmd.again /\ c.left = cmd.left
           /\ c.hasty = cmd.hasty
<1>1. PICK b \in BOOLEAN : b = (cmd.back \/ l \in Undoing)
  OBVIOUS
<1>2. To(l) = [cmd EXCEPT !.at = l, !.back = b]
  BY <1>1 DEF To
<1> QED
  BY <1>1, <1>2 DEF IsCmd, Fields, LaunchShape

LEMMA GotoData ==
    ASSUME LaunchShape, NEW l, Goto(l)
    PROVE  /\ SameData /\ Returns /\ cmd'.at = l /\ cmd'.up = cmd.up /\ cmd'.hasty = cmd.hasty
           /\ (cmd'.back <=> cmd.back \/ l \in Undoing) /\ cmd'.back \in BOOLEAN
BY ToData DEF Goto, SameData, SameFiles, Returns

\* Start finds a job that is leaving, or none.
LEMMA HastyData ==
    ASSUME LaunchShape, NEW l, NEW h, cmd' = [To(l) EXCEPT !.hasty = h]
    PROVE  /\ SameData /\ Returns /\ cmd'.at = l /\ cmd'.up = cmd.up /\ cmd'.hasty = h
           /\ (cmd'.back <=> cmd.back \/ l \in Undoing) /\ cmd'.back \in BOOLEAN
<1>1. PICK c : c = To(l)
  OBVIOUS
<1>2. /\ IsCmd(c) /\ c.at = l /\ c.ok = cmd.ok /\ c.no = cmd.no /\ c.up = cmd.up
      /\ (c.back <=> cmd.back \/ l \in Undoing) /\ c.back \in BOOLEAN
      /\ c.op = cmd.op /\ c.ver = cmd.ver /\ c.plist = cmd.plist /\ c.created = cmd.created
      /\ c.saved = cmd.saved /\ c.todo = cmd.todo /\ c.held = cmd.held /\ c.done = cmd.done
      /\ c.res = cmd.res /\ c.was = cmd.was /\ c.again = cmd.again /\ c.left = cmd.left
  BY <1>1, ToData
<1>3. cmd' = [c EXCEPT !.hasty = h]
  BY <1>1
<1> QED
  BY <1>2, <1>3 DEF SameData, SameFiles, Returns, IsCmd, Fields

\* A directory that stays is noted.
LEMMA LeftData ==
    ASSUME LaunchShape, NEW l, NEW v, cmd' = [To(l) EXCEPT !.left = v]
    PROVE  /\ SameFiles /\ Returns /\ cmd'.at = l /\ cmd'.up = cmd.up /\ cmd'.hasty = cmd.hasty
           /\ cmd'.created = cmd.created /\ cmd'.saved = cmd.saved /\ cmd'.left = v
           /\ (cmd'.back <=> cmd.back \/ l \in Undoing) /\ cmd'.back \in BOOLEAN
<1>1. PICK c : c = To(l)
  OBVIOUS
<1>2. /\ IsCmd(c) /\ c.at = l /\ c.ok = cmd.ok /\ c.no = cmd.no /\ c.up = cmd.up
      /\ (c.back <=> cmd.back \/ l \in Undoing) /\ c.back \in BOOLEAN
      /\ c.op = cmd.op /\ c.ver = cmd.ver /\ c.plist = cmd.plist /\ c.created = cmd.created
      /\ c.saved = cmd.saved /\ c.todo = cmd.todo /\ c.held = cmd.held /\ c.done = cmd.done
      /\ c.res = cmd.res /\ c.was = cmd.was /\ c.again = cmd.again /\ c.hasty = cmd.hasty
  BY <1>1, ToData
<1>3. cmd' = [c EXCEPT !.left = v]
  BY <1>1
<1> QED
  BY <1>2, <1>3 DEF SameFiles, Returns, IsCmd, Fields

LEMMA FaultData ==
    ASSUME LaunchShape, NEW l, Fault(l)
    PROVE  /\ SameData /\ Returns /\ cmd'.at = l /\ cmd'.up = cmd.up /\ cmd'.hasty = cmd.hasty
           /\ (cmd'.back <=> cmd.back \/ l \in Undoing) /\ cmd'.back \in BOOLEAN
           /\ (torn' <=> torn \/ cmd.back) /\ ops' = ops /\ last' = last
<1>1. PICK c : c = To(l)
  OBVIOUS
<1>2. /\ IsCmd(c) /\ c.at = l /\ c.ok = cmd.ok /\ c.no = cmd.no /\ c.up = cmd.up
      /\ (c.back <=> cmd.back \/ l \in Undoing) /\ c.back \in BOOLEAN
      /\ c.op = cmd.op /\ c.ver = cmd.ver /\ c.plist = cmd.plist /\ c.created = cmd.created
      /\ c.saved = cmd.saved /\ c.todo = cmd.todo /\ c.held = cmd.held /\ c.done = cmd.done
      /\ c.res = cmd.res /\ c.was = cmd.was /\ c.again = cmd.again /\ c.left = cmd.left /\ c.hasty = cmd.hasty
  BY <1>1, ToData
<1>3. cmd' = [c EXCEPT !.clean = FALSE] /\ torn' = (torn \/ cmd.back) /\ ops' = ops /\ last' = last
  BY <1>1 DEF Fault
<1> QED
  BY <1>2, <1>3 DEF SameData, SameFiles, Returns, IsCmd, Fields, LaunchShape

LEMMA CallData ==
    ASSUME LaunchShape, NEW sub, NEW ok, NEW no, Call(sub, ok, no)
    PROVE  /\ SameData /\ cmd'.at = sub /\ cmd'.ok = ok /\ cmd'.no = no /\ cmd'.up = cmd.up /\ cmd'.back = cmd.back
           /\ cmd'.hasty = cmd.hasty
BY DEF Call, LaunchShape, SameData, SameFiles, IsCmd, Fields

\* The types are kept by a step that notes nothing new about the files.
LEMMA TypesChange ==
    ASSUME TxTypes, SameFiles, ops' = ops, dirs' \in Dirs,
           \A a \in Names : file'[a] \in Content(a),
           cmd'.at = "place" => cmd.at = "place",
           cmd.op # "none" => /\ cmd'.created \in BOOLEAN /\ cmd'.left \in BOOLEAN
                              /\ cmd'.saved = <<>> \/ \E d \in Dirs : cmd'.saved = <<d>>
    PROVE  TxTypes'
<1>1. Entries' = Entries /\ \A a \in Names : Content(a)' = Content(a)
  BY DEF Content, Entries
<1>2. cmd.op # "none" => CmdTypes'
  BY <1>1 DEF TxTypes, CmdTypes, SameFiles, InstShape, Content
<1> QED
  BY <1>1, <1>2 DEF TxTypes, SameFiles, Content

LEMMA TypesKept ==
    ASSUME TxTypes, SameData, ops' = ops, dirs' \in Dirs,
           \A a \in Names : file'[a] \in Content(a),
           cmd'.at = "place" => cmd.at = "place"
    PROVE  TxTypes'
<1>1. cmd.op # "none" => /\ cmd'.created \in BOOLEAN /\ cmd'.left \in BOOLEAN
                         /\ cmd'.saved = <<>> \/ \E d \in Dirs : cmd'.saved = <<d>>
  BY DEF SameData, TxTypes, CmdTypes
<1> QED BY <1>1, TypesChange DEF SameData

LEMMA FilesKept ==
    ASSUME TxFiles, SameFiles, \A a \in Core : file'[a] = file[a], cmd.at = "place" <=> cmd'.at = "place",
           cmd.at = "undo" => cmd'.at = "undo" \/ cmd.done = <<>>
    PROVE  TxFiles'
<1>1. Touched' = Touched /\ Handled' = Handled /\ Scope' = Scope
  BY DEF SameFiles, Touched, Handled, Scope
<1>2. \A a, v : Base(a, v)' <=> Base(a, v)
  BY DEF SameFiles, Base
<1>3. \A a : New(a)' = New(a)
  BY DEF SameFiles, New
<1>4. cmd.done = <<>> => Elems(cmd.done) = {}
  BY NoElems
<1>5. cmd.op \in Replacing => \A e \in Elems(cmd.done) : e.file \in Core /\ file'[e.file] = file[e.file]
  BY DEF TxFiles, Touched, Scope, Replacing, Core
<1> QED
  BY <1>1, <1>2, <1>3, <1>4, <1>5 DEF TxFiles, SameFiles

\* The steps of control that are taken while nothing was torn
Edge ==
    \/ cmd'.at = cmd.at /\ Returns
    \/ cmd.at \in Starting /\ cmd'.at \in Starting /\ Returns /\ (cmd.at = "start" => Installed)
    \/ cmd.at \in Stopping /\ cmd'.at \in Stopping /\ Returns
    \/ Trying /\ cmd'.at \in {"commit", cmd.no}
    \/ Resuming /\ cmd'.at = "fail"
    \/ Finishing /\ cmd'.at \in {"ok", "fail"} /\ (cmd'.at = "ok" => cmd.at # "start")
    \/ Halting /\ cmd'.at \in {cmd.ok, "fail"}
    \/ Retreating /\ cmd'.at = "undo"
    \/ cmd.at \in {"install", "upgrade", "sync", "restart", "uninstall"} /\ cmd'.at = "fail"
    \/ cmd.at = "install" /\ cmd'.at = "ensure"
    \/ cmd.at = "upgrade" /\ cmd'.at = "stop" /\ cmd'.ok = "ensure" /\ Installed
    \/ cmd.at = "sync" /\ cmd'.at = "stop" /\ cmd'.ok = "activate" /\ Installed
    \/ cmd.at = "sync" /\ cmd'.at = "start" /\ cmd'.ok = "ok" /\ cmd'.no = "fail"
    \/ cmd.at = "restart" /\ cmd'.at = "stop" /\ cmd'.ok = "restarting"
    \/ cmd.at = "restarting" /\ cmd'.at = "start" /\ cmd'.ok = "ok" /\ cmd'.no = "fail"
    \/ cmd.at = "uninstall" /\ cmd'.at = "stop" /\ cmd'.ok = "examine"
    \/ cmd.at = "ensure" /\ cmd'.at \in {"storage", EarlyFailure} /\ (cmd'.at = "storage" => account = WholeAccount)
    \/ cmd.at = "user" /\ cmd'.at = "ungroup"
    \/ cmd.at = "storage" /\ cmd'.at = "purge"
    \/ cmd.at = "activate" /\ cmd'.at = FailedActivation /\ cmd.todo # <<>>
    \/ cmd.at = "activate" /\ cmd'.at = "commit" /\ cmd.todo = <<>>
    \/ /\ cmd.at = "activate" /\ cmd'.at = "start" /\ cmd.todo = <<>> /\ cmd'.ok = "commit"
       /\ cmd'.no = IF cmd.op = "start" THEN "syncstop" ELSE "unload"
    \/ cmd.at = "unload" /\ cmd'.at = "recover"
    \/ cmd.at = "recover" /\ cmd'.at = "undo"
    \/ cmd.at = "undo" /\ cmd'.at = "unstore" /\ cmd.done = <<>>
    \/ cmd.at = "purge" /\ cmd'.at = "restore" /\ ~cmd.created
    \/ cmd.at = "restore" /\ cmd'.at = "fail"
    \/ cmd.at = "restore" /\ cmd'.at = "start" /\ cmd'.ok = "fail" /\ cmd'.no = "fail"
    \/ cmd.at = "syncstop" /\ cmd'.at = "stop" /\ cmd'.ok = "undo"
    \/ cmd.at = "examine" /\ cmd'.at = "restore"
    \/ cmd.at = "examine" /\ cmd'.at = "remove" /\ (cmd.op = "purge" => account = WholeAccount)
    \/ cmd.at \in {"remove", "deluser"} /\ cmd'.at = "undo"
    \/ cmd.at = "remove" /\ cmd.todo = <<>> /\ cmd'.at = IF cmd.op = "purge" THEN "deluser" ELSE "clear"

\* A configuration that could not be replaced
LEMMA OneFile ==
    ASSUME TxTypes, TxFiles, cmd.op = "start", cmd.todo # <<>>
    PROVE  cmd.done = <<>>
<1>1. cmd.todo \in Seq(Names) /\ cmd.done \in Seq(Entries)
  BY DEF TxTypes, CmdTypes
<1>2. Head(cmd.todo) \in Elems(cmd.todo)
  BY <1>1, TailElems
<1>3. Elems(cmd.todo) \subseteq {"config"} /\ Touched \subseteq {"config"} /\ Elems(cmd.todo) \cap Touched = {}
  BY DEF TxFiles, Scope
<1>4. Touched = {}
  BY <1>2, <1>3
<1>5. cmd.done # <<>> => Head(cmd.done).file \in Touched
  BY <1>1, TailElems DEF Touched
<1> QED BY <1>4, <1>5

LEMMA EdgeTx ==
    ASSUME LaunchInv, TxTypes, TxBody, cmd.op # "none", SameData, SameHost, Edge,
           cmd.at = "place" \/ cmd'.at = "place" => cmd'.at = cmd.at
    PROVE  TxBody'
<1> USE DEF SameData, SameFiles, Trying, Resuming, Finishing, Halting, Retreating
<1>1. TxFiles'
  BY FilesKept DEF TxBody, SameHost, Edge, Starting, Stopping
<1>2. /\ cmd.at \in Starting => StartReturns(cmd.ok, cmd.no)
      /\ cmd.at \in Stopping => StopReturns(cmd.ok, cmd.no, cmd.back)
  BY DEF LaunchInv, CommandInv, StartReturns, StopReturns
<1>3. cmd.at = "activate" /\ cmd'.at = FailedActivation /\ cmd.op = "start" /\ cmd.todo # <<>> => cmd.done = <<>>
  BY OneFile DEF TxBody
<1>4. TxOps'
  BY <1>2 DEF TxBody, TxOps, Edge, Returns, EarlyFailure, FailedActivation, Starting, Stopping,
              StartReturns, StopReturns, Replacing, Clearers
<1>5. TxProgress'
  <2> USE DEF TxBody, TxOps, TxProgress, Edge, Returns, EarlyFailure, FailedActivation, Starting, Stopping,
              StartReturns, StopReturns, Replacing, Clearers
  <2>1. (NothingDone => cmd.done = <<>>)'
    BY <1>2, <1>3 DEF NothingDone
  <2>2. /\ Targets' = Targets /\ Victims' = Victims /\ Touched' = Touched /\ Victims \subseteq Core
        /\ \A a \in Core : file'[a] = file[a]
    BY DEF Targets, Victims, Touched, SameHost, Core
  <2>3. (cmd.op \in Replacing =>
           /\ \/ cmd.at \in {"install", "upgrade", "sync", "ensure", "user", "storage", "activate", "place", "commit"}
              \/ Halting \/ Trying
              => Targets \subseteq Elems(cmd.todo) \cup Touched
           /\ cmd.at = "commit" \/ Trying => cmd.todo = <<>>
           /\ cmd.op = "upgrade" /\ cmd.res = "untidy" => Targets \subseteq Touched)'
    BY <1>2, <2>2
  <2>4. (cmd.op \in Clearers =>
           /\ cmd.at \in {"uninstall", "examine", "remove", "deluser", "delgroup", "clear"} \/ Halting
              => \A a \in Victims \ Elems(cmd.todo) : file[a] = Absent
           /\ cmd.at \in {"deluser", "delgroup", "clear"} => cmd.todo = <<>>)'
    BY <1>2, <2>2
  <2> QED BY <2>1, <2>3, <2>4
<1>6. TxBefore'
  <2>1. cmd.at \in {"upgrade", "sync"} \/ (cmd.at = "start" /\ cmd.ok = "ok" /\ cmd.res = "failed")
        => \A a \in Core : Base(a, file[a])
    BY NoElems DEF TxBody, TxProgress, NothingDone, TxFiles, Touched, Handled, Starting
  <2>2. ASSUME Installed, cmd.op \in {"upgrade", "start"}, cmd.res = "failed",
               cmd.at \in {"upgrade", "sync"} \/ (cmd.at = "start" /\ cmd.ok = "ok")
        PROVE  Absent \notin {cmd.was.binary, cmd.was.config, cmd.was.plist}
    BY <2>1, <2>2 DEF Installed, Base, Core
  <2>3. cmd.res \in {"failed", "untidy"} /\ (cmd.op = "upgrade" /\ cmd.res = "untidy" => cmd.at = "fail")
    BY DEF TxTypes, CmdTypes, TxBody, TxOps, Clearers
  <2> QED
    BY <1>2, <2>2, <2>3
    DEF TxBody, TxOps, TxBefore, Edge, Returns, EarlyFailure, FailedActivation, Starting, Stopping, StartReturns, StopReturns
<1>7. TxIdentity'
  <2> USE <1>2 DEF TxBody, TxOps, TxIdentity, Undone, Edge, Returns, EarlyFailure, FailedActivation, Starting, Stopping,
              StartReturns, StopReturns, Replacing, Clearers, SameHost
  <2>0. account' = account /\ cmd.created \in BOOLEAN
    BY DEF TxTypes, CmdTypes
  <2>1. (/\ cmd.op \notin {"install", "upgrade"} => ~cmd.created
         /\ cmd.at \in {"install", "upgrade", "ensure", "user", "ungroup"} \/ Halting => ~cmd.created)'
    BY <2>0
  <2>2. (/\ cmd.at \in {"user", "ungroup", "degroup"} => account = HalfAccount /\ cmd.was.account = NoAccount
         /\ cmd.at = "delgroup" => account = HalfAccount /\ cmd.was.account = WholeAccount
         /\ cmd.at \in {"remove", "deluser"} /\ cmd.op = "purge" => account = WholeAccount
         /\ cmd.at = "clear" /\ cmd.op = "purge" => account = NoAccount)'
    BY <2>0
  <2>3. (Undone => account = cmd.was.account)'
    BY <2>0
  <2>4. (cmd.at \notin {"user", "ungroup", "degroup", "delgroup"} /\ ~(cmd.at = "clear" /\ cmd.op = "purge") /\ ~Undone
         => /\ cmd.created => account = WholeAccount /\ cmd.was.account = NoAccount
            /\ ~cmd.created => account = cmd.was.account)'
    <3>1. CASE Undone
      BY <2>0, <2>3, <3>1 DEF TxTypes, CmdTypes
    <3>2. CASE ~Undone
      BY <2>0, <3>2
    <3> QED BY <3>1, <3>2
  <2>5. (cmd.op \in {"install", "upgrade"}
         /\ (cmd.at \in {"storage", "activate", "place", "commit"} \/ Trying \/ cmd.res = "untidy")
         => account = WholeAccount)'
    BY <2>0
  <2> QED BY <2>1, <2>2, <2>3, <2>4, <2>5
<1>8. TxStorage'
  <2>1. /\ StaysBehind' <=> StaysBehind
        /\ \A d : Adopted(d)' <=> Adopted(d)
    BY DEF StaysBehind, Adopted
  <2>2. Adopted(dirs.data) => cmd.created
    BY DEF Adopted
  <2>3. cmd.saved = <<>> => ~StaysBehind
    BY DEF TxBody, TxStorage, StaysBehind
  <2>4. cmd.saved # <<>> => cmd.op \in {"install", "upgrade"}
    BY DEF TxBody, TxStorage
  <2>5. cmd.at \in {"install", "upgrade", "ensure", "user", "ungroup"} \/ Halting => ~cmd.created
    BY DEF TxBody, TxIdentity
  <2>6. cmd.op \notin {"install", "upgrade"} => ~cmd.created
    BY DEF TxBody, TxIdentity
  <2> QED
    BY <1>2, <2>1, <2>2, <2>3, <2>4, <2>5, <2>6
    DEF TxBody, TxOps, TxStorage, Undone, Edge, Returns, EarlyFailure, FailedActivation, Starting, Stopping,
                StartReturns, StopReturns, Replacing, Clearers, SameHost
<1> QED
  BY <1>1, <1>4, <1>5, <1>6, <1>7, <1>8 DEF TxBody

LEMMA OwnedKept ==
    ASSUME TxInv, torn => torn', account' = account, dirs'.data = dirs.data
    PROVE  ~torn' => Owned'
BY DEF TxInv, Owned

LEMMA ControlTx ==
    ASSUME LaunchInv, TxInv, cmd.op # "none", SameData, SameHost, ops' = ops, dirs' \in Dirs,
           \A a \in Names : file'[a] \in Content(a),
           cmd.at = "place" \/ cmd'.at = "place" => cmd'.at = cmd.at,
           torn => torn', torn' \/ Edge
    PROVE  TxInv'
<1>1. TxTypes'
  BY TypesKept DEF TxInv
<1>2. ~torn' => TxBody'
  BY EdgeTx DEF TxInv
<1>3. ~torn' => Owned'
  BY DEF TxInv, Owned, SameHost
<1> QED BY <1>1, <1>2, <1>3 DEF TxInv

\* Nothing on the host changes.
LEMMA HostTx ==
    ASSUME LaunchInv, TxInv, cmd.at # "idle", SameData, UNCHANGED host, ops' = ops,
           cmd.at # "place", cmd'.at # "place", torn => torn', torn' \/ Edge
    PROVE  TxInv'
<1>1. SameHost /\ dirs' \in Dirs /\ \A a \in Names : file'[a] \in Content(a)
  BY DEF host, SameHost, TxInv, TxTypes
<1>2. cmd.op # "none"
  BY DEF LaunchInv, CommandInv
<1> QED BY <1>1, <1>2, ControlTx

LEMMA StartTx ==
    ASSUME LaunchInv, TxInv,
           StartEnable \/ StartBootstrap \/ StartKick \/ StartReady \/ StartHopeless \/ StartFails
    PROVE  TxInv'
<1>1. cmd.at \in Starting /\ UNCHANGED host
  BY DEF StartEnable, StartBootstrap, StartKick, StartReady, StartHopeless, StartFails, FaultAt, At, Starting
<1>2. PICK l : /\ \/ Goto(l) /\ ops' = ops /\ (torn => torn')
                  \/ Fault(l)
                  \/ ops' = ops /\ (torn => torn') /\ \E h : cmd' = [To(l) EXCEPT !.hasty = h]
               /\ \/ l \in {"bootstrap", "kick", "ready"} /\ (cmd.at = "start" => Installed)
                  \/ l = cmd.no
                  \/ l = cmd.ok /\ cmd.at = "ready"
  <2>1. CASE StartFails
    BY <2>1 DEF StartFails, FaultAt, At
  <2>2. CASE StartEnable
    BY <2>2 DEF StartEnable, At, Step
  <2>3. CASE StartKick \/ StartReady
    BY <2>3 DEF StartKick, StartReady, At, Step
  <2>4. CASE StartHopeless
    <3>1. Goto(cmd.no) /\ ops' = ops /\ (torn => torn')
      BY <2>4 DEF StartHopeless, Step
    <3> QED BY <3>1
  <2>5. CASE StartBootstrap
    <3>1. \E h : cmd' = [To("kick") EXCEPT !.hasty = h]
      BY <2>5 DEF StartBootstrap
    <3>2. ops' = ops /\ (torn => torn') /\ cmd.at = "bootstrap"
      BY <2>5 DEF StartBootstrap, At, Step
    <3> QED BY <3>1, <3>2
  <2> QED BY <2>1, <2>2, <2>3, <2>4, <2>5
<1>3. SameData /\ Returns /\ cmd'.at = l /\ ops' = ops /\ (torn => torn')
  BY <1>2, GotoData, FaultData, HastyData DEF LaunchInv
<1>4. StartReturns(cmd.ok, cmd.no)
  BY <1>1 DEF LaunchInv, CommandInv, StartReturns
<1>5. Edge /\ cmd'.at # "place"
  BY <1>1, <1>2, <1>3, <1>4 DEF Edge, Starting, StartReturns, Trying, Resuming, Finishing
<1> QED
  BY <1>1, <1>3, <1>5, HostTx DEF Starting

LEMMA StopTx ==
    ASSUME LaunchInv, LaunchInv', TxInv, StopDisable \/ StopBootout \/ StopUnloaded \/ StopRecover \/ StopFails
    PROVE  TxInv'
<1>1. /\ cmd.at \in Stopping /\ UNCHANGED host /\ ops' = ops /\ (torn => torn')
      /\ SameData /\ Returns /\ cmd'.at \in {"bootout", "leftover", "unloading", cmd.no, cmd.ok}
  <2>1. CASE StopDisable
    BY <2>1 DEF StopDisable, At, Step, Stopping, LaunchInv, LaunchShape, IsCmd, Fields, SameData, SameFiles, Returns
  <2>2. CASE StopBootout \/ StopUnloaded \/ StopRecover \/ StopFails
    <3>1. /\ cmd.at \in Stopping /\ UNCHANGED host
          /\ \E l \in {"leftover", "unloading", cmd.no, cmd.ok} : (Goto(l) /\ ops' = ops /\ torn' = torn) \/ Fault(l)
      BY <2>2 DEF StopBootout, StopUnloaded, StopRecover, StopFails, FaultAt, At, Step, Stopping
    <3> QED BY <3>1, GotoData, FaultData DEF LaunchInv
  <2> QED BY <2>1, <2>2
<1>2. StopReturns(cmd.ok, cmd.no, cmd.back)
  BY <1>1 DEF LaunchInv, CommandInv, StopReturns
<1>3. cmd'.at = "giveup" => torn'
  BY DEF LaunchInv, CommandInv
<1>4. (torn' \/ Edge) /\ cmd'.at # "place"
  BY <1>1, <1>2, <1>3 DEF Edge, Stopping, StopReturns, Halting, Retreating
<1> QED
  BY <1>1, <1>4, HostTx DEF Stopping

\* The commands' own steps
LEMMA OwnTx ==
    ASSUME LaunchInv, TxInv,
           \/ InstallCheck \/ Sync \/ SyncInvalid \/ Upgrade \/ Restart \/ Restarting \/ Uninstall \/ Refuse
           \/ SyncStop
    PROVE  TxInv'
<1> USE DEF At, Step, Edge
<1>0. LaunchShape
  BY DEF LaunchInv
<1>1. CASE InstallCheck
  BY <1>0, <1>1, HostTx, GotoData DEF InstallCheck
<1>2. CASE Sync
  <2>1. CASE Installed
    <3>1. SameData /\ cmd'.at = "stop" /\ cmd'.ok = "activate"
      BY <1>0, <1>2, <2>1 DEF Sync, LaunchShape, IsCmd, Fields, SameData, SameFiles
    <3> QED BY <1>2, <2>1, <3>1, HostTx DEF Sync
  <2>2. CASE ~Installed
    <3>1. Goto("fail")
      BY <1>2, <2>2 DEF Sync, Goto
    <3> QED BY <1>0, <1>2, <3>1, HostTx, GotoData DEF Sync
  <2> QED BY <2>1, <2>2
<1>3. CASE SyncInvalid
  <2>1. SameData /\ cmd'.at \in {"start", "fail"} /\ cmd'.ok = "ok" /\ cmd'.no = "fail"
    BY <1>0, <1>3 DEF SyncInvalid, LaunchShape, IsCmd, Fields, SameData, SameFiles
  <2> QED BY <1>3, <2>1, HostTx DEF SyncInvalid
<1>4. CASE Upgrade
  <2>1. CASE Installed
    <3>1. SameData /\ cmd'.at = "stop" /\ cmd'.ok = "ensure"
      BY <1>0, <1>4, <2>1 DEF Upgrade, LaunchShape, IsCmd, Fields, SameData, SameFiles
    <3> QED BY <1>4, <2>1, <3>1, HostTx DEF Upgrade
  <2>2. CASE ~Installed
    <3>1. Goto("fail")
      BY <1>4, <2>2 DEF Upgrade, Goto
    <3> QED BY <1>0, <1>4, <3>1, HostTx, GotoData DEF Upgrade
  <2> QED BY <2>1, <2>2
<1>5. CASE Restart
  BY <1>0, <1>5, HostTx, GotoData, CallData DEF Restart
<1>6. CASE Restarting
  BY <1>0, <1>6, HostTx, CallData DEF Restarting
<1>7. CASE Uninstall
  <2>1. SameData /\ cmd'.at = "stop" /\ cmd'.ok = "examine"
    BY <1>0, <1>7 DEF Uninstall, LaunchShape, IsCmd, Fields, SameData, SameFiles
  <2> QED BY <1>7, <2>1, HostTx DEF Uninstall
<1>8. CASE Refuse
  <2>1. PICK l \in {"install", "upgrade", "sync", "restart", "uninstall"} : FaultAt(l, "fail")
    BY <1>8 DEF Refuse
  <2>2. cmd.at = l /\ UNCHANGED host /\ Fault("fail")
    BY <2>1 DEF FaultAt
  <2>3. SameData /\ cmd'.at = "fail" /\ ops' = ops /\ (torn => torn')
    BY <1>0, <2>2, FaultData
  <2> QED BY <2>2, <2>3, HostTx
<1>9. CASE SyncStop
  BY <1>0, <1>9, HostTx, CallData DEF SyncStop
<1> QED
  BY <1>1, <1>2, <1>3, <1>4, <1>5, <1>6, <1>7, <1>8, <1>9

\* Steps between the changes of the transaction
LEMMA BetweenTx ==
    ASSUME LaunchInv, TxInv, Activated \/ Unload \/ RollbackRecover \/ Restore \/ UninstallExamine \/ Removed
    PROVE  TxInv'
<1> USE DEF At, Step, Edge
<1>0. LaunchShape
  BY DEF LaunchInv
<1>1. CASE Activated
  <2>1. /\ cmd.at = "activate" /\ cmd.todo = <<>> /\ UNCHANGED host /\ ops' = ops /\ torn' = torn
        /\ Goto("commit") \/ Call("start", "commit", IF cmd.op = "start" THEN "syncstop" ELSE "unload")
    BY <1>1 DEF Activated
  <2>2. SameData /\ (torn => torn') /\ Edge /\ cmd'.at # "place"
    BY <1>0, <2>1, GotoData, CallData
  <2> QED BY <2>1, <2>2, HostTx
<1>2. CASE Unload
  BY <1>0, <1>2, HostTx, GotoData DEF Unload
<1>3. CASE RollbackRecover
  BY <1>0, <1>3, HostTx, GotoData DEF RollbackRecover
<1>4. CASE Restore
  BY <1>0, <1>4, HostTx, GotoData, CallData DEF Restore
<1>5. CASE UninstallExamine
  BY <1>0, <1>5, HostTx, GotoData DEF UninstallExamine
<1>6. CASE Removed
  BY <1>0, <1>6, HostTx, GotoData DEF Removed
<1> QED
  BY <1>1, <1>2, <1>3, <1>4, <1>5, <1>6

\* Steps that change the account or the storage
Change ==
    \/ cmd.at = "ensure" /\ cmd'.at = "user" /\ account = NoAccount /\ account' = HalfAccount
    \/ /\ cmd.at = "user" /\ cmd'.at = "storage" /\ account' = WholeAccount /\ cmd'.created = TRUE
       /\ dirs'.data = dirs.data \/ (dirs.data = "stray" /\ dirs'.data = "worker")
    \/ cmd.at = "ungroup" /\ cmd'.at = EarlyFailure /\ account' = NoAccount
    \/ cmd.at = "purge" /\ cmd'.at = "degroup" /\ cmd.created /\ account' = HalfAccount
    \/ /\ cmd.at = "degroup" /\ cmd'.at = "restore" /\ account' = NoAccount
       /\ dirs'.data = IF dirs.data = "worker" THEN "stray" ELSE dirs.data
    \/ cmd.at = "deluser" /\ cmd'.at = "delgroup" /\ account' = HalfAccount
    \/ /\ cmd.at = "delgroup" /\ cmd'.at = "clear" /\ account' = NoAccount
       /\ dirs'.data = IF dirs.data = "worker" THEN "stray" ELSE dirs.data
    \/ cmd.at = "delgroup" /\ cmd'.at = "undo" /\ account' = WholeAccount /\ dirs'.data = dirs.data
    \/ cmd.at = "storage" /\ cmd'.at = "activate" /\ cmd'.saved = <<dirs>> /\ dirs'.data = "worker"
    \/ /\ cmd.at = "unstore" /\ cmd'.at = "purge"
       /\ cmd'.left => cmd.saved # <<>> /\ cmd.saved[1].data = "absent"
       /\ dirs'.data = IF cmd.saved = <<>> \/ cmd'.left THEN dirs.data ELSE cmd.saved[1].data

LEMMA ChangeTx ==
    ASSUME TxTypes, TxBody, Owned, SameFiles, \A a \in Core : file'[a] = file[a], Change,
           cmd.at # "storage" => cmd'.saved = cmd.saved,
           cmd.at \notin {"storage", "unstore", "user", "degroup", "delgroup"} => dirs'.data = dirs.data,
           cmd.at \in {"storage", "unstore"} => account' = account,
           cmd.at # "user" => cmd'.created = cmd.created,
           cmd.at # "unstore" => cmd'.left = cmd.left
    PROVE  TxBody' /\ Owned'
<1> USE DEF SameFiles, Trying, Resuming, Finishing, Halting, Retreating, Starting, Stopping, EarlyFailure, Change
<1>1. TxFiles'
  BY FilesKept DEF TxBody
<1>2. TxOps'
  BY DEF TxBody, TxOps, Replacing, Clearers
<1>3. TxProgress'
  <2>1. Targets' = Targets /\ Victims' = Victims /\ Touched' = Touched /\ Victims \subseteq Core
    BY DEF Targets, Victims, Touched, Core
  <2>2. cmd.at = "unstore" => cmd.done = <<>>
    BY DEF TxBody, TxProgress, NothingDone
  <2> QED BY <2>1, <2>2 DEF TxBody, TxOps, TxProgress, NothingDone, Replacing, Clearers
<1>4. TxBefore'
  BY DEF TxBody, TxOps, TxBefore, Clearers
<1>5. cmd.created \in BOOLEAN
  BY DEF TxTypes, CmdTypes, TxBody, TxOps, Replacing, Clearers
<1>6. TxIdentity'
  BY <1>5 DEF TxBody, TxOps, TxIdentity, Undone, Clearers, NoAccount, HalfAccount, WholeAccount
<1>7. cmd.was.account = NoAccount => cmd.was.data # "worker"
  BY DEF TxBody, TxBefore
<1>8. TxStorage'
  <2>1. CASE cmd.at = "storage"
    <3>1. cmd'.at = "activate" /\ cmd'.saved = <<dirs>> /\ dirs'.data = "worker"
      BY <2>1
    <3>2. <<dirs>> # <<>> /\ <<dirs>>[1] = dirs
      OBVIOUS
    <3>3. (dirs.data = cmd.was.data \/ Adopted(dirs.data)) /\ cmd.op \in {"install", "upgrade"}
      BY <2>1 DEF TxBody, TxOps, TxStorage, Undone
    <3>4. Adopted(dirs.data) => Adopted(dirs.data)' \/ cmd'.saved[1].data = "worker"
      BY <3>1, <3>2 DEF Adopted
    <3>5. cmd'.saved[1].data = dirs.data /\ cmd'.created = cmd.created /\ cmd'.was = cmd.was
      BY <2>1, <3>1, <3>2
    <3> QED BY <3>1, <3>2, <3>3, <3>5 DEF TxStorage, Undone, Adopted
  <2>2. CASE cmd.at = "unstore"
    <3>1. cmd'.at = "purge" /\ (cmd.res = "untidy" => cmd.op = "start") /\ cmd'.created = cmd.created
      BY <2>2 DEF TxBody, TxOps, Clearers
    <3>2. cmd'.saved = cmd.saved
      BY <2>2
    <3>3. dirs'.data = cmd.was.data \/ Adopted(dirs'.data) \/ StaysBehind'
      <4>1. CASE cmd.saved = <<>>
        BY <2>2, <4>1 DEF TxBody, TxStorage, Undone
      <4>2. CASE cmd.saved # <<>> /\ cmd'.left
        BY <2>2, <4>2 DEF TxBody, TxStorage, Adopted, StaysBehind
      <4>3. CASE cmd.saved # <<>> /\ ~cmd'.left
        BY <2>2, <4>3 DEF TxBody, TxStorage
      <4> QED BY <4>1, <4>2, <4>3
    <3>4. \A d : Adopted(d)' <=> Adopted(d)
      BY <3>1 DEF Adopted
    <3>5. cmd.saved = <<>> => ~cmd'.left /\ (dirs'.data = cmd.was.data \/ Adopted(dirs'.data))
      BY <2>2, <3>2 DEF TxBody, TxStorage, Undone
    <3> QED BY <2>2, <3>1, <3>2, <3>3, <3>4, <3>5 DEF TxBody, TxStorage, Undone, Adopted
  <2>3. CASE cmd.at \in {"user", "degroup"}
    <3>1. cmd'.saved = cmd.saved /\ cmd'.left = cmd.left /\ cmd.was.account = NoAccount
      BY <2>3 DEF TxBody, TxIdentity
    <3>2. CASE cmd.at = "user"
      BY <1>7, <3>1, <3>2 DEF TxBody, TxOps, TxStorage, Undone, Clearers, Adopted, StaysBehind
    <3>3. CASE cmd.at = "degroup"
      BY <1>7, <3>1, <3>3 DEF TxBody, TxOps, TxStorage, Undone, Clearers, Adopted, StaysBehind
    <3> QED BY <2>3, <3>2, <3>3
  <2>4. CASE cmd.at \notin {"storage", "unstore", "user", "degroup"}
    <3>1. /\ cmd'.saved = cmd.saved /\ cmd'.left = cmd.left /\ cmd'.created = cmd.created
          /\ dirs'.data = dirs.data \/ (cmd.at = "delgroup" /\ cmd'.at = "clear")
      BY <2>4
    <3>2. /\ StaysBehind' <=> StaysBehind
          /\ \A d : Adopted(d)' <=> Adopted(d)
      BY <3>1 DEF StaysBehind, Adopted
    <3>3. Adopted(dirs.data) => cmd.created
      BY DEF Adopted
    <3>4. (cmd.at \in {"ensure", "ungroup"} => ~cmd.created) /\ (cmd.at = "delgroup" => cmd.op = "purge")
      BY DEF TxBody, TxIdentity, TxOps
    <3> QED BY <2>4, <3>1, <3>2, <3>3, <3>4 DEF TxBody, TxOps, TxStorage, Undone, Clearers
  <2> QED BY <2>1, <2>2, <2>3, <2>4
<1>9. Owned'
  <2>1. CASE cmd.at = "unstore"
    <3>1. account = NoAccount => ~cmd.created /\ account = cmd.was.account
      BY <1>5, <2>1 DEF TxBody, TxIdentity, Undone, NoAccount, WholeAccount
    <3>2. account' = account /\ (cmd.saved # <<>> => cmd.saved[1].data = cmd.was.data \/ cmd.created)
      BY <2>1 DEF TxBody, TxStorage, Adopted
    <3>3. account = NoAccount => dirs.data # "worker"
      BY DEF Owned
    <3> QED BY <1>7, <2>1, <3>1, <3>2, <3>3 DEF Owned
  <2>2. CASE cmd.at = "storage"
    BY <2>2 DEF TxBody, TxOps, TxIdentity, Owned, NoAccount, WholeAccount
  <2>3. CASE cmd.at = "ungroup"
    BY <1>7, <2>3 DEF TxBody, TxIdentity, TxStorage, Undone, Adopted, Owned
  <2>4. CASE cmd.at \notin {"unstore", "storage", "ungroup"}
    BY <2>4 DEF Owned, NoAccount, HalfAccount, WholeAccount
  <2> QED BY <2>1, <2>2, <2>3, <2>4
<1> QED
  BY <1>1, <1>2, <1>3, <1>4, <1>6, <1>8, <1>9 DEF TxBody

LEMMA AccountTx ==
    ASSUME LaunchInv, TxInv,
           \/ EnsureGroup \/ EnsureUser \/ Ungroup \/ PurgeUser \/ PurgeGroup
           \/ RollbackUser \/ RollbackGroup
    PROVE  TxInv'
<1>1. /\ LaunchShape /\ account \in Accounts /\ UNCHANGED <<file, launchd>> /\ UNCHANGED <<ops, torn>>
      /\ cmd.at \in {"ensure", "user", "ungroup", "deluser", "delgroup", "purge", "degroup"}
      /\ cmd.at \notin {"user", "degroup", "delgroup"} => dirs' = dirs
      /\ cmd.at \in {"degroup", "delgroup"} => dirs' = Orphaned
      /\ cmd.at = "user" => \E d \in IF dirs.data = "stray" THEN {"stray", "worker"} ELSE {dirs.data} :
                               dirs' = [dirs EXCEPT !.data = d]
  BY DEF LaunchInv, LaunchShape, Accounts, EnsureGroup, EnsureUser, Ungroup, PurgeUser, PurgeGroup,
         RollbackUser, RollbackGroup, At, Step
<1>2. cmd.op # "none" /\ CmdTypes /\ TxTypes
  BY <1>1 DEF LaunchInv, CommandInv, TxInv, TxTypes
<1>0. /\ dirs' \in Dirs
      /\ cmd.at = "user" => dirs'.data = dirs.data \/ (dirs.data = "stray" /\ dirs'.data = "worker")
      /\ cmd.at \in {"degroup", "delgroup"} => dirs'.data = IF dirs.data = "worker" THEN "stray" ELSE dirs.data
  <2>1. dirs \in Dirs
    BY <1>2 DEF TxTypes
  <2> QED BY <1>1, <2>1 DEF Orphaned, Dirs, Owners
<1>3. ASSUME SameData, account' = account, Edge, cmd'.at # "place", cmd.at \in {"ensure", "purge"} PROVE TxInv'
  <2>1. UNCHANGED host
    BY <1>1, <1>3 DEF host
  <2> QED BY <1>1, <1>3, <2>1, HostTx
<1>4. ASSUME SameFiles, cmd'.saved = cmd.saved, cmd.at # "user" => cmd'.created = cmd.created,
             cmd'.left = cmd.left, ~torn => Change, cmd'.created \in BOOLEAN, cmd'.at # "place"
      PROVE  TxInv'
  <2>1. TxTypes'
    BY <1>0, <1>1, <1>2, <1>4, TypesChange DEF TxTypes, CmdTypes
  <2>2. ~torn' => TxBody' /\ Owned'
    BY <1>0, <1>1, <1>2, <1>4, ChangeTx DEF TxInv
  <2> QED BY <2>1, <2>2 DEF TxInv
<1>5. CASE EnsureGroup
  <2>1. CASE account = WholeAccount
    <3>1. Goto("storage")
      BY <1>5, <2>1 DEF EnsureGroup, NoAccount, WholeAccount
    <3>2. account' = account
      BY <1>5, <2>1 DEF EnsureGroup, NoAccount, WholeAccount
    <3> QED BY <1>1, <1>3, <1>5, <2>1, <3>1, <3>2, GotoData DEF EnsureGroup, At, Edge
  <2>2. CASE account = NoAccount
    <3>1. Goto("user") /\ account' = HalfAccount
      BY <1>5, <2>2 DEF EnsureGroup, NoAccount, WholeAccount, HalfAccount
    <3> QED BY <1>1, <1>2, <1>4, <1>5, <2>2, <3>1, GotoData DEF EnsureGroup, At, Change, SameData, CmdTypes
  <2>3. CASE account \notin {WholeAccount, NoAccount}
    <3>1. Goto(EarlyFailure)
      BY <1>5, <2>3 DEF EnsureGroup
    <3>2. account' = account
      BY <1>1, <1>5, <2>3 DEF EnsureGroup, Accounts
    <3> QED BY <1>1, <1>3, <1>5, <2>3, <3>1, <3>2, GotoData, FailureTargets DEF EnsureGroup, At, Edge
  <2> QED BY <2>1, <2>2, <2>3
<1>6. CASE EnsureUser
  <2>1. SameFiles /\ cmd'.saved = cmd.saved /\ cmd'.created = TRUE /\ cmd'.at = "storage" /\ cmd'.left = cmd.left
    BY <1>1, <1>6 DEF EnsureUser, LaunchShape, IsCmd, Fields, SameFiles
  <2> QED BY <1>0, <1>4, <1>6, <2>1 DEF EnsureUser, At, Change
<1>7. ASSUME cmd.at # "user", cmd.at # "ensure", ~torn PROVE
        /\ cmd.at \in {"ungroup", "degroup", "delgroup"} => account = HalfAccount
        /\ cmd.at \in {"deluser"} => account = WholeAccount
        /\ cmd.at = "purge" /\ cmd.created => account = WholeAccount
        /\ cmd.at = "purge" /\ ~cmd.created => account = cmd.was.account
  BY <1>2, <1>7 DEF TxInv, TxBody, TxOps, TxIdentity, Undone, Resuming, Starting
<1>8. CASE Ungroup \/ RollbackGroup
  <2>1. ~torn => account' = NoAccount
    BY <1>7, <1>8 DEF Ungroup, RollbackGroup, At, HalfAccount, NoAccount
  <2>2. PICK l : /\ Goto(l)
                 /\ \/ l = EarlyFailure /\ cmd.at = "ungroup"
                    \/ l = "restore" /\ cmd.at = "degroup"
    BY <1>8 DEF Ungroup, RollbackGroup, At
  <2> QED BY <1>0, <1>1, <1>2, <1>4, <2>1, <2>2, GotoData, FailureTargets DEF Change, SameData, CmdTypes
<1>9. CASE PurgeUser \/ PurgeGroup
  <2>1. ~torn => account' = IF cmd.at = "deluser" THEN HalfAccount ELSE NoAccount
    BY <1>7, <1>9 DEF PurgeUser, PurgeGroup, At, HalfAccount, NoAccount, WholeAccount
  <2>2. PICK l : /\ Goto(l)
                 /\ \/ l = "delgroup" /\ cmd.at = "deluser"
                    \/ l = "clear" /\ cmd.at = "delgroup"
    BY <1>9 DEF PurgeUser, PurgeGroup, At
  <2> QED BY <1>0, <1>1, <1>2, <1>4, <2>1, <2>2, GotoData DEF Change, SameData, CmdTypes
<1>10. CASE RollbackUser
  <2>1. CASE cmd.created
    <3>0. account' = [account EXCEPT !.user = FALSE]
      BY <1>1, <1>2, <1>10, <2>1 DEF CmdTypes, RollbackUser, Accounts
    <3>1. ASSUME ~torn PROVE account' = HalfAccount
      <4>1. cmd.at = "purge"
        BY <1>10 DEF RollbackUser, At
      <4>2. account = WholeAccount
        BY <1>7, <2>1, <3>1, <4>1
      <4> QED BY <3>0, <4>2 DEF HalfAccount, WholeAccount
    <3>2. Goto("degroup") /\ cmd.at = "purge"
      BY <1>10, <2>1 DEF RollbackUser, At
    <3>3. SameData /\ cmd'.at = "degroup"
      BY <1>1, <3>2, GotoData
    <3>4. ~torn => Change
      BY <2>1, <3>1, <3>2, <3>3 DEF Change
    <3> QED BY <1>2, <1>4, <3>3, <3>4 DEF SameData, CmdTypes
  <2>2. CASE ~cmd.created
    <3>1. account' = account
      BY <1>1, <1>10, <2>2 DEF RollbackUser, Accounts
    <3>2. Goto("restore") /\ cmd.at = "purge"
      BY <1>10, <2>2 DEF RollbackUser, At
    <3> QED BY <1>1, <1>3, <2>2, <3>1, <3>2, GotoData DEF Edge
  <2> QED BY <2>1, <2>2
<1> QED
  BY <1>5, <1>6, <1>8, <1>9, <1>10

LEMMA StorageTx ==
    ASSUME LaunchInv, TxInv, PrepareStorage \/ Unstore
    PROVE  TxInv'
<1>1. /\ LaunchShape /\ UNCHANGED <<account, launchd>> /\ UNCHANGED <<ops, torn>>
      /\ cmd.at \in {"storage", "unstore"}
      /\ file = [x \in {"binary", "config", "plist", "mappings"} |-> file[x]]
  BY DEF LaunchInv, LaunchShape, PrepareStorage, Unstore, At, Step
<1>2. cmd.op # "none" /\ CmdTypes /\ TxTypes /\ dirs \in Dirs
  BY <1>1 DEF LaunchInv, CommandInv, TxInv, TxTypes
<1>3. CASE PrepareStorage /\ dirs.data = "stray"
  <2>1. Goto("purge") /\ UNCHANGED host /\ cmd.at = "storage"
    BY <1>3 DEF PrepareStorage, host, At
  <2> QED BY <1>1, <2>1, GotoData, HostTx DEF Edge
<1>4. CASE Unstore \/ dirs.data # "stray"
  <2>1. /\ SameFiles /\ cmd'.created = cmd.created /\ cmd'.at # "place" /\ Change
        /\ cmd.at = "storage" => cmd'.saved = <<dirs>>
        /\ cmd.at # "storage" => cmd'.saved = cmd.saved
        /\ cmd.at # "unstore" => cmd'.left = cmd.left
        /\ dirs' \in Dirs /\ cmd'.left \in BOOLEAN
    <3>1. CASE PrepareStorage /\ dirs.data # "stray"
      <4>1. /\ dirs' = [dirs EXCEPT !.worker = "worker", !.data = "worker"] /\ cmd.at = "storage"
            /\ \E y : cmd' = [cmd EXCEPT !.at = "activate", !.saved = <<dirs>>, !.fresh = y]
        BY <3>1 DEF PrepareStorage, At
      <4>2. dirs' \in Dirs /\ dirs'.data = "worker" /\ cmd.left \in BOOLEAN
        BY <1>2, <4>1 DEF Dirs, Owners, CmdTypes
      <4> QED BY <1>1, <4>1, <4>2 DEF LaunchShape, IsCmd, Fields, SameFiles, Change
    <3>2. CASE Unstore
      <4> DEFINE stays == dirs.rest # {} /\ cmd.saved # <<>> /\ cmd.saved[1].data = "absent"
      <4>1. /\ cmd' = [To("purge") EXCEPT !.left = stays] /\ cmd.at = "unstore"
            /\ dirs' = IF cmd.saved = <<>> THEN dirs
                       ELSE [dirs EXCEPT !.worker = cmd.saved[1].worker,
                                         !.data = IF stays THEN @ ELSE cmd.saved[1].data]
        BY <3>2 DEF Unstore, At
      <4>2. PICK v \in BOOLEAN : v = stays
        OBVIOUS
      <4>3. cmd' = [To("purge") EXCEPT !.left = v]
        BY <4>1, <4>2
      <4>4. /\ SameFiles /\ cmd'.created = cmd.created /\ cmd'.at = "purge" /\ cmd'.saved = cmd.saved
            /\ cmd'.left = v
        BY <1>1, <4>3, LeftData
      <4>5. cmd.saved = <<>> \/ cmd.saved[1] \in Dirs
        BY <1>2 DEF CmdTypes
      <4>6. dirs' \in Dirs /\ dirs'.data = IF cmd.saved = <<>> \/ v THEN dirs.data ELSE cmd.saved[1].data
        BY <1>2, <4>1, <4>2, <4>5 DEF Dirs
      <4> QED BY <4>1, <4>2, <4>4, <4>6 DEF Change
    <3> QED BY <1>4, <3>1, <3>2
  <2>2. (\A a \in Core : file'[a] = file[a]) /\ file'.mappings \in {file.mappings, Absent}
    BY <1>1 DEF PrepareStorage, Unstore, Core
  <2>3. TxTypes'
    <3>1. \A a \in Names : file'[a] \in Content(a)
      BY <1>2, <2>2 DEF TxTypes, Names, Content, Absent, Core, Present
    <3>2. cmd'.created \in BOOLEAN /\ (cmd'.saved = <<>> \/ \E d \in Dirs : cmd'.saved = <<d>>)
      BY <1>1, <1>2, <2>1 DEF CmdTypes, TxTypes
    <3> QED BY <1>1, <1>2, <2>1, <3>1, <3>2, TypesChange
  <2>4. ~torn' => TxBody' /\ Owned'
    BY <1>1, <1>2, <2>1, <2>2, ChangeTx DEF TxInv
  <2> QED BY <2>3, <2>4 DEF TxInv
<1> QED BY <1>3, <1>4

----------------------------------------------------------------------------
(* Files *)

\* A step that changes files leaves the rest of the transaction.
SameRest ==
    /\ cmd'.op = cmd.op /\ cmd'.ver = cmd.ver /\ cmd'.plist = cmd.plist /\ cmd'.res = cmd.res /\ cmd'.was = cmd.was
    /\ cmd'.created = cmd.created /\ cmd'.saved = cmd.saved /\ (cmd'.again => cmd.again)
    /\ cmd'.left = cmd.left /\ account' = account /\ dirs' = dirs

LEMMA RestTx ==
    ASSUME TxBody, SameRest,
           \/ cmd.at = "activate" /\ cmd'.at = "place"
           \/ cmd.at = "place" /\ cmd'.at \in {"activate", FailedActivation}
           \/ cmd.at \in {"undo", "remove"} /\ cmd'.at = cmd.at
    PROVE  TxOps' /\ TxBefore' /\ TxIdentity' /\ TxStorage' /\ (Owned => Owned')
<1> USE DEF SameRest, Trying, Resuming, Finishing, Halting, Retreating, Starting, Stopping, FailedActivation
<1>1. TxOps'
  BY DEF TxBody, TxOps, Replacing, Clearers
<1>2. TxBefore'
  BY DEF TxBody, TxOps, TxBefore, Replacing, Clearers
<1>3. TxIdentity'
  BY DEF TxBody, TxOps, TxIdentity, Undone, Replacing, Clearers
<1>4. TxStorage'
  <2>1. /\ StaysBehind' <=> StaysBehind
        /\ \A d : Adopted(d)' <=> Adopted(d)
    BY DEF StaysBehind, Adopted
  <2>2. cmd.op \notin {"install", "upgrade"} => ~Adopted(dirs.data)
    BY DEF TxBody, TxIdentity, Adopted
  <2> QED
    BY <2>1, <2>2 DEF TxBody, TxOps, TxStorage, Undone, Replacing, Clearers
<1>5. Owned => Owned'
  BY DEF Owned
<1> QED BY <1>1, <1>2, <1>3, <1>4, <1>5

\* The names of the steps' operators keep their meaning.
LEMMA SameMeaning ==
    ASSUME SameRest
    PROVE  /\ \A a, v : Base(a, v)' <=> Base(a, v)
           /\ \A a : New(a)' = New(a)
           /\ Scope' = Scope /\ Targets' = Targets /\ Victims' = Victims
BY DEF SameRest, Base, New, Scope, Targets, Victims

\* The types of a step on one file
LEMMA FileTypes ==
    ASSUME TxTypes, CmdTypes, SameRest, ops' = ops,
           file = [x \in {"binary", "config", "plist", "mappings"} |-> file[x]],
           NEW a \in Names, NEW v \in Content(a), file' = [file EXCEPT ![a] = v],
           cmd'.todo \in Seq(Names), cmd'.done \in Seq(Entries),
           cmd'.at = "place" => cmd'.todo # <<>> /\ cmd'.held \in Content(Head(cmd'.todo))
    PROVE  TxTypes'
<1>1. Entries' = Entries /\ \A b \in Names : Content(b)' = Content(b)
  BY DEF Content, Entries
<1>2. \A b \in Names : file'[b] \in Content(b)
  BY DEF TxTypes, Names, Core
<1>3. \A b \in Core : b \in Names
  BY DEF Names
<1>4. cmd'.at = "place" => Head(cmd'.todo) \in Names
  BY TailElems
<1>5. CmdTypes'
  BY <1>1, <1>3, <1>4 DEF CmdTypes, SameRest, InstShape
<1> QED BY <1>1, <1>2, <1>5 DEF TxTypes, SameRest

LEMMA BackupTx ==
    ASSUME LaunchInv, TxInv, Backup
    PROVE  TxInv'
<1> DEFINE a == Head(cmd.todo)
<1>1. /\ cmd.at = "activate" /\ cmd.todo # <<>> /\ LaunchShape /\ UNCHANGED <<account, dirs, ops, torn>>
      /\ file = [x \in {"binary", "config", "plist", "mappings"} |-> file[x]]
  BY DEF Backup, At, Step, LaunchInv, LaunchShape
<1>2. cmd.op # "none" /\ CmdTypes /\ TxTypes
  BY <1>1 DEF LaunchInv, CommandInv, TxInv, TxTypes
<1>3. CASE cmd.op = "install" /\ a # "config" /\ file[a] # Absent
  <2>1. Goto(FailedActivation) /\ UNCHANGED host
    BY <1>1, <1>3 DEF Backup, host
  <2>2. FailedActivation \in {"undo", "unload", "restore"}
    BY FailureTargets
  <2> QED BY <1>1, <2>1, <2>2, GotoData, HostTx DEF Edge
<1>4. CASE ~(cmd.op = "install" /\ a # "config" /\ file[a] # Absent)
  <2>1. /\ cmd' = [cmd EXCEPT !.at = "place", !.held = file[a]]
        /\ file' = [file EXCEPT ![a] = Absent]
    BY <1>4 DEF Backup
  <2>2. /\ SameRest /\ cmd'.at = "place" /\ cmd'.held = file[a] /\ cmd'.todo = cmd.todo /\ cmd'.done = cmd.done
    BY <1>1, <2>1 DEF LaunchShape, IsCmd, Fields, SameRest
  <2>3. a \in Names /\ a \in Elems(cmd.todo)
    BY <1>1, <1>2, TailElems DEF CmdTypes
  <2>4. Absent \in Content(a) /\ file[a] \in Content(a)
    BY <1>2, <2>3 DEF TxTypes, Content, Absent, Present
  <2> HIDE DEF a
  <2>5. TxTypes'
    BY <1>1, <1>2, <2>1, <2>2, <2>3, <2>4, FileTypes DEF CmdTypes, a
  <2>6. ASSUME ~torn PROVE TxBody'
    <3>1. TxBody
      BY <1>2, <2>6 DEF TxInv
    <3>2. cmd.op \in Replacing /\ a \notin Touched /\ a \in Scope /\ Scope \subseteq Core
      BY <1>1, <2>3, <3>1 DEF TxBody, TxOps, TxFiles, Scope, Replacing, Core, Names
    <3>3. Touched' = Touched /\ Handled' = {a} /\ Handled = {}
      BY <1>1, <2>2 DEF Touched, Handled, a
    <3>4. \A b \in Core \ {a} : file'[b] = file[b]
      BY <1>1, <2>1, <2>3 DEF Core
    <3>5. Base(a, file[a])
      BY <3>1, <3>2, <3>3 DEF TxBody, TxFiles
    <3>6. cmd.op = "install" /\ a # "config" => file[a] = Absent
      BY <1>4 DEF a
    <3>7. \A e \in Elems(cmd.done) : e.file \in Core \ {a}
      BY <3>1, <3>2 DEF TxBody, TxFiles, Touched
    <3>8. TxFiles'
      <4>1. /\ \A b, v : Base(b, v)' <=> Base(b, v)
            /\ \A b : New(b)' = New(b)
            /\ Scope' = Scope
        BY <2>2, SameMeaning
      <4>2. \A e \in Elems(cmd.done) :
              /\ e.file \in Core => Base(e.file, e.old)
              /\ file'[e.file] = New(e.file)
              /\ cmd.op = "install" /\ e.file # "config" => e.old = Absent
        BY <1>1, <3>1, <3>2, <3>4, <3>7 DEF TxBody, TxFiles
      <4>3. \A b \in Core \ (Touched \cup {a}) : Base(b, file'[b])
        BY <3>1, <3>3, <3>4 DEF TxBody, TxFiles
      <4>4. Head(cmd'.todo) = a /\ Base(a, cmd'.held)
        BY <2>2, <3>5 DEF a
      <4> QED BY <2>2, <3>1, <3>3, <3>6, <4>1, <4>2, <4>3, <4>4 DEF TxBody, TxFiles, SameRest
    <3>9. TxProgress'
      BY <1>1, <2>2, <3>1, <3>2, <3>3, SameMeaning
      DEF TxBody, TxProgress, NothingDone, SameRest, Replacing, Clearers, Starting, Stopping, Halting, Trying, Resuming,
          Finishing
    <3> QED BY <1>1, <2>2, <3>1, <3>8, <3>9, RestTx DEF TxBody
  <2> QED BY <1>1, <2>5, <2>6, OwnedKept DEF TxInv
<1> QED BY <1>3, <1>4

LEMMA PlaceTx ==
    ASSUME LaunchInv, TxInv, Place
    PROVE  TxInv'
<1> DEFINE a == Head(cmd.todo)
           e == [file |-> a, old |-> cmd.held]
<1>1. /\ cmd.at = "place" /\ LaunchShape /\ UNCHANGED <<account, dirs, ops, torn>>
      /\ file = [x \in {"binary", "config", "plist", "mappings"} |-> file[x]]
  BY DEF Place, At, Step, LaunchInv, LaunchShape
<1>2. cmd.op # "none" /\ CmdTypes /\ TxTypes
  BY <1>1 DEF LaunchInv, CommandInv, TxInv, TxTypes
<1>3. /\ file' = [file EXCEPT ![a] = New(a)]
      /\ SameRest /\ cmd'.at = "activate" /\ cmd'.todo = Tail(cmd.todo) /\ cmd'.done = <<e>> \o cmd.done
  BY <1>1 DEF Place, LaunchShape, IsCmd, Fields, SameRest
<1>4. /\ cmd.todo \in Seq(Names) /\ cmd.todo # <<>> /\ cmd.done \in Seq(Entries) /\ cmd.held \in Content(a)
  BY <1>1, <1>2 DEF CmdTypes
<1>5. /\ a \in Names /\ cmd'.todo \in Seq(Names) /\ Elems(cmd.todo) = {a} \cup Elems(cmd'.todo)
      /\ Unique(cmd.todo) => Unique(cmd'.todo) /\ a \notin Elems(cmd'.todo)
  BY <1>3, <1>4, TailElems
<1>6. New(a) \in Content(a)
  BY <1>2, <1>5 DEF New, Content, CmdTypes
<1> HIDE DEF a
<1>7. e \in Entries /\ e.file = a /\ e.old = cmd.held
  BY <1>2, <1>4, <1>5 DEF Entries, Content, TxTypes, Absent, Manual, AtBoot, Present
<1> HIDE DEF e
<1>8. cmd'.done \in Seq(Entries) /\ Elems(cmd'.done) = {e} \cup Elems(cmd.done)
  BY <1>3, <1>4, <1>7, PushElems
<1>9. TxTypes'
  BY <1>1, <1>2, <1>3, <1>5, <1>6, <1>8, FileTypes
<1>10. ASSUME ~torn PROVE TxBody'
  <2>1. TxBody
    BY <1>2, <1>10 DEF TxInv
  <2>2. /\ cmd.op \in Replacing /\ a \in Elems(cmd.todo) /\ a \notin Touched /\ a \in Scope /\ Scope \subseteq Core
        /\ Touched \subseteq Scope
    BY <1>1, <1>5, <2>1 DEF TxBody, TxOps, TxFiles, Scope, Replacing, Core, Names
  <2>3. Touched' = Touched \cup {a} /\ Handled' = {} /\ Handled = {a}
    BY <1>1, <1>3, <1>7, <1>8 DEF Touched, Handled, a
  <2>4. \A b \in Core : file'[b] = IF b = a THEN New(a) ELSE file[b]
    BY <1>1, <1>3, <1>5 DEF Core
  <2>5. /\ \A b, v : Base(b, v)' <=> Base(b, v)
        /\ \A b : New(b)' = New(b)
        /\ Scope' = Scope /\ Targets' = Targets
    BY <1>3, SameMeaning
  <2>6. /\ Base(a, cmd.held)
        /\ cmd.op = "install" /\ a # "config" => cmd.held = Absent
    BY <1>1, <2>1 DEF TxBody, TxFiles, a
  <2>7. \A d \in Elems(cmd'.done) :
          /\ d.file \in Core => Base(d.file, d.old)
          /\ file'[d.file] = New(d.file)
          /\ cmd.op = "install" /\ d.file # "config" => d.old = Absent
    <3>1. \A d \in Elems(cmd.done) : d.file \in Core \ {a}
      BY <2>2 DEF Touched
    <3>2. \A d \in Elems(cmd.done) :
            /\ d.file \in Core => Base(d.file, d.old)
            /\ file'[d.file] = New(d.file)
            /\ cmd.op = "install" /\ d.file # "config" => d.old = Absent
      BY <1>1, <2>1, <2>2, <2>4, <3>1 DEF TxBody, TxFiles
    <3> QED BY <1>7, <1>8, <2>2, <2>4, <2>6, <3>2
  <2>8. \A b \in Core \ Touched' : Base(b, file'[b])
    BY <2>1, <2>3, <2>4 DEF TxBody, TxFiles
  <2>9. /\ Unique(cmd'.todo) /\ Elems(cmd'.todo) \cap Touched' = {}
        /\ Elems(cmd'.todo) \subseteq Scope /\ Touched' \subseteq Scope
    BY <1>5, <2>1, <2>2, <2>3 DEF TxBody, TxFiles
  <2>10. TxFiles'
    BY <1>3, <2>3, <2>5, <2>7, <2>8, <2>9 DEF TxFiles, SameRest
  <2>11. TxProgress'
    <3>1. Elems(cmd'.todo) \cup Touched' = Elems(cmd.todo) \cup Touched
      BY <1>5, <2>3
    <3>2. cmd.op # "upgrade" \/ cmd.res # "untidy"
      BY <1>1, <2>1 DEF TxBody, TxOps, Clearers
    <3> QED
      BY <1>1, <1>3, <2>1, <2>2, <2>5, <3>1, <3>2
      DEF TxBody, TxProgress, NothingDone, SameRest, Replacing, Clearers, Starting, Stopping, Halting, Trying, Resuming,
          Finishing
  <2> QED BY <1>1, <1>3, <2>1, <2>10, <2>11, RestTx DEF TxBody
<1> QED BY <1>1, <1>9, <1>10, OwnedKept DEF TxInv

\* The staged file cannot be renamed into place: the backup is renamed back.
LEMMA PlaceFailsTx ==
    ASSUME LaunchInv, TxInv, At("place"), Fault(FailedActivation),
           file' = [file EXCEPT ![Head(cmd.todo)] = cmd.held], UNCHANGED <<account, dirs, launchd>>
    PROVE  TxInv'
<1> DEFINE a == Head(cmd.todo)
<1>1. /\ cmd.at = "place" /\ LaunchShape /\ UNCHANGED <<account, dirs>>
      /\ file = [x \in {"binary", "config", "plist", "mappings"} |-> file[x]]
      /\ file' = [file EXCEPT ![a] = cmd.held]
  BY DEF At, LaunchInv, LaunchShape
<1>2. cmd.op # "none" /\ CmdTypes /\ TxTypes
  BY <1>1 DEF LaunchInv, CommandInv, TxInv, TxTypes
<1>3. SameData /\ cmd'.at = FailedActivation /\ ops' = ops /\ (torn => torn')
  BY <1>1, FaultData
<1>4. SameRest /\ cmd'.todo = cmd.todo /\ cmd'.done = cmd.done
  BY <1>1, <1>3 DEF SameRest, SameData, SameFiles
<1>5. FailedActivation \in {"undo", "unload", "restore"}
  BY FailureTargets
<1>6. /\ cmd.todo \in Seq(Names) /\ cmd.todo # <<>> /\ cmd.done \in Seq(Entries) /\ cmd.held \in Content(a)
  BY <1>1, <1>2 DEF CmdTypes
<1>7. a \in Names /\ a \in Elems(cmd.todo)
  BY <1>6, TailElems
<1> HIDE DEF a
<1>8. TxTypes'
  BY <1>1, <1>2, <1>3, <1>4, <1>5, <1>6, <1>7, FileTypes
<1>9. ASSUME ~torn PROVE TxBody'
  <2>1. TxBody
    BY <1>2, <1>9 DEF TxInv
  <2>2. cmd.op \in Replacing /\ a \notin Touched /\ a \in Scope /\ Scope \subseteq Core /\ Touched \subseteq Scope
    BY <1>1, <1>7, <2>1 DEF TxBody, TxOps, TxFiles, Scope, Replacing, Core, Names
  <2>3. Touched' = Touched /\ Handled' = {} /\ Handled = {a}
    BY <1>1, <1>3, <1>4, <1>5 DEF Touched, Handled, a
  <2>4. \A b \in Core : file'[b] = IF b = a THEN cmd.held ELSE file[b]
    BY <1>1, <1>7 DEF Core
  <2>5. /\ \A b, v : Base(b, v)' <=> Base(b, v)
        /\ \A b : New(b)' = New(b)
        /\ Scope' = Scope
    BY <1>4, SameMeaning
  <2>6. Base(a, cmd.held)
    BY <1>1, <2>1 DEF TxBody, TxFiles, a
  <2>7. \A d \in Elems(cmd.done) :
          /\ d.file \in Core => Base(d.file, d.old)
          /\ file'[d.file] = New(d.file)
          /\ cmd.op = "install" /\ d.file # "config" => d.old = Absent
    <3>1. \A d \in Elems(cmd.done) : d.file \in Core \ {a}
      BY <2>2 DEF Touched
    <3> QED BY <1>1, <2>1, <2>2, <2>4, <3>1 DEF TxBody, TxFiles
  <2>8. \A b \in Core \ Touched : Base(b, file'[b])
    BY <2>1, <2>3, <2>4, <2>6 DEF TxBody, TxFiles
  <2>9. TxFiles'
    BY <1>3, <1>4, <1>5, <2>1, <2>3, <2>5, <2>7, <2>8 DEF TxBody, TxFiles, SameRest
  <2>10. TxProgress'
    <3>1. cmd.op = "start" => cmd.done = <<>>
      BY <1>2, <1>6, <2>1, OneFile DEF TxBody
    <3>2. cmd.op # "upgrade" \/ cmd.res # "untidy"
      BY <1>1, <2>1 DEF TxBody, TxOps, Clearers
    <3> QED
      BY <1>3, <1>4, <2>2, <3>1, <3>2
      DEF TxProgress, NothingDone, SameRest, Replacing, Clearers, Starting, Stopping, Halting, Trying, Resuming,
          Finishing, FailedActivation
  <2> QED BY <1>1, <1>3, <1>4, <2>1, <2>9, <2>10, RestTx DEF TxBody
<1> QED BY <1>1, <1>3, <1>8, <1>9, OwnedKept DEF TxInv, SameRest

LEMMA UndoTx ==
    ASSUME LaunchInv, TxInv, Undo
    PROVE  TxInv'
<1> DEFINE h == Head(cmd.done)
<1>1. /\ cmd.at = "undo" /\ LaunchShape /\ UNCHANGED <<account, dirs, ops, torn>>
      /\ file = [x \in {"binary", "config", "plist", "mappings"} |-> file[x]]
  BY DEF Undo, At, Step, LaunchInv, LaunchShape
<1>2. cmd.op # "none" /\ CmdTypes /\ TxTypes
  BY <1>1 DEF LaunchInv, CommandInv, TxInv, TxTypes
<1>3. CASE cmd.done = <<>>
  <2>1. Goto("unstore") /\ UNCHANGED host
    BY <1>1, <1>3 DEF Undo, host
  <2> QED BY <1>1, <1>3, <2>1, GotoData, HostTx DEF Edge
<1>4. CASE cmd.done # <<>>
  <2>1. /\ file' = [file EXCEPT ![h.file] = h.old]
        /\ SameRest /\ cmd'.at = cmd.at /\ cmd'.todo = cmd.todo /\ cmd'.done = Tail(cmd.done)
    BY <1>1, <1>4 DEF Undo, LaunchShape, IsCmd, Fields, SameRest
  <2>2. cmd.done \in Seq(Entries)
    BY <1>2 DEF CmdTypes
  <2>3. h \in Entries /\ cmd'.done \in Seq(Entries) /\ Elems(cmd.done) = {h} \cup Elems(cmd'.done)
    BY <1>4, <2>1, <2>2, TailElems
  <2> HIDE DEF h
  <2>4. h.file \in Names /\ h.old \in Content(h.file)
    BY <2>3 DEF Entries
  <2>5. TxTypes'
    BY <1>1, <1>2, <2>1, <2>3, <2>4, FileTypes DEF CmdTypes
  <2>6. ASSUME ~torn PROVE TxBody'
    <3>1. TxBody
      BY <1>2, <2>6 DEF TxInv
    <3>2. Touched = Touched' \cup {h.file} /\ Handled' = {} /\ Handled = {}
      BY <1>1, <2>1, <2>3 DEF Touched, Handled
    <3>3. \A b \in Core : file'[b] = IF b = h.file THEN h.old ELSE file[b]
      BY <1>1, <2>1, <2>4 DEF Core
    <3>4. /\ \A b, v : Base(b, v)' <=> Base(b, v)
          /\ Scope' = Scope
      BY <2>1, SameMeaning
    <3>5. h.file \in Core => Base(h.file, h.old)
      BY <2>3, <3>1 DEF TxBody, TxFiles
    <3>6. \A b \in Core \ Touched' : Base(b, file'[b])
      BY <3>1, <3>2, <3>3, <3>5 DEF TxBody, TxFiles
    <3>7. \A d \in Elems(cmd'.done) :
            /\ d.file \in Core => Base(d.file, d.old)
            /\ cmd.op = "install" /\ d.file # "config" => d.old = Absent
      BY <2>3, <3>1 DEF TxBody, TxFiles
    <3>8. TxFiles'
      BY <1>1, <2>1, <3>1, <3>2, <3>4, <3>6, <3>7 DEF TxBody, TxFiles, SameRest
    <3>9. TxProgress'
      <4>1. cmd.op # "upgrade" \/ cmd.res # "untidy"
        BY <1>1, <3>1 DEF TxBody, TxOps, Clearers
      <4> QED
        BY <1>1, <2>1, <4>1
        DEF TxProgress, NothingDone, SameRest, Replacing, Clearers, Starting, Stopping, Halting, Trying, Resuming,
            Finishing
    <3> QED BY <1>1, <2>1, <3>1, <3>8, <3>9, RestTx DEF TxBody
  <2> QED BY <1>1, <2>5, <2>6, OwnedKept DEF TxInv
<1> QED BY <1>3, <1>4

LEMMA RemoveTx ==
    ASSUME LaunchInv, TxInv, Remove
    PROVE  TxInv'
<1> DEFINE a == Head(cmd.todo)
           e == [file |-> a, old |-> file[a]]
<1>1. /\ cmd.at = "remove" /\ LaunchShape /\ UNCHANGED <<account, dirs, ops, torn>> /\ cmd.todo # <<>>
      /\ file = [x \in {"binary", "config", "plist", "mappings"} |-> file[x]]
  BY DEF Remove, At, Step, LaunchInv, LaunchShape
<1>2. cmd.op # "none" /\ CmdTypes /\ TxTypes
  BY <1>1 DEF LaunchInv, CommandInv, TxInv, TxTypes
<1>3. /\ file' = [file EXCEPT ![a] = Absent]
      /\ SameRest /\ cmd'.at = cmd.at /\ cmd'.todo = Tail(cmd.todo)
      /\ cmd'.done = IF file[a] = Absent THEN cmd.done ELSE <<e>> \o cmd.done
  BY <1>1 DEF Remove, LaunchShape, IsCmd, Fields, SameRest
<1>4. cmd.todo \in Seq(Names) /\ cmd.done \in Seq(Entries)
  BY <1>2 DEF CmdTypes
<1>5. /\ a \in Names /\ cmd'.todo \in Seq(Names) /\ Elems(cmd.todo) = {a} \cup Elems(cmd'.todo)
      /\ Unique(cmd.todo) => Unique(cmd'.todo) /\ a \notin Elems(cmd'.todo)
  BY <1>1, <1>3, <1>4, TailElems
<1>6. Absent \in Content(a) /\ file[a] \in Content(a)
  BY <1>2, <1>5 DEF Content, Absent, Present, TxTypes
<1> HIDE DEF a
<1>7. e \in Entries /\ e.file = a /\ e.old = file[a]
  BY <1>2, <1>5, <1>6 DEF Entries, Content, TxTypes, Absent, Manual, AtBoot, Present
<1> HIDE DEF e
<1>8. /\ cmd'.done \in Seq(Entries)
      /\ file[a] = Absent => Elems(cmd'.done) = Elems(cmd.done)
      /\ file[a] # Absent => Elems(cmd'.done) = {e} \cup Elems(cmd.done)
  BY <1>3, <1>4, <1>7, PushElems
<1>9. TxTypes'
  BY <1>1, <1>2, <1>3, <1>5, <1>6, <1>8, FileTypes
<1>10. ASSUME ~torn PROVE TxBody'
  <2>1. TxBody
    BY <1>2, <1>10 DEF TxInv
  <2>2. /\ cmd.op \in Clearers /\ a \in Elems(cmd.todo) /\ a \notin Touched /\ a \in Scope /\ Touched \subseteq Scope
    BY <1>1, <1>5, <2>1 DEF TxBody, TxOps, TxFiles
  <2>3. /\ Touched' = IF file[a] = Absent THEN Touched ELSE Touched \cup {a}
        /\ Handled' = {} /\ Handled = {}
    BY <1>1, <1>3, <1>7, <1>8 DEF Touched, Handled
  <2>4. \A b \in Core : file'[b] = IF b = a THEN Absent ELSE file[b]
    BY <1>1, <1>3, <1>5 DEF Core
  <2>5. /\ \A b, v : Base(b, v)' <=> Base(b, v)
        /\ Scope' = Scope /\ Victims' = Victims
    BY <1>3, SameMeaning
  <2>6. a \in Core => Base(a, file[a])
    BY <2>1, <2>2, <2>3 DEF TxBody, TxFiles
  <2>7. \A d \in Elems(cmd'.done) : d.file \in Core => Base(d.file, d.old)
    BY <1>7, <1>8, <2>1, <2>6 DEF TxBody, TxFiles
  <2>8. \A b \in Core \ Touched' : Base(b, file'[b])
    BY <2>1, <2>3, <2>4, <2>6 DEF TxBody, TxFiles
  <2>9. /\ Unique(cmd'.todo) /\ Elems(cmd'.todo) \cap Touched' = {}
        /\ Elems(cmd'.todo) \subseteq Scope /\ Touched' \subseteq Scope
    BY <1>5, <2>1, <2>2, <2>3 DEF TxBody, TxFiles
  <2>10. TxFiles'
    BY <1>1, <1>3, <2>2, <2>3, <2>5, <2>7, <2>8, <2>9 DEF TxFiles, SameRest, Clearers, Replacing
  <2>11. TxProgress'
    <3>1. \A b \in Victims \ Elems(cmd'.todo) : file'[b] = Absent
      BY <1>1, <1>5, <2>1, <2>2, <2>4 DEF TxBody, TxProgress, Victims, Core
    <3> QED
      BY <1>1, <1>3, <2>2, <2>5, <3>1
      DEF TxProgress, NothingDone, SameRest, Replacing, Clearers, Starting, Stopping, Halting, Trying, Resuming,
          Finishing
  <2> QED BY <1>1, <1>3, <2>1, <2>10, <2>11, RestTx DEF TxBody
<1> QED BY <1>1, <1>9, <1>10, OwnedKept DEF TxInv

----------------------------------------------------------------------------
(* Calls that fail *)

LEMMA PrepareFailsTx ==
    ASSUME LaunchInv, TxInv, PrepareFails
    PROVE  TxInv'
<1>1. CASE \E l \in {"ensure", "user", "ungroup", "storage", "activate"},
              to \in {EarlyFailure, "ungroup", "purge", FailedActivation} :
             /\ FaultAt(l, to)
             /\ \/ l = "ensure" /\ to = EarlyFailure
                \/ l = "user" /\ to = "ungroup"
                \/ l = "ungroup"
                \/ l = "storage" /\ to = "purge"
                \/ l = "activate" /\ to = FailedActivation /\ cmd.todo # <<>>
  <2>1. PICK l \in {"ensure", "user", "ungroup", "storage", "activate"},
             to \in {EarlyFailure, "ungroup", "purge", FailedActivation} :
             /\ FaultAt(l, to)
             /\ \/ l = "ensure" /\ to = EarlyFailure
                \/ l = "user" /\ to = "ungroup"
                \/ l = "ungroup"
                \/ l = "storage" /\ to = "purge"
                \/ l = "activate" /\ to = FailedActivation /\ cmd.todo # <<>>
    BY <1>1
  <2>2. cmd.at = l /\ Fault(to) /\ UNCHANGED host /\ LaunchShape
    BY <2>1 DEF FaultAt, At, LaunchInv
  <2>3. SameData /\ cmd'.at = to /\ ops' = ops /\ (torn' <=> torn \/ cmd.back)
    BY <2>2, FaultData
  <2>4. l = "ungroup" => torn'
    BY <2>2, <2>3 DEF LaunchInv, CommandInv, Undoing
  <2>5. to # "place"
    BY <2>1, FailureTargets
  <2>6. torn' \/ Edge
    <3>1. CASE l = "ungroup"
      BY <2>4, <3>1
    <3>2. CASE l = "ensure"
      <4>1. cmd.at = "ensure" /\ cmd'.at = EarlyFailure /\ EarlyFailure # "storage"
        BY <2>1, <2>2, <2>3, <3>2, FailureTargets
      <4> QED BY <4>1 DEF Edge
    <3>3. CASE l \in {"user", "storage"}
      <4>1. cmd.at = l /\ cmd'.at = IF l = "user" THEN "ungroup" ELSE "purge"
        BY <2>1, <2>2, <2>3, <3>3
      <4> QED BY <3>3, <4>1 DEF Edge
    <3>4. CASE l = "activate"
      <4>1. cmd.at = "activate" /\ cmd'.at = FailedActivation /\ cmd.todo # <<>>
        BY <2>1, <2>2, <2>3, <3>4
      <4> QED BY <4>1 DEF Edge
    <3> QED BY <3>1, <3>2, <3>3, <3>4
  <2> QED BY <2>1, <2>2, <2>3, <2>5, <2>6, HostTx
<1>2. CASE /\ At("place") /\ Fault(FailedActivation)
           /\ file' = [file EXCEPT ![Head(cmd.todo)] = cmd.held]
           /\ UNCHANGED <<account, dirs, launchd>>
  BY <1>2, PlaceFailsTx
<1> QED BY <1>1, <1>2 DEF PrepareFails

LEMMA UninstallFailsTx ==
    ASSUME LaunchInv, TxInv, UninstallFails
    PROVE  TxInv'
<1>1. CASE \E l \in {"examine", "remove", "deluser"} : FaultAt(l, IF l = "examine" THEN "restore" ELSE "undo")
  <2>1. PICK l \in {"examine", "remove", "deluser"} : FaultAt(l, IF l = "examine" THEN "restore" ELSE "undo")
    BY <1>1
  <2>2. cmd.at = l /\ Fault(IF l = "examine" THEN "restore" ELSE "undo") /\ UNCHANGED host /\ LaunchShape
    BY <2>1 DEF FaultAt, At, LaunchInv
  <2>3. SameData /\ cmd'.at = (IF l = "examine" THEN "restore" ELSE "undo") /\ ops' = ops /\ (torn' <=> torn \/ cmd.back)
    BY <2>2, FaultData
  <2> QED BY <2>2, <2>3, HostTx DEF Edge
<1>2. CASE At("delgroup") /\ Fault("undo") /\ account' = WholeAccount /\ UNCHANGED <<file, dirs, launchd>>
  <2>1. /\ cmd.at = "delgroup" /\ SameData /\ cmd'.at = "undo" /\ ops' = ops /\ (torn => torn')
        /\ file' = file /\ dirs' = dirs
    BY <1>2, FaultData DEF LaunchInv, At
  <2>2. cmd.op # "none" /\ TxTypes
    BY <2>1 DEF LaunchInv, CommandInv, TxInv
  <2>3. TxTypes'
    BY <2>1, <2>2, TypesKept DEF TxTypes
  <2>4. ~torn' => TxBody' /\ Owned'
    BY <1>2, <2>1, <2>2, ChangeTx DEF TxInv, SameData, Change
  <2> QED BY <2>3, <2>4 DEF TxInv
<1> QED BY <1>1, <1>2 DEF UninstallFails

\* Nothing is known of what is left when a roll-back fails.
LEMMA RollbackFailsTx ==
    ASSUME LaunchInv, TxInv, RollbackFails \/ GiveUp
    PROVE  TxInv'
<1>0. LaunchShape /\ TxTypes
  BY DEF LaunchInv, TxInv
<1>1. CASE \E l \in Undoing, to \in {"recover", "undo", "purge", "restore"} :
             cmd.at = l /\ Fault(to) /\ file' = file /\ dirs' = dirs
  <2>1. PICK l \in Undoing, to \in {"recover", "undo", "purge", "restore"} :
             cmd.at = l /\ Fault(to) /\ file' = file /\ dirs' = dirs
    BY <1>1
  <2>2. cmd.back
    BY <2>1 DEF LaunchInv, CommandInv
  <2>3. SameData /\ cmd'.at = to /\ ops' = ops /\ torn'
    BY <1>0, <2>1, <2>2, FaultData
  <2>4. TxTypes'
    BY <1>0, <2>1, <2>3, TypesKept DEF TxTypes
  <2> QED BY <2>3, <2>4 DEF TxInv
<1>2. CASE /\ cmd.at = "undo" /\ cmd.done # <<>>
           /\ file' = [file EXCEPT ![Head(cmd.done).file] = Absent]
           /\ cmd' = [cmd EXCEPT !.done = Tail(@), !.clean = FALSE, !.up = @ /\ cmd.op # "start"]
           /\ torn' = TRUE
           /\ UNCHANGED <<account, dirs, ops>>
  <2>1. cmd.op # "none" /\ CmdTypes
    BY <1>2 DEF LaunchInv, CommandInv, TxInv, TxTypes
  <2>2. SameRest /\ cmd'.at = cmd.at /\ cmd'.todo = cmd.todo /\ cmd'.done = Tail(cmd.done)
    BY <1>0, <1>2 DEF LaunchShape, IsCmd, Fields, SameRest
  <2>3. cmd.done \in Seq(Entries)
    BY <2>1 DEF CmdTypes
  <2>4. Head(cmd.done) \in Entries /\ cmd'.done \in Seq(Entries)
    BY <1>2, <2>2, <2>3, TailElems
  <2>5. Head(cmd.done).file \in Names /\ Absent \in Content(Head(cmd.done).file)
    BY <1>0, <2>4 DEF Entries, Content, Absent, TxTypes, Present
  <2>6. file = [x \in {"binary", "config", "plist", "mappings"} |-> file[x]]
    BY <1>0 DEF LaunchShape
  <2>7. TxTypes'
    BY <1>0, <1>2, <2>1, <2>2, <2>4, <2>5, <2>6, FileTypes DEF CmdTypes
  <2> QED BY <1>2, <2>7 DEF TxInv
<1>3. CASE GiveUp
  <2>1. cmd.at = "giveup" /\ torn' = torn /\ torn /\ ops' = ops /\ UNCHANGED host
    BY <1>3 DEF GiveUp, At, Step, LaunchInv, CommandInv
  <2>2. PICK c : c = To("undo")
    OBVIOUS
  <2>3. /\ IsCmd(c) /\ c.at = "undo" /\ c.op = cmd.op /\ c.ver = cmd.ver /\ c.plist = cmd.plist /\ c.created = cmd.created
        /\ c.saved = cmd.saved /\ c.todo = cmd.todo /\ c.held = cmd.held /\ c.done = cmd.done
        /\ c.res = cmd.res /\ c.was = cmd.was /\ c.again = cmd.again /\ c.left = cmd.left
    BY <1>0, <2>2, ToData
  <2>4. cmd' = [c EXCEPT !.up = FALSE]
    BY <1>3, <2>2 DEF GiveUp
  <2>5. SameData /\ cmd'.at = "undo"
    BY <2>3, <2>4 DEF IsCmd, Fields, SameData, SameFiles
  <2>6. TxTypes'
    BY <1>0, <2>1, <2>5, TypesKept DEF TxTypes, host
  <2> QED BY <2>1, <2>6 DEF TxInv
<1> QED
  BY <1>1, <1>2, <1>3 DEF RollbackFails, FaultAt, At, Undoing, host

----------------------------------------------------------------------------
(* The beginning and the end of a command *)

\* Between commands only the files and the directories count.
LEMMA IdleTx ==
    ASSUME TxTypes, cmd' = Idle, ops' = ops, file' = file, dirs' \in Dirs, ~torn' => Owned'
    PROVE  TxInv'
<1>1. cmd'.op = "none"
  BY IdleFields
<1>2. \A a \in Names : Content(a)' = Content(a)
  BY DEF Content
<1> QED BY <1>1, <1>2 DEF TxInv, TxTypes

LEMMA EndTx ==
    ASSUME LaunchInv, TxInv,
           \/ (Commit \/ Fail \/ Succeed \/ Clear) /\ cmd' = Idle
           \/ Kill \/ Reboot
    PROVE  TxInv'
<1>1. /\ TxTypes /\ cmd' = Idle /\ ops' = ops /\ file' = file
      /\ dirs' = dirs \/ dirs' = NoDirs \/ dirs' = [dirs EXCEPT !.worker = "absent"]
      /\ account' = account /\ (torn => torn')
  <2>0. CASE (Commit \/ Fail \/ Succeed) /\ cmd' = Idle
    BY <2>0 DEF TxInv, Commit, Fail, Succeed, End, Report, Step, host
  <2>1. CASE Clear
    BY <2>1 DEF TxInv, Clear, Report
  <2>2. CASE Kill
    BY <2>2 DEF TxInv, Kill, host
  <2>3. CASE Reboot
    BY <2>3 DEF TxInv, Reboot
  <2> QED BY <2>0, <2>1, <2>2, <2>3
<1>2. dirs' \in Dirs /\ dirs'.data \in {dirs.data, "absent"}
  BY <1>1 DEF TxTypes, NoDirs, Dirs, Owners
<1>3. ~torn' => Owned'
  BY <1>1, <1>2 DEF TxInv, Owned
<1> QED BY <1>1, <1>2, <1>3, IdleTx

\* The new files are committed, and the command goes on or reports what it left behind.
LEMMA CommitTx ==
    ASSUME LaunchInv, TxInv, "install" \notin CommitFaults,
           (Commit /\ cmd' # Idle) \/ CommitFails
    PROVE  TxInv'
<1>1. cmd.at = "commit" /\ LaunchShape /\ ops' = ops /\ torn' = torn /\ UNCHANGED host
  BY DEF Commit, CommitFails, At, Step, End, Report, LaunchInv
<1>2. cmd.op # "none" /\ CmdTypes /\ TxTypes
  BY <1>1 DEF LaunchInv, CommandInv, TxInv, TxTypes
<1>3. /\ cmd'.op = cmd.op /\ cmd'.ver = cmd.ver /\ cmd'.plist = cmd.plist /\ cmd'.todo = cmd.todo
      /\ cmd'.held = cmd.held /\ cmd'.done = cmd.done /\ cmd'.was = cmd.was /\ cmd'.again = cmd.again
      /\ cmd'.created = cmd.created /\ cmd'.saved = cmd.saved /\ cmd'.left = cmd.left /\ cmd'.res = "untidy"
      /\ \/ cmd'.at = "start" /\ cmd'.ok = "ok" /\ cmd'.no = "fail" /\ cmd.op = "start"
         \/ cmd'.at = "fail" /\ cmd.op # "install"
  <2>1. CASE Commit /\ cmd' # Idle
    <3>1. /\ cmd.op = "start"
          /\ cmd' = [cmd EXCEPT !.at = "start", !.ok = "ok", !.no = "fail", !.res = "untidy"]
      BY <2>1 DEF Commit, End, Report
    <3> QED BY <1>1, <3>1 DEF LaunchShape, IsCmd, Fields
  <2>2. CASE CommitFails
    <3>1. cmd.op # "install"
      BY <2>2 DEF CommitFails
    <3>2. PICK c : c = To("fail")
      OBVIOUS
    <3>3. /\ IsCmd(c) /\ c.at = "fail" /\ c.op = cmd.op /\ c.ver = cmd.ver /\ c.plist = cmd.plist
          /\ c.created = cmd.created /\ c.saved = cmd.saved /\ c.todo = cmd.todo /\ c.held = cmd.held
          /\ c.done = cmd.done /\ c.was = cmd.was /\ c.again = cmd.again /\ c.left = cmd.left
      BY <1>1, <3>2, ToData
    <3>4. cmd' = [c EXCEPT !.clean = FALSE, !.res = "untidy"]
      BY <2>2, <3>1, <3>2 DEF CommitFails
    <3> QED BY <3>1, <3>3, <3>4 DEF IsCmd, Fields
  <2> QED BY <2>1, <2>2
<1>4. TxTypes'
  <2>1. Entries' = Entries /\ \A a \in Names : Content(a)' = Content(a)
    BY <1>1 DEF Content, Entries
  <2>2. CmdTypes'
    BY <1>1, <1>2, <1>3, <2>1 DEF CmdTypes, InstShape, Content
  <2> QED BY <1>1, <1>2, <2>1, <2>2 DEF TxTypes, host
<1>5. ASSUME ~torn PROVE TxBody'
  <2>1. TxBody /\ cmd.op \in {"upgrade", "start"} /\ file' = file /\ account' = account /\ dirs' = dirs
    BY <1>1, <1>2, <1>3, <1>5 DEF TxInv, TxBody, TxOps, Replacing, host
  <2>2. cmd.todo = <<>> /\ Targets \subseteq Touched
    BY <1>1, <2>1, NoElems DEF TxBody, TxProgress, Replacing
  <2>3. TxOps'
    BY <1>3, <2>1 DEF TxBody, TxOps, Replacing, Clearers, Starting, Stopping, Trying, Finishing, Retreating
  <2>4. TxFiles'
    <3>1. Touched' = Touched /\ Handled' = {} /\ Handled = {} /\ Scope' = Scope /\ \A a : New(a)' = New(a)
      BY <1>1, <1>3 DEF Touched, Handled, Scope, New
    <3>2. cmd.op = "start" => cmd.was.config # Absent /\ Touched = {"config"}
      BY <1>1, <2>1, <2>2 DEF TxBody, TxBefore, TxFiles, Scope, Targets
    <3>3. \A a, v : Base(a, v) => Base(a, v)'
      BY <1>3, <3>2 DEF Base
    <3> QED BY <1>1, <1>3, <2>1, <3>1, <3>3 DEF TxBody, TxFiles
  <2>5. TxProgress'
    <3>1. Targets' = Targets /\ Touched' = Touched
      BY <1>3 DEF Targets, Touched
    <3> QED
      BY <1>3, <2>1, <2>2, <3>1
      DEF TxProgress, NothingDone, Replacing, Clearers, Starting, Stopping, Halting, Trying, Resuming, Finishing
  <2>6. TxBefore'
    BY <1>1, <1>3, <2>1 DEF TxBody, TxBefore
  <2>7. TxIdentity'
    BY <1>1, <1>3, <2>1
    DEF TxBody, TxIdentity, Undone, Starting, Stopping, Halting, Trying, Resuming
  <2>8. TxStorage'
    BY <1>1, <1>3, <2>1
    DEF TxBody, TxStorage, Undone, Adopted, Starting, Stopping, Halting, Trying, Resuming
  <2> QED BY <2>3, <2>4, <2>5, <2>6, <2>7, <2>8 DEF TxBody
<1>6. ~torn' => Owned'
  BY <1>1, OwnedKept DEF host
<1> QED BY <1>1, <1>4, <1>5, <1>6 DEF TxInv

LEMMA ClearFailsTx ==
    ASSUME LaunchInv, TxInv, ClearFails
    PROVE  TxInv'
<1>1. cmd.at = "clear" /\ LaunchShape /\ ops' = ops /\ torn' = torn /\ UNCHANGED host
  BY DEF ClearFails, At, LaunchInv
<1>2. cmd.op # "none" /\ CmdTypes /\ TxTypes
  BY <1>1 DEF LaunchInv, CommandInv, TxInv, TxTypes
<1>3. /\ cmd'.op = cmd.op /\ cmd'.ver = cmd.ver /\ cmd'.plist = cmd.plist /\ cmd'.todo = cmd.todo
      /\ cmd'.held = cmd.held /\ cmd'.done = cmd.done /\ cmd'.was = cmd.was /\ cmd'.again = cmd.again
      /\ cmd'.created = cmd.created /\ cmd'.saved = cmd.saved /\ cmd'.res = "untidy" /\ cmd'.at = cmd.at
      /\ cmd'.left = cmd.left
  BY <1>1 DEF ClearFails, LaunchShape, IsCmd, Fields
<1>4. TxTypes'
  <2>1. Entries' = Entries /\ \A a \in Names : Content(a)' = Content(a)
    BY <1>1 DEF Content, Entries
  <2>2. CmdTypes'
    BY <1>1, <1>2, <1>3, <2>1 DEF CmdTypes, InstShape, Content
  <2> QED BY <1>1, <1>2, <2>1, <2>2 DEF TxTypes, host
<1>5. ASSUME ~torn PROVE TxBody'
  <2>1. TxBody /\ cmd.op \in Clearers /\ file' = file /\ account' = account /\ dirs' = dirs
    BY <1>1, <1>2, <1>5 DEF TxInv, TxBody, TxOps, host
  <2> USE <1>1, <1>3, <2>1 DEF TxBody, Clearers, Replacing, Starting, Stopping, Halting, Trying, Resuming, Finishing,
                               Retreating
  <2>2. TxOps'
    BY DEF TxOps
  <2>3. TxFiles'
    <3>1. Touched' = Touched /\ Handled' = {} /\ Handled = {} /\ Scope' = Scope /\ \A a : New(a)' = New(a)
      BY DEF Touched, Handled, Scope, New
    <3>2. \A a, v : Base(a, v) => Base(a, v)'
      BY DEF Base
    <3> QED BY <3>1, <3>2 DEF TxFiles
  <2>4. TxProgress'
    <3>1. Victims' = Victims
      BY DEF Victims
    <3> QED BY <3>1 DEF TxProgress, NothingDone
  <2>5. TxBefore'
    BY DEF TxBefore
  <2>6. TxIdentity'
    BY DEF TxIdentity, Undone
  <2>7. TxStorage'
    BY DEF TxStorage, Undone, Adopted
  <2> QED BY <2>2, <2>3, <2>4, <2>5, <2>6, <2>7
<1>6. ~torn' => Owned'
  BY <1>1, OwnedKept DEF host
<1> QED BY <1>1, <1>4, <1>5, <1>6 DEF TxInv

\* The second attempt of `service start`
LEMMA AgainTx ==
    ASSUME LaunchInv, TxInv, Fail, cmd.again
    PROVE  TxInv'
<1>1. /\ cmd.at = "fail" /\ ops' = ops /\ torn' = torn /\ UNCHANGED host
      /\ cmd' = [Idle EXCEPT !.op = "start", !.at = "sync", !.todo = <<"config">>,
                             !.ver = cmd.was.config, !.was = cmd.was, !.clean = cmd.clean, !.res = cmd.res]
  BY DEF Fail, At, Step
<1>2. cmd.op # "none" /\ CmdTypes /\ TxTypes
  BY <1>1 DEF LaunchInv, CommandInv, TxInv, TxTypes
<1>3. /\ cmd'.op = "start" /\ cmd'.at = "sync" /\ cmd'.todo = <<"config">> /\ cmd'.ver = cmd.was.config
      /\ cmd'.was = cmd.was /\ cmd'.res = cmd.res /\ cmd'.done = <<>> /\ cmd'.saved = <<>> /\ cmd'.created = FALSE
      /\ cmd'.plist = Absent /\ cmd'.again = FALSE /\ cmd'.left = FALSE
  BY <1>1 DEF Idle
<1>4. cmd'.todo \in Seq(Names) /\ Elems(cmd'.todo) = {"config"} /\ Unique(cmd'.todo)
  BY <1>3 DEF Names, Core, Elems, Unique
<1>5. TxTypes'
  <2>1. Entries' = Entries /\ \A a \in Names : Content(a)' = Content(a)
    BY <1>1 DEF Content, Entries
  <2>2. cmd'.ver \in 0 .. Present + ops /\ cmd'.done \in Seq(Entries)
    BY <1>2, <1>3 DEF CmdTypes, Content, Core
  <2>3. CmdTypes'
    <3>1. ops' = ops
      BY <1>1
    <3>2. InstShape(cmd'.was) /\ cmd'.was.account \in Accounts /\ cmd'.was.data \in Owners
      BY <1>2, <1>3 DEF CmdTypes
    <3>3. \A a \in Core : cmd'.was[a] \in Content(a)'
      BY <1>2, <1>3, <2>1 DEF CmdTypes, Names
    <3>4. cmd'.res \in {"failed", "untidy"}
      BY <1>2, <1>3 DEF CmdTypes
    <3>5. /\ cmd'.at # "place" /\ cmd'.saved = <<>> /\ cmd'.created = FALSE /\ cmd'.plist = Absent
          /\ cmd'.left = FALSE
      BY <1>3
    <3> QED BY <1>4, <2>1, <2>2, <3>1, <3>2, <3>3, <3>4, <3>5 DEF CmdTypes, InstShape
  <2> QED BY <1>1, <1>2, <2>1, <2>3 DEF TxTypes, host
<1>6. ASSUME ~torn PROVE TxBody'
  <2>1. TxBody /\ cmd.op = "start" /\ file' = file /\ account' = account /\ dirs' = dirs
    BY <1>1, <1>2, <1>6 DEF TxInv, TxBody, TxOps, host
  <2>2. cmd.res \in {"failed", "untidy"}
    BY <1>2 DEF CmdTypes
  <2>3. TxOps'
    BY <1>3 DEF TxOps, Replacing, Clearers, Starting, Stopping, Trying, Finishing, Retreating
  <2>4. \A a \in Core : Base(a, file[a])
    <3>1. Handled = {} /\ Touched \subseteq {"config"}
      BY <1>1, <2>1 DEF Handled, TxBody, TxFiles, Scope
    <3>2. \A a \in Core \ {"config"} : Base(a, file[a])
      BY <2>1, <3>1 DEF TxBody, TxFiles
    <3>3. CASE "config" \notin Touched
      BY <2>1, <3>1, <3>3 DEF TxBody, TxFiles
    <3>4. CASE "config" \in Touched
      <4>1. cmd.res = "untidy"
        BY <1>1, <2>1, <2>2, <3>4, NoElems DEF TxBody, TxProgress, NothingDone, Touched
      <4>2. file["config"] = cmd.ver
        BY <1>1, <2>1, <3>4 DEF TxBody, TxFiles, Touched, New, Replacing
      <4>3. cmd.ver # Absent
        BY <2>1, <4>1 DEF TxBody, TxBefore
      <4>4. Base("config", file["config"])
        BY <2>1, <4>1, <4>2, <4>3 DEF Base
      <4> QED BY <3>2, <4>4
    <3> QED BY <3>3, <3>4
  <2>5. TxFiles'
    <3>1. Elems(cmd'.done) = {} /\ Touched' = {} /\ Handled' = {} /\ Scope' = {"config"}
      BY <1>3, NoElems DEF Touched, Handled, Scope
    <3>2. \A a, v : Base(a, v)' <=> Base(a, v)
      BY <1>3, <2>1 DEF Base
    <3> QED BY <1>3, <1>4, <2>1, <2>4, <3>1, <3>2 DEF TxFiles
  <2>6. TxProgress'
    BY <1>3, <1>4
    DEF TxProgress, Targets, Replacing, Clearers, Starting, Stopping, Halting, Trying, Resuming, Finishing
  <2>7. TxBefore'
    BY <1>3, <2>1 DEF TxBody, TxBefore
  <2>8. account = cmd.was.account /\ dirs.data = cmd.was.data
    BY <1>1, <2>1 DEF TxBody, TxIdentity, TxStorage, Undone, Adopted, StaysBehind
  <2>9. TxIdentity' /\ TxStorage'
    BY <1>3, <2>1, <2>8 DEF TxIdentity, TxStorage, Undone, Starting, Stopping, Halting, Trying, Resuming
  <2> QED BY <2>3, <2>5, <2>6, <2>7, <2>9 DEF TxBody
<1>7. ~torn' => Owned'
  BY <1>1, OwnedKept DEF host
<1> QED BY <1>1, <1>5, <1>6, <1>7 DEF TxInv

\* Nothing is noted yet.
Blank(r) ==
    /\ r = [x \in Fields |-> r[x]]
    /\ r.done = <<>> /\ r.saved = <<>> /\ r.res = "failed"
    /\ r.created = FALSE /\ r.up = FALSE /\ r.back = FALSE /\ r.left = FALSE

\* What a command is told to do
Task(op, r) ==
    /\ Blank(r)
    /\ r.plist \in {Absent, Manual, AtBoot} /\ r.again \in BOOLEAN /\ (r.again => op = "start")
    /\ r.todo \in Seq(Names) /\ Unique(r.todo)
    /\ op = "install" => r.plist # Absent /\ Elems(r.todo) = Core
    /\ op = "upgrade" => /\ r.plist \in {Manual, AtBoot, file.plist}
                         /\ {"binary", "plist"} \subseteq Elems(r.todo) /\ Elems(r.todo) \subseteq Core
    /\ op = "start" => Elems(r.todo) = {"config"}
    /\ op = "uninstall" => Elems(r.todo) = {"plist", "binary"}
    /\ op = "purge" => Elems(r.todo) = Names
    /\ op \in {"stop", "restart"} => r.todo = <<>>
    /\ op = "stop" => r.ok = "ok"

First(op) == CASE op \in {"install", "upgrade", "restart", "stop"} -> op
               [] op = "start" -> "sync"
               [] OTHER -> "uninstall"

\* A command notes the installation it begins with.
Begun ==
    /\ cmd'.op # "none" /\ cmd'.was = Inst /\ last' = last /\ torn' = torn
    /\ ~cmd'.up /\ ~cmd'.back /\ cmd'.at \in {"install", "upgrade", "restart", "stop", "sync", "uninstall"}
    /\ UNCHANGED <<file, job, svc>>

LEMMA BeginTx ==
    ASSUME LaunchInv, TxInv, NEW op \in Replacing \cup Clearers \cup {"stop", "restart"}, NEW r, Task(op, r),
           Begin(op, First(op), r)
    PROVE  TxInv' /\ Begun
<1>1. /\ ops' = ops + 1 /\ ops < MaxOps /\ torn' = torn /\ file' = file /\ dirs' = dirs /\ account' = account
      /\ cmd' = [r EXCEPT !.op = op, !.at = First(op), !.ver = Present + ops + 1, !.was = Inst]
      /\ TxTypes /\ ops \in Nat /\ account \in Accounts /\ MaxOps \in Nat
  BY LaunchAssumption DEF Begin, host, TxInv, TxTypes, LaunchInv, LaunchShape, Accounts
<1>2. /\ cmd'.op = op /\ cmd'.at = First(op) /\ cmd'.ver = Present + ops + 1 /\ cmd'.was = Inst
      /\ cmd'.done = <<>> /\ cmd'.saved = <<>> /\ cmd'.created = FALSE /\ cmd'.res = "failed"
      /\ cmd'.plist = r.plist /\ cmd'.again = r.again /\ cmd'.todo = r.todo /\ cmd'.ok = r.ok
      /\ cmd'.left = FALSE
  BY <1>1 DEF Task, Blank, Fields
<1>3. \A a \in Names : file[a] \in Content(a)'
  BY <1>1 DEF TxTypes, Content, Present
<1>4. /\ InstShape(Inst) /\ \A a \in Core : Inst[a] = file[a]
      /\ Inst.account = account /\ Inst.data = dirs.data /\ Inst.binary = file.binary /\ Inst.config = file.config
      /\ Inst.plist = file.plist
  BY DEF Inst, InstShape, Core
<1>5. First(op) # "place" /\ First(op) \in {"install", "upgrade", "restart", "stop", "sync", "uninstall"}
  BY DEF First, Replacing, Clearers
<1>6. TxTypes'
  <2>1. CmdTypes'
    <3>1. dirs.data \in Owners /\ \A a \in Core : a \in Names
      BY <1>1 DEF TxTypes, Dirs, Names
    <3>2. Present + ops + 1 \in 0 .. Present + ops'
      BY <1>1 DEF Present
    <3>3. /\ InstShape(Inst) /\ \A a \in Core : Inst[a] \in Content(a)'
      BY <1>3, <1>4, <3>1
    <3>4. cmd'.done \in Seq(Entries') /\ cmd'.todo \in Seq(Names) /\ cmd'.plist \in {Absent, Manual, AtBoot}
      BY <1>2 DEF Task
    <3> QED BY <1>1, <1>2, <1>4, <1>5, <3>1, <3>2, <3>3, <3>4 DEF CmdTypes, InstShape
  <2> QED BY <1>1, <1>3, <2>1 DEF TxTypes
<1>7. ASSUME ~torn PROVE TxBody'
  <2> USE DEF Starting, Stopping, Trying, Resuming, Finishing, Halting, Retreating
  <2>1. TxOps'
    BY <1>2, <1>5 DEF TxOps, Task, First, Replacing, Clearers
  <2>2. TxFiles'
    <3>1. Elems(cmd'.done) = {} /\ Touched' = {} /\ Handled' = {}
      BY <1>2, <1>5, NoElems DEF Touched, Handled
    <3>2. Elems(r.todo) \subseteq Scope'
      BY <1>2, NoElems DEF Scope, Task, Replacing, Clearers
    <3>3. \A a \in Core : Base(a, file[a])'
      BY <1>1, <1>2, <1>4 DEF Base
    <3>4. Unique(r.todo)
      BY DEF Task
    <3> QED BY <1>2, <1>5, <3>1, <3>2, <3>3, <3>4 DEF TxFiles
  <2>3. TxProgress'
    <3>1. op \in Replacing => Targets' \subseteq Elems(r.todo)
      BY <1>2 DEF Targets, Task, Replacing
    <3>2. op \in Clearers => Victims' \subseteq Elems(r.todo)
      BY <1>2 DEF Victims, Task, Clearers, Names
    <3> QED BY <1>2, <1>5, <3>1, <3>2 DEF TxProgress, First, Replacing, Clearers
  <2>4. TxBefore'
    <3>1. file.binary < Present + ops + 1 /\ Present + ops + 1 \notin {Absent, Legacy}
      BY <1>1 DEF TxTypes, Content, Names, Core, Present, Absent, Legacy
    <3>2. account = NoAccount => dirs.data # "worker"
      BY <1>7 DEF TxInv, Owned
    <3> QED BY <1>2, <1>4, <3>1, <3>2 DEF TxBefore, Task, First
  <2>5. TxIdentity' /\ TxStorage'
    BY <1>1, <1>2, <1>4, <1>5 DEF TxIdentity, TxStorage, Undone
  <2> QED BY <2>1, <2>2, <2>3, <2>4, <2>5 DEF TxBody
<1>8. Begun
  <2>1. ~cmd'.up /\ ~cmd'.back
    BY <1>1 DEF Task, Blank, Fields
  <2> QED BY <1>1, <1>2, <1>5, <2>1 DEF Begin, Begun, Replacing, Clearers, launchd
<1>9. ~torn' => Owned'
  BY <1>1, OwnedKept
<1> QED BY <1>1, <1>6, <1>7, <1>8, <1>9 DEF TxInv

LEMMA Todos ==
    LET s1 == <<"binary", "config", "plist">>  s2 == <<"binary", "plist">>  s3 == <<"config">>
        s4 == <<"plist", "binary">>  s5 == <<"plist", "binary", "config", "mappings">>
    IN  /\ s1 \in Seq(Names) /\ Unique(s1) /\ Elems(s1) = Core
        /\ s2 \in Seq(Names) /\ Unique(s2) /\ Elems(s2) = {"binary", "plist"}
        /\ s3 \in Seq(Names) /\ Unique(s3) /\ Elems(s3) = {"config"}
        /\ s4 \in Seq(Names) /\ Unique(s4) /\ Elems(s4) = {"plist", "binary"}
        /\ s5 \in Seq(Names) /\ Unique(s5) /\ Elems(s5) = Names
BY DEF Names, Core, Unique, Elems

LEMMA BeginCommandTx ==
    ASSUME LaunchInv, TxInv, BeginCommand
    PROVE  TxInv' /\ Begun
<1>0. Blank(Idle) /\ Idle.todo = <<>> /\ Idle.plist = Absent /\ Idle.again = FALSE
  BY DEF Blank, Idle, Fields
<1>1. CASE \E s \in BOOLEAN, p \in {Manual, AtBoot} :
             Begin("install", "install",
                   [Idle EXCEPT !.start = s, !.plist = p, !.todo = <<"binary", "config", "plist">>])
  <2>0. PICK s \in BOOLEAN, p \in {Manual, AtBoot} :
             Begin("install", "install",
                   [Idle EXCEPT !.start = s, !.plist = p, !.todo = <<"binary", "config", "plist">>])
    BY <1>1
  <2>1. PICK r : /\ r = [Idle EXCEPT !.start = s, !.plist = p, !.todo = <<"binary", "config", "plist">>]
                 /\ Begin("install", "install", r)
    BY <2>0
  <2>2. Blank(r) /\ r.todo = <<"binary", "config", "plist">> /\ r.plist = p /\ r.again = FALSE
    BY <1>0, <2>1 DEF Blank, Fields
  <2>3. p \in {Absent, Manual, AtBoot} /\ p # Absent
    BY <2>0 DEF Absent, Manual, AtBoot
  <2>4. Task("install", r)
    BY <2>2, <2>3, Todos DEF Task
  <2> QED BY <2>1, <2>4, BeginTx DEF First, Replacing
<1>2. CASE \E c \in BOOLEAN, p \in {Absent, Manual, AtBoot} :
             Begin("upgrade", "upgrade",
                   [Idle EXCEPT !.plist = StartAtBoot(p),
                                !.todo = IF c THEN <<"binary", "config", "plist">> ELSE <<"binary", "plist">>])
  <2>0. PICK c \in BOOLEAN, p \in {Absent, Manual, AtBoot} :
             Begin("upgrade", "upgrade",
                   [Idle EXCEPT !.plist = StartAtBoot(p),
                                !.todo = IF c THEN <<"binary", "config", "plist">> ELSE <<"binary", "plist">>])
    BY <1>2
  <2>1. PICK r : /\ r = [Idle EXCEPT !.plist = StartAtBoot(p),
                                 !.todo = IF c THEN <<"binary", "config", "plist">> ELSE <<"binary", "plist">>]
                 /\ Begin("upgrade", "upgrade", r)
    BY <2>0
  <2>2. /\ Blank(r) /\ r.plist = StartAtBoot(p) /\ r.again = FALSE
        /\ r.todo \in {<<"binary", "config", "plist">>, <<"binary", "plist">>}
    BY <1>0, <2>1 DEF Blank, Fields
  <2>3. StartAtBoot(p) \in {Manual, AtBoot, file.plist} /\ file.plist \in {Absent, Manual, AtBoot}
    BY <2>1 DEF StartAtBoot, TxInv, TxTypes, Names, Core, Content
  <2>4. /\ r.todo \in Seq(Names) /\ Unique(r.todo)
        /\ {"binary", "plist"} \subseteq Elems(r.todo) /\ Elems(r.todo) \subseteq Core
    BY <2>2, Todos DEF Core
  <2>5. Task("upgrade", r)
    BY <2>2, <2>3, <2>4 DEF Task
  <2> QED BY <2>1, <2>5, BeginTx DEF First, Replacing
<1>3. CASE \E a \in BOOLEAN : Begin("start", "sync", [Idle EXCEPT !.again = a, !.todo = <<"config">>])
  <2>0. PICK a \in BOOLEAN : Begin("start", "sync", [Idle EXCEPT !.again = a, !.todo = <<"config">>])
    BY <1>3
  <2>1. PICK r : r = [Idle EXCEPT !.again = a, !.todo = <<"config">>] /\ Begin("start", "sync", r)
    BY <2>0
  <2>2. Blank(r) /\ r.todo = <<"config">> /\ r.plist = Absent /\ r.again \in BOOLEAN
    BY <1>0, <2>1 DEF Blank, Fields
  <2>3. Task("start", r)
    BY <2>2, Todos DEF Task
  <2> QED BY <2>1, <2>3, BeginTx DEF First, Replacing
<1>4. CASE Begin("restart", "restart", Idle)
  <2>1. Idle.todo \in Seq(Names) /\ Unique(Idle.todo)
    BY <1>0, NoElems, EmptySeq
  <2>2. Task("restart", Idle)
    BY <1>0, <2>1 DEF Task
  <2> QED BY <1>4, <2>2, BeginTx DEF First
<1>5. CASE Begin("stop", "stop", [Idle EXCEPT !.ok = "ok", !.no = "fail"])
  <2>1. PICK r : r = [Idle EXCEPT !.ok = "ok", !.no = "fail"] /\ Begin("stop", "stop", r)
    BY <1>5
  <2>2. Blank(r) /\ r.todo = <<>> /\ r.plist = Absent /\ r.again = FALSE /\ r.ok = "ok"
    BY <1>0, <2>1 DEF Blank, Fields
  <2>3. r.todo \in Seq(Names) /\ Unique(r.todo)
    BY <2>2, NoElems, EmptySeq
  <2>4. Task("stop", r)
    BY <2>2, <2>3 DEF Task
  <2> QED BY <2>1, <2>4, BeginTx DEF First
<1>6. CASE \/ Begin("uninstall", "uninstall", [Idle EXCEPT !.todo = <<"plist", "binary">>])
           \/ Begin("purge", "uninstall", [Idle EXCEPT !.todo = <<"plist", "binary", "config", "mappings">>])
  <2>0. PICK op \in Clearers :
             Begin(op, "uninstall", [Idle EXCEPT !.todo = IF op = "purge" THEN <<"plist", "binary", "config", "mappings">>
                                                          ELSE <<"plist", "binary">>])
    BY <1>6 DEF Clearers
  <2>1. PICK r : /\ r = [Idle EXCEPT !.todo = IF op = "purge" THEN <<"plist", "binary", "config", "mappings">>
                                              ELSE <<"plist", "binary">>]
                 /\ Begin(op, "uninstall", r)
    BY <2>0
  <2>2. Blank(r) /\ r.todo = (IF op = "purge" THEN <<"plist", "binary", "config", "mappings">> ELSE <<"plist", "binary">>)
        /\ r.plist = Absent /\ r.again = FALSE
    BY <1>0, <2>1 DEF Blank, Fields
  <2>3. Task(op, r)
    BY <2>2, Todos DEF Task, Clearers
  <2>4. First(op) = "uninstall"
    BY <2>1 DEF First, Clearers
  <2> QED BY <2>1, <2>3, <2>4, BeginTx
<1> QED BY <1>1, <1>2, <1>3, <1>4, <1>5, <1>6 DEF BeginCommand

----------------------------------------------------------------------------
(* launchd, the service process, and the whole *)

\* Neither launchd nor the service touches what a command has to keep together.
LEMMA OutsideTx ==
    ASSUME LaunchInv, TxInv, Launchd \/ Crash
    PROVE  /\ TxInv'
           /\ SameData /\ cmd'.at = cmd.at /\ last' = last /\ (torn => torn') /\ (torn' => torn \/ cmd.back)
           /\ SameHost
<1>1. /\ SameData /\ cmd'.at = cmd.at /\ Returns /\ last' = last /\ (torn => torn') /\ (torn' => torn \/ cmd.back)
      /\ ops' = ops
  <2>1. CASE Launchd
    <3>1. cmd' = cmd /\ last' = last /\ torn' = torn /\ ops' = ops
      BY <2>1 DEF Launchd, Spawn, BecomeReady, StartupFails, Exit, Gone, Step
    <3> QED BY <3>1 DEF SameData, SameFiles, Returns
  <2>2. CASE Crash
    BY <2>2 DEF Crash, LaunchInv, LaunchShape, IsCmd, Fields, SameData, SameFiles, Returns
  <2> QED BY <2>1, <2>2
<1>2. /\ \/ dirs' = dirs \/ dirs' = [dirs EXCEPT !.worker = "worker"]
         \/ \E r \in SUBSET {"journal"} : dirs' = [dirs EXCEPT !.rest = @ \cup r]
         \/ dirs' = [dirs EXCEPT !.rest = @ \ {"journal"}]
      /\ file' = file \/ file' = [file EXCEPT !.mappings = 1]
      /\ account' = account
  BY DEF Launchd, Spawn, BecomeReady, StartupFails, Exit, Gone, Crash, host
<1>3. TxTypes /\ file = [x \in {"binary", "config", "plist", "mappings"} |-> file[x]]
  BY DEF TxInv, LaunchInv, LaunchShape
<1>4. SameHost /\ dirs' \in Dirs /\ \A a \in Names : file'[a] \in Content(a)
  <2>1. dirs' \in Dirs /\ dirs'.data = dirs.data
    <3>1. dirs \in Dirs
      BY <1>3 DEF TxTypes
    <3>2. ASSUME NEW r \in SUBSET {"journal"} PROVE dirs.rest \cup r \in SUBSET {"journal", "corrupt"}
      BY <3>1 DEF Dirs
    <3>3. dirs.rest \ {"journal"} \in SUBSET {"journal", "corrupt"}
      BY <3>1 DEF Dirs
    <3> QED BY <1>2, <3>1, <3>2, <3>3 DEF Dirs
  <2> QED BY <1>2, <1>3, <2>1 DEF SameHost, TxTypes, Names, Core, Content, Present
<1>5. TxInv'
  <2>1. CASE cmd.op = "none"
    <3>1. TxTypes'
      BY <1>1, <1>3, <1>4, TypesKept
    <3>2. ~torn' => Owned'
      BY <1>1, <1>4, OwnedKept DEF SameHost
    <3> QED BY <1>1, <2>1, <3>1, <3>2 DEF TxInv, SameData, SameFiles
  <2>2. CASE cmd.op # "none"
    BY <1>1, <1>4, <2>2, ControlTx DEF Edge
  <2> QED BY <2>1, <2>2
<1> QED BY <1>1, <1>4, <1>5

LEMMA InitTx == LaunchInit => TxInv
<1> SUFFICES ASSUME LaunchInit PROVE TxInv
  OBVIOUS
<1>1. cmd.op = "none" /\ ops = 0 /\ MaxOps \in Nat
  BY LaunchAssumption, IdleFields DEF LaunchInit
<1>2. PICK i \in Inits :
        /\ file = CASE i = "bare" -> Files(Absent, Absent, Absent, Absent)
                    [] i \in {"kept", "keptroot"} -> Files(Absent, Present, Absent, 1)
                    [] i = "boot" -> Files(Present, Present, AtBoot, 1)
                    [] i = "legacy" -> Files(Legacy, Present, Manual, Absent)
                    [] OTHER -> Files(Present, Present, Manual, 1)
        /\ dirs = CASE i = "bare" -> NoDirs
                    [] i \in {"legacy", "keptroot"} ->
                         [worker |-> "absent", data |-> "root", rest |-> {}]
                    [] OTHER -> [worker |-> "worker", data |-> "worker",
                                 rest |-> CASE i = "stopped" -> {"corrupt"}
                                           [] i = "manual" -> {"journal"}
                                           [] OTHER -> {}]
        /\ account = IF i \in {"bare", "legacy", "keptroot"} THEN NoAccount ELSE WholeAccount
  BY DEF LaunchInit
<1>3. dirs \in Dirs /\ Owned
  BY <1>2 DEF NoDirs, Dirs, Owners, Owned, NoAccount, WholeAccount
<1>4. \A a \in Names : file[a] \in Content(a)
  BY <1>1, <1>2 DEF Files, Names, Core, Content, Absent, Present, Legacy, Manual, AtBoot
<1> QED BY <1>1, <1>3, <1>4 DEF TxInv, TxTypes

LEMMA StepTx ==
    ASSUME "install" \notin CommitFaults, LaunchInv, LaunchInv', TxInv, [LaunchNext]_vars
    PROVE  TxInv'
<1>1. CASE UNCHANGED vars
  <2>1. UNCHANGED <<file, dirs, account, cmd, ops, torn>>
    BY <1>1 DEF vars
  <2>2. SameData /\ SameHost /\ Returns
    BY <2>1 DEF SameData, SameFiles, SameHost, Returns
  <2>3. TxTypes'
    BY <2>1, <2>2, TypesKept DEF TxInv, TxTypes
  <2>4. cmd.op # "none" => TxInv'
    BY <2>1, <2>2, ControlTx DEF Edge, TxInv, TxTypes
  <2>5. ~torn' => Owned'
    BY <2>1, OwnedKept
  <2> QED BY <2>1, <2>3, <2>4, <2>5 DEF TxInv
<1>2. CASE BeginCommand
  BY <1>2, BeginCommandTx
<1>3. CASE CommandStep
  <2>1. CASE \/ Refuse \/ InstallCheck \/ Sync \/ SyncInvalid \/ Upgrade \/ Restart \/ Restarting \/ Uninstall
             \/ SyncStop
    BY <2>1, OwnTx
  <2>2. CASE StartEnable \/ StartBootstrap \/ StartKick \/ StartReady \/ StartHopeless \/ StartFails
    BY <2>2, StartTx
  <2>3. CASE StopDisable \/ StopBootout \/ StopUnloaded \/ StopRecover \/ StopFails
    BY <2>3, StopTx
  <2>4. CASE EnsureGroup \/ EnsureUser \/ Ungroup \/ PurgeUser \/ PurgeGroup \/ RollbackUser \/ RollbackGroup
    BY <2>4, AccountTx
  <2>5. CASE PrepareStorage \/ Unstore
    BY <2>5, StorageTx
  <2>6. CASE PrepareFails \/ UninstallFails \/ RollbackFails \/ GiveUp
    BY <2>6, PrepareFailsTx, UninstallFailsTx, RollbackFailsTx
  <2>7. CASE Backup \/ Place \/ Undo \/ Remove
    BY <2>7, BackupTx, PlaceTx, UndoTx, RemoveTx
  <2>8. CASE Activated \/ Unload \/ RollbackRecover \/ Restore \/ UninstallExamine \/ Removed
    BY <2>8, BetweenTx
  <2>9. CASE Commit \/ CommitFails
    BY <2>9, CommitTx, EndTx
  <2>10. CASE Fail
    BY <2>10, AgainTx, EndTx DEF Fail, End, Report
  <2>11. CASE Succeed \/ Clear
    BY <2>11, EndTx DEF Succeed, Clear, End, Report
  <2>12. CASE ClearFails
    BY <2>12, ClearFailsTx
  <2> QED
    BY <1>3, <2>1, <2>2, <2>3, <2>4, <2>5, <2>6, <2>7, <2>8, <2>9, <2>10, <2>11, <2>12 DEF CommandStep
<1>4. CASE Launchd \/ Crash
  BY <1>4, OutsideTx
<1>5. CASE Kill \/ Reboot
  BY <1>5, EndTx
<1> QED
  BY <1>1, <1>2, <1>3, <1>4, <1>5 DEF LaunchNext

\* A step that does not end the command leaves its name and what it noted.
LEMMA CommandKept ==
    ASSUME LaunchInv, CommandStep
    PROVE  \/ cmd'.op = cmd.op /\ cmd'.was = cmd.was /\ last' = last /\ (torn => torn')
           \/ Fail \/ Succeed \/ Commit \/ Clear
<1> DEFINE Same == cmd'.op = cmd.op /\ cmd'.was = cmd.was
           Rest == last' = last /\ (torn => torn')
<1>1. ASSUME NEW l, Goto(l) \/ Fault(l) PROVE Same
  BY <1>1, GotoData, FaultData DEF LaunchInv, SameData, SameFiles
<1>2. ASSUME NEW sub, NEW ok, NEW no, Call(sub, ok, no) PROVE Same
  BY <1>2, CallData DEF LaunchInv, SameData, SameFiles
<1>3. cmd = [x \in Fields |-> cmd[x]]
  BY DEF LaunchInv, LaunchShape, IsCmd
<1>0. ASSUME NEW l, Fault(l) PROVE Rest
  BY <1>0, FaultData DEF LaunchInv
<1>4. CASE Refuse \/ StartFails \/ StopFails \/ PrepareFails \/ UninstallFails
  BY <1>0, <1>1, <1>4 DEF Refuse, StartFails, StopFails, PrepareFails, UninstallFails, FaultAt
<1>5. CASE RollbackFails
  <2>1. CASE \E l : Fault(l)
    BY <1>0, <1>1, <2>1
  <2>2. CASE /\ cmd' = [cmd EXCEPT !.done = Tail(@), !.clean = FALSE, !.up = @ /\ cmd.op # "start"]
             /\ torn' = TRUE /\ last' = last
    BY <1>3, <2>2 DEF Fields
  <2> QED
    BY <1>5, <2>1, <2>2 DEF RollbackFails, FaultAt
<1>6. CASE \/ InstallCheck \/ Restart \/ Restarting \/ SyncStop \/ Restore \/ Activated
           \/ StartEnable \/ StartKick \/ StartReady
  BY <1>1, <1>2, <1>6 DEF InstallCheck, Restart, Restarting, SyncStop, Restore, Activated, StartEnable,
       StartKick, StartReady, Step
<1>7. CASE \/ StopBootout \/ StopUnloaded \/ StopRecover \/ EnsureGroup \/ Ungroup \/ Unload \/ RollbackRecover
           \/ RollbackUser \/ RollbackGroup \/ UninstallExamine \/ Removed \/ PurgeUser \/ PurgeGroup
  BY <1>1, <1>7 DEF StopBootout, StopUnloaded, StopRecover, EnsureGroup, Ungroup, Unload, RollbackRecover,
       RollbackUser, RollbackGroup, UninstallExamine, Removed, PurgeUser, PurgeGroup, Step
<1>8. CASE Sync \/ Upgrade \/ StartHopeless
  <2>1. Rest
    <3>1. CASE Sync \/ Upgrade
      BY <3>1 DEF Sync, Upgrade, Step
    <3>2. CASE StartHopeless
      BY <3>2 DEF StartHopeless, Step
    <3> QED BY <1>8, <3>1, <3>2
  <2>2. CASE \E u, k : cmd' = [cmd EXCEPT !.at = "stop", !.ok = k, !.no = "fail", !.up = u]
    BY <1>3, <2>1, <2>2 DEF Fields
  <2>3. CASE \E l : Goto(l)
    BY <1>1, <2>1, <2>3
  <2> QED
    BY <1>8, <2>2, <2>3 DEF Sync, Upgrade, StartHopeless, Goto
<1>9. CASE SyncInvalid \/ StopDisable \/ Uninstall \/ EnsureUser \/ PrepareStorage \/ Place \/ Remove \/ ClearFails
  <2>1. CASE SyncInvalid
    BY <1>3, <2>1 DEF SyncInvalid, Fields, Step
  <2>2. CASE StopDisable
    BY <1>3, <2>2 DEF StopDisable, Fields, Step
  <2>3. CASE Uninstall
    BY <1>3, <2>3 DEF Uninstall, Fields, Step
  <2>4. CASE EnsureUser \/ ClearFails
    BY <1>3, <2>4 DEF EnsureUser, ClearFails, Fields, Step
  <2>5. CASE PrepareStorage
    <3>1. CASE Goto("purge")
      BY <1>1, <2>5, <3>1 DEF PrepareStorage, Step
    <3>2. CASE \E d, f : cmd' = [cmd EXCEPT !.at = "activate", !.saved = d, !.fresh = f]
      BY <1>3, <2>5, <3>2 DEF PrepareStorage, Fields, Step
    <3> QED BY <2>5, <3>1, <3>2 DEF PrepareStorage
  <2>6. CASE Place
    BY <1>3, <2>6 DEF Place, Fields, Step
  <2>7. CASE Remove
    BY <1>3, <2>7 DEF Remove, Fields, Step
  <2> QED
    BY <1>9, <2>1, <2>2, <2>3, <2>4, <2>5, <2>6, <2>7
<1>10. CASE Backup
  <2>1. CASE \E l : Goto(l)
    BY <1>1, <1>10, <2>1 DEF Backup, Step
  <2>2. CASE \E h : cmd' = [cmd EXCEPT !.at = "place", !.held = h]
    BY <1>3, <1>10, <2>2 DEF Fields, Backup, Step
  <2> QED
    BY <1>10, <2>1, <2>2 DEF Backup
<1>11. CASE Undo
  <2>1. CASE Goto("unstore")
    BY <1>1, <1>11, <2>1 DEF Undo, Step
  <2>2. CASE \E d : cmd' = [cmd EXCEPT !.done = d]
    BY <1>3, <1>11, <2>2 DEF Fields, Undo, Step
  <2> QED
    BY <1>11, <2>1, <2>2 DEF Undo
<1>12. CASE GiveUp \/ CommitFails
  <2>1. PICK l, c : /\ c = To(l)
                    /\ \/ cmd' = [c EXCEPT !.up = FALSE]
                       \/ cmd' = [c EXCEPT !.clean = FALSE, !.res = "untidy"]
    BY <1>12 DEF GiveUp, CommitFails
  <2>2. c.op = cmd.op /\ c.was = cmd.was /\ c = [x \in Fields |-> c[x]]
    BY <2>1, ToData DEF LaunchInv, IsCmd
  <2>3. Same
    BY <2>1, <2>2 DEF Fields
  <2> QED
    BY <1>12, <2>3 DEF GiveUp, CommitFails, Step
<1>13. CASE StartBootstrap
  <2>1. PICK h : cmd' = [To("kick") EXCEPT !.hasty = h]
    BY <1>13 DEF StartBootstrap
  <2>2. Same
    BY <2>1, HastyData DEF LaunchInv, SameData, SameFiles
  <2> QED BY <1>13, <2>2 DEF StartBootstrap, Step
<1>14. CASE Unstore
  <2>1. PICK v : cmd' = [To("purge") EXCEPT !.left = v]
    BY <1>14 DEF Unstore
  <2>2. Same
    BY <2>1, LeftData DEF LaunchInv, SameFiles
  <2> QED BY <1>14, <2>2 DEF Unstore, Step
<1> QED
  BY <1>4, <1>5, <1>6, <1>7, <1>8, <1>9, <1>10, <1>11, <1>12, <1>13, <1>14 DEF CommandStep

----------------------------------------------------------------------------
(* The refinement *)

LEMMA SeenWhole == LaunchInv /\ TxInv => Seen \in Whole!Whole
<1> SUFFICES ASSUME LaunchInv, TxInv PROVE Seen \in Whole!Whole
  OBVIOUS
<1>1. /\ ops \in Nat /\ MaxOps \in Nat /\ ops <= MaxOps /\ account \in Accounts /\ dirs.data \in Owners
      /\ file.binary \in Content("binary") /\ file.config \in Content("config") /\ file.plist \in Content("plist")
  BY LaunchAssumption DEF TxInv, TxTypes, LaunchInv, LaunchShape, Accounts, Dirs, Names, Core
<1>2. Content("binary") \subseteq Version /\ Content("config") \subseteq Version
      /\ Content("plist") = {Absent, Manual, AtBoot}
  BY <1>1 DEF Content, Version, Present
<1>3. CASE cmd.op = "none"
  BY <1>1, <1>2, <1>3 DEF Seen, Inst, Whole!Whole, Accounts, Owners
<1>4. CASE cmd.op # "none"
  <2>1. CmdTypes
    BY <1>4 DEF TxInv, TxTypes
  <2>2. /\ cmd.was = [binary |-> cmd.was.binary, config |-> cmd.was.config, plist |-> cmd.was.plist,
                      account |-> cmd.was.account, data |-> cmd.was.data]
        /\ cmd.was.binary \in Version /\ cmd.was.config \in Version /\ cmd.was.plist \in {Absent, Manual, AtBoot}
        /\ cmd.was.account \in Accounts /\ cmd.was.data \in Owners
    BY <1>2, <2>1 DEF CmdTypes, InstShape, Core
  <2> QED BY <1>4, <2>2 DEF Seen, Whole!Whole, Accounts, Owners
<1> QED BY <1>3, <1>4

\* A command's step is taken at one of its labels.
LEMMA StepLabels == CommandStep => cmd.at # "idle"
<1> USE DEF At, FaultAt
<1>1. Refuse \/ InstallCheck \/ Sync \/ SyncInvalid \/ Upgrade \/ Restart \/ Restarting \/ Uninstall \/ SyncStop
      \/ StartEnable \/ StartBootstrap \/ StartKick \/ StartReady \/ StartHopeless \/ StartFails
      => cmd.at # "idle"
  BY DEF Refuse, InstallCheck, Sync, SyncInvalid, Upgrade, Restart, Restarting, Uninstall, SyncStop,
         StartEnable, StartBootstrap, StartKick, StartReady, StartHopeless, StartFails
<1>2. StopDisable \/ StopBootout \/ StopUnloaded \/ StopRecover \/ StopFails \/ EnsureGroup \/ EnsureUser \/ Ungroup
      \/ PrepareStorage \/ PrepareFails \/ Backup \/ Place \/ Activated \/ Commit \/ CommitFails
      => cmd.at # "idle"
  BY DEF StopDisable, StopBootout, StopUnloaded, StopRecover, StopFails, EnsureGroup, EnsureUser, Ungroup,
         PrepareStorage, PrepareFails, Backup, Place, Activated, Commit, CommitFails
<1>3. Unload \/ RollbackRecover \/ Undo \/ Unstore \/ RollbackUser \/ RollbackGroup \/ Restore \/ RollbackFails \/ GiveUp
      \/ Fail \/ Succeed => cmd.at # "idle"
  BY DEF Unload, RollbackRecover, Undo, Unstore, RollbackUser, RollbackGroup, Restore, RollbackFails, GiveUp, Fail,
         Succeed
<1>4. UninstallExamine \/ Remove \/ Removed \/ PurgeUser \/ PurgeGroup \/ Clear \/ UninstallFails \/ ClearFails
      => cmd.at # "idle"
  BY DEF UninstallExamine, Remove, Removed, PurgeUser, PurgeGroup, Clear, UninstallFails, ClearFails
<1> QED BY <1>1, <1>2, <1>3, <1>4 DEF CommandStep

\* Between commands the installation is what it is, and a new command notes it.
LEMMA IdleSees ==
    ASSUME LaunchInv, TxInv, LaunchNext, cmd.op = "none", ~torn'
    PROVE  Seen' = Seen /\ last' = last /\ torn' = torn
<1>1. cmd.at = "idle"
  BY DEF LaunchInv, CommandInv
<1>2. torn \in BOOLEAN
  BY DEF LaunchInv, LaunchShape
<1>3. CASE BeginCommand
  BY <1>3, BeginCommandTx DEF Begun, Seen
<1>4. CASE Launchd \/ Crash
  <2>1. /\ SameData /\ last' = last /\ (torn => torn') /\ SameHost /\ torn' \in BOOLEAN
    <3>1. torn' \in BOOLEAN
      BY <1>2, <1>4 DEF Launchd, Spawn, BecomeReady, StartupFails, Exit, Gone, Step, Crash
    <3> QED BY <1>4, <3>1, OutsideTx
  <2>2. cmd'.op = "none" /\ Inst' = Inst
    BY <2>1 DEF SameData, SameFiles, SameHost, Inst, Core
  <2> QED BY <1>2, <2>1, <2>2 DEF Seen
<1>5. CASE Reboot
  <2>1. dirs \in Dirs
    BY DEF TxInv, TxTypes
  <2>2. /\ cmd' = Idle /\ file' = file /\ account' = account /\ dirs'.data = dirs.data /\ last' = last
    BY <1>5, <2>1 DEF Reboot, Dirs
  <2>3. torn' = torn
    BY <1>2, <1>5 DEF Reboot
  <2> QED BY <2>2, <2>3, IdleFields DEF Seen, Inst
<1>6. ~CommandStep /\ ~Kill
  BY <1>1, StepLabels DEF Kill
<1> QED BY <1>3, <1>4, <1>5, <1>6 DEF LaunchNext

\* What the files are when a command is about to return
LEMMA EndFiles ==
    ASSUME LaunchInv, TxInv, ~torn, cmd.op # "none", cmd.at \in {"fail", "ok", "commit", "clear"}
    PROVE  /\ TxBody /\ CmdTypes
           /\ \A a \in Core : IF a \in Touched THEN cmd.op \in Replacing => file[a] = New(a)
                              ELSE Base(a, file[a])
<1>1. TxBody /\ CmdTypes
  BY DEF TxInv, TxTypes
<1>2. Handled = {}
  BY DEF Handled
<1>3. ASSUME NEW a \in Core, a \in Touched, cmd.op \in Replacing PROVE file[a] = New(a)
  <2>1. PICK e \in Elems(cmd.done) : e.file = a
    BY <1>3 DEF Touched
  <2> QED BY <1>1, <1>3, <2>1 DEF TxBody, TxFiles
<1>4. ASSUME NEW a \in Core, a \notin Touched PROVE Base(a, file[a])
  BY <1>1, <1>2, <1>4 DEF TxBody, TxFiles
<1> QED BY <1>1, <1>3, <1>4

\* The two outcomes: nothing has changed but for a directory that stays, or the
\* configuration at most
LEMMA Unchanged ==
    ASSUME LaunchInv, TxInv, ~torn, cmd.op # "none", cmd.at \in {"fail", "ok"}, cmd.res = "failed"
    PROVE  /\ Inst = [binary |-> cmd.was.binary, config |-> cmd.was.config, plist |-> cmd.was.plist,
                      account |-> cmd.was.account, data |-> dirs.data]
           /\ Inst = cmd.was \/ (cmd.at = "fail" /\ cmd.was.data = "absent" /\ cmd.left)
<1>1. TxBody /\ CmdTypes /\ \A a \in Core : a \notin Touched => Base(a, file[a])
  BY EndFiles
<1>2. Touched = {}
  BY <1>1, NoElems DEF TxBody, TxProgress, NothingDone, Touched
<1>3. file.binary = cmd.was.binary /\ file.config = cmd.was.config /\ file.plist = cmd.was.plist
  BY <1>1, <1>2 DEF Base, Core
<1>4. /\ account = cmd.was.account
      /\ dirs.data = cmd.was.data \/ (cmd.at = "fail" /\ cmd.was.data = "absent" /\ cmd.left)
  <2>1. CASE cmd.at = "fail"
    BY <1>1, <2>1 DEF TxBody, TxIdentity, TxStorage, Undone, StaysBehind
  <2>2. CASE cmd.at = "ok"
    <3>1. cmd.op \in {"stop", "restart", "start"}
      BY <1>1, <2>2 DEF TxBody, TxOps
    <3> QED BY <1>1, <2>2, <3>1 DEF TxBody, TxIdentity, TxStorage, Undone, Adopted, Starting, Resuming
  <2> QED BY <2>1, <2>2
<1> QED BY <1>1, <1>3, <1>4 DEF Inst, CmdTypes, InstShape

LEMMA Configured ==
    ASSUME LaunchInv, TxInv, ~torn, cmd.op = "start",
           (cmd.at = "fail" /\ cmd.res = "untidy") \/ cmd.at \in {"ok", "commit"}
    PROVE  /\ cmd.was.config # Absent /\ file.config # Absent
           /\ Inst = [cmd.was EXCEPT !.config = file.config]
<1>1. /\ TxBody /\ CmdTypes
      /\ \A a \in Core : IF a \in Touched THEN cmd.op \in Replacing => file[a] = New(a) ELSE Base(a, file[a])
  BY EndFiles
<1>2. cmd.was.config # Absent /\ cmd.ver # Absent
  BY <1>1 DEF TxBody, TxBefore
<1>3. file.binary = cmd.was.binary /\ file.plist = cmd.was.plist
  <2>1. Touched \subseteq {"config"}
    BY <1>1 DEF TxBody, TxFiles, Scope
  <2> QED BY <1>1, <2>1 DEF Base, Core
<1>4. file.config # Absent
  BY <1>1, <1>2 DEF Base, Core, New, Replacing
<1>5. account = cmd.was.account /\ dirs.data = cmd.was.data
  BY <1>1 DEF TxBody, TxIdentity, TxStorage, Undone, Adopted, StaysBehind, Starting, Resuming
<1>6. cmd.was = [binary |-> cmd.was.binary, config |-> cmd.was.config, plist |-> cmd.was.plist,
                 account |-> cmd.was.account, data |-> cmd.was.data]
  BY <1>1 DEF CmdTypes, InstShape
<1>7. Inst = [binary |-> cmd.was.binary, config |-> file.config, plist |-> cmd.was.plist,
              account |-> cmd.was.account, data |-> cmd.was.data]
  BY <1>3, <1>5 DEF Inst
<1> QED BY <1>2, <1>4, <1>6, <1>7

\* A new executable and manifest in place, and the account and storage they need
LEMMA Replaced ==
    ASSUME LaunchInv, TxInv, ~torn, cmd.op \in {"install", "upgrade"},
           (cmd.at = "fail" /\ cmd.res = "untidy") \/ cmd.at = "commit"
    PROVE  /\ Absent \notin {file.binary, file.config, file.plist}
           /\ account = WholeAccount /\ dirs.data = "worker"
           /\ cmd.op = "install" => cmd.was.binary = Absent /\ cmd.was.plist = Absent
           /\ cmd.op = "upgrade" => /\ Absent \notin {cmd.was.binary, cmd.was.config, cmd.was.plist}
                                    /\ file.binary # cmd.was.binary
           /\ file.binary # Legacy
<1>1. /\ TxBody /\ CmdTypes
      /\ \A a \in Core : IF a \in Touched THEN cmd.op \in Replacing => file[a] = New(a) ELSE Base(a, file[a])
  BY EndFiles
<1>2. account = WholeAccount /\ dirs.data = "worker"
  BY <1>1 DEF TxBody, TxIdentity, TxStorage
<1>3. Targets \subseteq Touched
  <2>1. CASE cmd.at = "commit"
    BY <1>1, <2>1, NoElems DEF TxBody, TxProgress, Replacing
  <2>2. CASE cmd.at = "fail" /\ cmd.res = "untidy"
    BY <1>1, <2>2 DEF TxBody, TxProgress, TxOps, Replacing, Clearers
  <2> QED BY <2>1, <2>2
<1>4. file.binary = cmd.ver /\ file.plist = cmd.plist
  BY <1>1, <1>3 DEF Targets, Core, New, Replacing
<1>5. CASE cmd.op = "install"
  <2>1. cmd.ver \notin {Absent, Legacy} /\ cmd.plist # Absent
    BY <1>1, <1>5 DEF TxBody, TxBefore
  <2>2. file.config = cmd.ver
    BY <1>1, <1>3, <1>5 DEF Targets, Core, New, Replacing
  <2>3. ASSUME NEW a \in {"binary", "plist"} PROVE cmd.was[a] = Absent
    <3>1. PICK e \in Elems(cmd.done) : e.file = a
      BY <1>3, <1>5 DEF Targets, Core, Touched
    <3>2. a \in Core /\ a # "config" /\ Base(a, e.old) /\ e.old = Absent
      BY <1>1, <1>5, <3>1 DEF TxBody, TxFiles, Core
    <3> QED BY <1>5, <3>2 DEF Base
  <2> QED BY <1>2, <1>4, <1>5, <2>1, <2>2, <2>3
<1>6. CASE cmd.op = "upgrade"
  <2>1. /\ cmd.was.binary < cmd.ver /\ cmd.plist \in {Manual, AtBoot, cmd.was.plist}
        /\ Absent \notin {cmd.was.binary, cmd.was.config, cmd.was.plist}
    BY <1>1, <1>6 DEF TxBody, TxBefore
  <2>2. cmd.was.binary \in Nat /\ cmd.ver \in Nat
    <3>1. cmd.was.binary \in 0 .. Present + ops
      BY <1>1 DEF CmdTypes, Core, Content
    <3>2. cmd.ver \in 0 .. Present + ops
      BY <1>1 DEF CmdTypes
    <3> QED BY <3>1, <3>2
  <2>3. cmd.plist # Absent /\ cmd.ver \notin {Absent, Legacy} /\ cmd.ver # cmd.was.binary
    BY <2>1, <2>2 DEF Absent, Legacy, Manual, AtBoot
  <2>4. file.config # Absent
    BY <1>1, <1>6, <2>1, <2>3 DEF Base, Core, New, Replacing
  <2> QED BY <1>2, <1>4, <1>6, <2>1, <2>3, <2>4
<1> QED BY <1>5, <1>6

\* Everything an uninstallation removes is gone, and nothing else.
LEMMA Cleared ==
    ASSUME LaunchInv, TxInv, ~torn, cmd.op \in Clearers, cmd.at = "clear"
    PROVE  /\ file.binary = Absent /\ file.plist = Absent
           /\ IF cmd.op = "purge" THEN file.config = Absent /\ account = NoAccount
              ELSE file.config = cmd.was.config /\ account = cmd.was.account /\ dirs.data = cmd.was.data
<1>1. /\ TxBody /\ CmdTypes
      /\ \A a \in Core : a \notin Touched => Base(a, file[a])
  BY EndFiles DEF Clearers
<1>2. \A a \in Victims : file[a] = Absent
  BY <1>1, NoElems DEF TxBody, TxProgress
<1>3. CASE cmd.op = "purge"
  BY <1>1, <1>2, <1>3 DEF Victims, Core, TxBody, TxIdentity
<1>4. CASE cmd.op = "uninstall"
  <2>1. Touched \subseteq {"plist", "binary"}
    BY <1>1, <1>4 DEF TxBody, TxFiles, Scope
  <2>2. file.config = cmd.was.config
    BY <1>1, <1>4, <2>1 DEF Base, Core
  <2>3. account = cmd.was.account /\ dirs.data = cmd.was.data
    BY <1>1, <1>4 DEF TxBody, TxIdentity, TxStorage, Undone, Adopted, Starting, Resuming
  <2> QED BY <1>2, <1>4, <2>2, <2>3 DEF Victims
<1> QED BY <1>3, <1>4 DEF Clearers

LEMMA WithoutService ==
    ASSUME NEW i, i = [binary |-> i.binary, config |-> i.config, plist |-> i.plist, account |-> i.account, data |-> i.data],
           NEW j, j = [binary |-> Absent, config |-> i.config, plist |-> Absent, account |-> i.account, data |-> i.data]
    PROVE  j = [i EXCEPT !.binary = Absent, !.plist = Absent]
<1> DEFINE Parts == {"binary", "config", "plist", "account", "data"}
<1>1. i = [x \in Parts |-> i[x]] /\ j = [x \in Parts |-> j[x]]
  OBVIOUS
<1>2. PICK e : e = [i EXCEPT !.binary = Absent, !.plist = Absent]
  OBVIOUS
<1>3. e = [x \in Parts |-> e[x]]
  BY <1>1, <1>2
<1>4. /\ e.binary = Absent /\ e.plist = Absent
      /\ e.config = i.config /\ e.account = i.account /\ e.data = i.data
  BY <1>1, <1>2
<1>5. \A x \in Parts : e[x] = j[x]
  BY <1>4
<1>6. e = j
  BY <1>1, <1>3, <1>5
<1> QED BY <1>2, <1>6

LEMMA OtherOwner ==
    ASSUME NEW i, i = [binary |-> i.binary, config |-> i.config, plist |-> i.plist, account |-> i.account, data |-> i.data],
           NEW d,
           NEW j, j = [binary |-> i.binary, config |-> i.config, plist |-> i.plist, account |-> i.account, data |-> d]
    PROVE  j = [i EXCEPT !.data = j.data]
<1> DEFINE Parts == {"binary", "config", "plist", "account", "data"}
<1>1. i = [x \in Parts |-> i[x]] /\ j = [x \in Parts |-> j[x]] /\ j.data = d
  OBVIOUS
<1>2. PICK e : e = [i EXCEPT !.data = d]
  OBVIOUS
<1>3. e = [x \in Parts |-> e[x]]
  BY <1>1, <1>2
<1>4. \A x \in Parts : e[x] = j[x]
  BY <1>1, <1>2
<1>5. e = j
  BY <1>1, <1>3, <1>4
<1> QED BY <1>1, <1>2, <1>5

\* What is newly installed has a worker of its own.
Fresh == last'.op \in {"install", "upgrade"} /\ last'.res # "failed" => Seen'.binary # Legacy

\* A command that returns has done what it reports.
LEMMA Finished ==
    ASSUME LaunchInv, TxInv, TxInv', LaunchInv', cmd.op # "none", ~torn, torn' = torn, cmd' = Idle,
           Fail \/ Succeed \/ Commit \/ Clear
    PROVE  Whole!Finish /\ Fresh
<1>1. /\ Seen = cmd.was /\ Seen' = Inst' /\ Seen' \in Whole!Whole
      /\ cmd'.op = "none" /\ CmdTypes /\ TxBody
  <2>1. (Seen \in Whole!Whole)'
    BY SeenWhole, PTL
  <2>2. Whole!Whole' = Whole!Whole
    BY DEF Whole!Whole
  <2> QED BY <2>1, <2>2, IdleFields DEF Seen, TxInv, TxTypes
<1>2. cmd.op \in Replacing \cup Clearers \cup {"stop", "restart"} /\ cmd.res \in {"failed", "untidy"}
  BY <1>1 DEF TxBody, TxOps, CmdTypes
<1> DEFINE Did(i, j, op, res, left) ==
             IF res = "failed"
             THEN j = i \/ (i.data = "absent" /\ left /\ j = [i EXCEPT !.data = j.data])
             ELSE \/ /\ op = "install" /\ i.binary = Absent /\ i.plist = Absent
                     /\ j.binary # Absent /\ j.config # Absent /\ j.plist # Absent
                     /\ j.account = WholeAccount /\ j.data = "worker" /\ j.binary # Legacy
                  \/ /\ op = "upgrade" /\ Absent \notin {i.binary, i.config, i.plist}
                     /\ Absent \notin {j.binary, j.config, j.plist} /\ j.binary # i.binary
                     /\ j.account = WholeAccount /\ j.data = "worker" /\ j.binary # Legacy
                  \/ /\ op = "start" /\ i.config # Absent /\ j.config # Absent
                     /\ j = [i EXCEPT !.config = j.config]
                  \/ op = "uninstall" /\ j = [i EXCEPT !.binary = Absent, !.plist = Absent]
                  \/ /\ op = "purge"
                     /\ j = [binary |-> Absent, config |-> Absent, plist |-> Absent,
                             account |-> NoAccount, data |-> j.data]
                     /\ j.data # "worker" /\ (j.data # "absent" => left)
                  \/ op \in {"stop", "restart"} /\ j = i
<1>3. SUFFICES ASSUME NEW i, i = Seen, NEW j, j = Seen', NEW op, op = last'.op, NEW res, res = last'.res,
                      NEW left, left = last'.left
               PROVE  Did(i, j, op, res, left)
  <2>1. PICK i, j : i = Seen /\ j = Seen'
    OBVIOUS
  <2>2. PICK op, res, left : op = last'.op /\ res = last'.res /\ left = last'.left
    OBVIOUS
  <2> HIDE DEF Did
  <2>3. Did(i, j, op, res, left)
    BY <1>3, <2>1, <2>2
  <2>4. /\ ([op |-> last.op, res |-> last.res]').op = op
        /\ ([op |-> last.op, res |-> last.res]').res = res
        /\ (last.left)' = left
    BY <2>2
  <2>5. (IF cmd.op = "none" THEN Inst ELSE cmd.was) = i /\ (IF cmd.op = "none" THEN Inst ELSE cmd.was)' = j
    BY <2>1 DEF Seen
  <2>6. ASSUME i.binary = Absent, i.plist = Absent, j.binary # Absent, j.config # Absent, j.plist # Absent,
               j.account = WholeAccount, j.data = "worker"
        PROVE  Whole!Install
    BY <2>5, <2>6 DEF Whole!Install, Whole!Usable, Whole!Absent, Absent, WholeAccount
  <2>7. ASSUME Absent \notin {i.binary, i.config, i.plist}, Absent \notin {j.binary, j.config, j.plist},
               j.binary # i.binary, j.account = WholeAccount, j.data = "worker"
        PROVE  Whole!Upgrade
    BY <2>5, <2>7 DEF Whole!Upgrade, Whole!Usable, Whole!Absent, Absent, WholeAccount
  <2>8. i.config # Absent /\ j.config # Absent /\ j = [i EXCEPT !.config = j.config] => Whole!Configure
    BY <2>5 DEF Whole!Configure, Whole!Absent, Absent
  <2>9. j = [i EXCEPT !.binary = Absent, !.plist = Absent] => Whole!Uninstall
    BY <2>5 DEF Whole!Uninstall, Whole!Absent, Absent
  <2>10. /\ j = [binary |-> Absent, config |-> Absent, plist |-> Absent, account |-> NoAccount, data |-> j.data]
         /\ j.data # "worker" /\ (j.data # "absent" => left)
        => Whole!Purge
    BY <2>4, <2>5 DEF Whole!Purge, Whole!Absent, Absent, NoAccount
  <2>14. j = i \/ (i.data = "absent" /\ left /\ j = [i EXCEPT !.data = j.data]) => Whole!Undone
    BY <2>4, <2>5 DEF Whole!Undone
  <2>11. IF res = "failed" THEN Whole!Undone
         ELSE \/ op = "install" /\ Whole!Install
              \/ op = "upgrade" /\ Whole!Upgrade
              \/ op = "start" /\ Whole!Configure
              \/ op = "uninstall" /\ Whole!Uninstall
              \/ op = "purge" /\ Whole!Purge
              \/ op \in {"stop", "restart"} /\ j = i
    BY <2>3, <2>6, <2>7, <2>8, <2>9, <2>10, <2>14 DEF Did
  <2>12. j \in Whole!Whole
    BY <1>1, <2>1
  <2>13. Fresh
    BY <2>1, <2>2, <2>3 DEF Did, Fresh
  <2> QED BY <2>4, <2>5, <2>11, <2>12, <2>13 DEF Whole!Finish
<1>4. CASE Fail
  <2>1. /\ cmd.at = "fail" /\ last' = [op |-> cmd.op, res |-> cmd.res, clean |-> cmd.clean, loaded |-> cmd.loaded,
                                      left |-> cmd.left]
        /\ UNCHANGED host
    <3>1. ~cmd.again
      BY <1>1, <1>4 DEF Fail, Idle
    <3> QED BY <1>4, <3>1 DEF Fail, At, End, Report
  <2>2. Inst' = Inst /\ op = cmd.op /\ res = cmd.res /\ left = cmd.left
    BY <1>3, <2>1 DEF Inst, host
  <2>3. CASE cmd.res = "failed"
    <3>1. i = [binary |-> i.binary, config |-> i.config, plist |-> i.plist, account |-> i.account, data |-> i.data]
      BY <1>1, <1>3 DEF CmdTypes, InstShape
    <3>2. /\ j = [binary |-> i.binary, config |-> i.config, plist |-> i.plist, account |-> i.account, data |-> dirs.data]
          /\ j = i \/ (i.data = "absent" /\ left)
      BY <1>1, <1>3, <2>1, <2>2, <2>3, Unchanged
    <3>3. j = [i EXCEPT !.data = j.data]
      BY <3>1, <3>2, OtherOwner
    <3> QED BY <2>2, <2>3, <3>2, <3>3
  <2>4. CASE cmd.res = "untidy" /\ cmd.op = "start"
    BY <1>1, <1>3, <2>1, <2>2, <2>4, Configured DEF Inst
  <2>5. CASE cmd.res = "untidy" /\ cmd.op = "upgrade"
    BY <1>1, <1>3, <2>1, <2>2, <2>5, Replaced DEF Inst
  <2>6. cmd.res = "untidy" => cmd.op \in {"start", "upgrade"}
    BY <1>1, <2>1 DEF TxBody, TxOps
  <2> QED BY <1>2, <2>3, <2>4, <2>5, <2>6
<1>5. CASE Succeed
  <2>1. /\ cmd.at = "ok" /\ last' = [op |-> cmd.op, res |-> "ok", clean |-> cmd.clean, loaded |-> cmd.loaded,
                                    left |-> cmd.left]
        /\ UNCHANGED host
    BY <1>5 DEF Succeed, At, End, Report
  <2>2. Inst' = Inst /\ op = cmd.op /\ res = "ok"
    BY <1>3, <2>1 DEF Inst, host
  <2>3. CASE cmd.op \in {"stop", "restart"}
    <3>1. cmd.res = "failed"
      BY <1>1, <1>2, <2>3 DEF TxBody, TxOps, Clearers
    <3> QED BY <1>1, <1>3, <2>1, <2>2, <2>3, <3>1, Unchanged
  <2>4. CASE cmd.op = "start"
    BY <1>1, <1>3, <2>1, <2>2, <2>4, Configured DEF Inst
  <2>5. cmd.op \in {"stop", "restart", "start"}
    BY <1>1, <2>1 DEF TxBody, TxOps
  <2> QED BY <2>3, <2>4, <2>5
<1>6. CASE Commit
  <2>1. /\ cmd.at = "commit" /\ last' = [op |-> cmd.op, res |-> "ok", clean |-> cmd.clean, loaded |-> cmd.loaded,
                                    left |-> cmd.left]
        /\ UNCHANGED host
    <3>1. ~(cmd.op = "start" /\ ~cmd.up)
      <4> SUFFICES ASSUME cmd.op = "start", ~cmd.up PROVE FALSE
        OBVIOUS
      <4>1. cmd' = [cmd EXCEPT !.at = "start", !.ok = "ok", !.no = "fail", !.res = "untidy"]
        BY <1>6 DEF Commit
      <4>2. cmd = [x \in Fields |-> cmd[x]]
        BY DEF LaunchInv, LaunchShape, IsCmd
      <4> QED BY <1>1, <4>1, <4>2 DEF Fields
    <3> QED BY <1>6, <3>1 DEF Commit, At, End, Report
  <2>2. Inst' = Inst /\ op = cmd.op /\ res = "ok"
    BY <1>3, <2>1 DEF Inst, host
  <2>3. CASE cmd.op \in {"install", "upgrade"}
    BY <1>1, <1>3, <2>1, <2>2, <2>3, Replaced DEF Inst
  <2>4. CASE cmd.op = "start"
    BY <1>1, <1>3, <2>1, <2>2, <2>4, Configured DEF Inst
  <2>5. cmd.op \in {"install", "upgrade", "start"}
    BY <1>1, <2>1 DEF TxBody, TxOps, Replacing
  <2> QED BY <2>3, <2>4, <2>5
<1>7. CASE Clear
  <2>1. /\ cmd.at = "clear" /\ last'.op = cmd.op /\ last'.res \in {"untidy", "ok"}
        /\ file' = file /\ account' = account /\ (cmd.op # "purge" => dirs' = dirs)
        /\ cmd.op = "purge" => dirs' = NoDirs \/ last'.left
    BY <1>7 DEF Clear, At, Report
  <2>2. cmd.op \in Clearers
    BY <1>1, <2>1 DEF TxBody, TxOps
  <2>3. CASE cmd.op = "purge"
    <3>1. /\ j = [binary |-> Absent, config |-> Absent, plist |-> Absent, account |-> NoAccount, data |-> j.data]
          /\ j.data = dirs'.data /\ account' = NoAccount
      BY <1>1, <1>3, <2>1, <2>2, <2>3, Cleared DEF Inst
    <3>2. j.data # "worker"
      BY <3>1 DEF TxInv, Owned
    <3>3. j.data # "absent" => left
      BY <1>3, <2>1, <2>3, <3>1 DEF NoDirs
    <3> QED BY <1>3, <2>1, <2>3, <3>1, <3>2, <3>3
  <2>4. CASE cmd.op = "uninstall"
    <3>1. i = [binary |-> i.binary, config |-> i.config, plist |-> i.plist, account |-> i.account, data |-> i.data]
      BY <1>1, <1>3 DEF CmdTypes, InstShape
    <3>2. j = [binary |-> Absent, config |-> i.config, plist |-> Absent, account |-> i.account, data |-> i.data]
      BY <1>1, <1>3, <2>1, <2>2, <2>4, Cleared DEF Inst
    <3>3. j = [i EXCEPT !.binary = Absent, !.plist = Absent]
      BY <3>1, <3>2, WithoutService
    <3> QED BY <1>3, <2>1, <2>4, <3>3
  <2> QED BY <2>2, <2>3, <2>4 DEF Clearers
<1> QED BY <1>4, <1>5, <1>6, <1>7

\* Every step is a command that returns, a torn one, or nothing to the abstract view.
LEMMA Refines ==
    ASSUME LaunchInv, LaunchInv', TxInv, TxInv', LaunchNext
    PROVE  \/ Whole!Tear
           \/ ~torn /\ Whole!Finish /\ Fresh
           \/ Seen' = Seen /\ last' = last /\ torn' = torn
<1>0. torn \in BOOLEAN /\ torn' \in BOOLEAN
  BY DEF LaunchInv, LaunchShape
<1>1. CASE torn'
  <2>1. (Seen \in Whole!Whole)'
    BY SeenWhole, PTL
  <2>2. Whole!Tear
    BY <1>0, <1>1, <2>1 DEF Whole!Whole, Whole!Tear, Seen
  <2> QED BY <2>2
<1>2. CASE ~torn' /\ cmd.op = "none"
  BY <1>2, IdleSees
<1>3. CASE ~torn' /\ cmd.op # "none"
  <2>1. ~BeginCommand
    BY <1>3, IdleFields DEF BeginCommand, Begin
  <2>2. ~Kill /\ ~Reboot
    BY <1>3 DEF Kill, Reboot
  <2>3. CASE Launchd \/ Crash
    BY <1>0, <1>3, <2>3, OutsideTx DEF SameData, SameFiles, Seen
  <2>4. CASE CommandStep
    <3>1. CASE cmd'.op = cmd.op /\ cmd'.was = cmd.was /\ last' = last /\ (torn => torn')
      BY <1>0, <1>3, <3>1 DEF Seen
    <3>2. CASE Fail \/ Succeed \/ Commit \/ Clear
      <4>1. torn' = torn /\ ~torn
        BY <1>0, <1>3, <3>2 DEF Fail, Succeed, Commit, Clear, End, Report, Step
      <4>2. CASE cmd' = Idle
        BY <1>3, <3>2, <4>1, <4>2, Finished
      <4>3. CASE cmd' # Idle
        <5>1. CASE Fail
          <6>1. /\ cmd' = [Idle EXCEPT !.op = "start", !.at = "sync", !.todo = <<"config">>,
                                       !.ver = cmd.was.config, !.was = cmd.was, !.clean = cmd.clean, !.res = cmd.res]
                /\ last' = last
            BY <4>3, <5>1 DEF Fail, End, Report, Step
          <6>2. cmd'.op = "start" /\ cmd'.was = cmd.was
            BY <6>1 DEF Idle
          <6> QED BY <1>3, <4>1, <6>1, <6>2 DEF Seen
        <5>2. CASE Commit
          <6>1. /\ cmd' = [cmd EXCEPT !.at = "start", !.ok = "ok", !.no = "fail", !.res = "untidy"]
                /\ last' = last
            BY <4>3, <5>2 DEF Commit, End, Report, Step
          <6>2. cmd = [x \in Fields |-> cmd[x]]
            BY DEF LaunchInv, LaunchShape, IsCmd
          <6>3. cmd'.op = cmd.op /\ cmd'.was = cmd.was
            BY <6>1, <6>2 DEF Fields
          <6> QED BY <1>3, <4>1, <6>1, <6>3 DEF Seen
        <5>3. ~Succeed /\ ~Clear
          BY <4>3 DEF Succeed, Clear, End, Report
        <5> QED BY <3>2, <5>1, <5>2, <5>3
      <4> QED BY <4>2, <4>3
    <3> QED BY <2>4, <3>1, <3>2, CommandKept
  <2> QED BY <2>1, <2>2, <2>3, <2>4 DEF LaunchNext
<1> QED BY <1>0, <1>1, <1>2, <1>3

\* A complete installation is replaced by a complete one or by none.
LEMMA SeenStep ==
    ASSUME LaunchInv, LaunchInv', TxInv, TxInv', SeenInv, LaunchNext
    PROVE  SeenInv'
<1> SUFFICES ASSUME ~torn' PROVE Complete(Seen')
  BY DEF SeenInv
<1>1. CASE Seen' = Seen /\ last' = last /\ torn' = torn
  BY <1>1 DEF SeenInv
<1>2. CASE ~torn /\ Whole!Finish /\ Fresh
  <2>1. PICK i, j : i = Seen /\ j = Seen' /\ Complete(i)
    BY <1>2 DEF SeenInv
  <2>2. (IF cmd.op = "none" THEN Inst ELSE cmd.was) = i /\ (IF cmd.op = "none" THEN Inst ELSE cmd.was)' = j
    BY <2>1 DEF Seen
  <2>3. /\ ([op |-> last.op, res |-> last.res]').op = last'.op
        /\ ([op |-> last.op, res |-> last.res]').res = last'.res
    OBVIOUS
  <2>10. i = [x \in {"binary", "config", "plist", "account", "data"} |-> i[x]]
    <3>1. i \in Whole!Whole
      BY <2>1, SeenWhole
    <3> QED BY <3>1 DEF Whole!Whole
  <2>4. CASE Whole!Undone
    <3>1. CASE j = i
      BY <2>1, <3>1
    <3>2. CASE i.data = "absent" /\ j = [i EXCEPT !.data = j.data]
      <4>1. i.plist = Absent
        BY <2>1, <3>2 DEF Complete
      <4>2. j.plist = Absent
        BY <2>10, <3>2, <4>1
      <4> QED BY <2>1, <4>2 DEF Complete
    <3> QED BY <2>2, <2>4, <3>1, <3>2 DEF Whole!Undone
  <2>11. CASE j = i
    BY <2>1, <2>11
  <2>5. CASE Whole!Install /\ last'.op = "install" /\ last'.res # "failed"
    BY <1>2, <2>1, <2>2, <2>5 DEF Whole!Install, Whole!Usable, Whole!Absent, Absent, Complete, WholeAccount, Fresh
  <2>6. CASE Whole!Upgrade /\ last'.op = "upgrade" /\ last'.res # "failed"
    BY <1>2, <2>1, <2>2, <2>6 DEF Whole!Upgrade, Whole!Usable, Whole!Absent, Absent, Complete, WholeAccount, Fresh
  <2>7. CASE Whole!Configure
    <3>1. i.config # Absent /\ j.config # Absent /\ j = [i EXCEPT !.config = j.config]
      BY <2>2, <2>7 DEF Whole!Configure, Whole!Absent, Absent
    <3>2. j.binary = i.binary /\ j.plist = i.plist /\ j.account = i.account /\ j.data = i.data
      BY <2>10, <3>1
    <3> QED BY <2>1, <3>1, <3>2 DEF Complete
  <2>8. CASE Whole!Uninstall \/ Whole!Purge
    <3>1. ASSUME Whole!Uninstall PROVE j.plist = Absent
      <4>1. j = [i EXCEPT !.binary = Absent, !.plist = Absent]
        BY <2>2, <3>1 DEF Whole!Uninstall, Whole!Absent, Absent
      <4> QED BY <2>10, <4>1
    <3>2. ASSUME Whole!Purge PROVE j.plist = Absent
      BY <2>2, <3>2 DEF Whole!Purge, Whole!Absent, Absent
    <3>3. j.plist = Absent
      BY <2>8, <3>1, <3>2
    <3> QED BY <2>1, <3>3 DEF Complete
  <2>9. \/ j = i \/ Whole!Undone \/ Whole!Configure \/ Whole!Uninstall \/ Whole!Purge
        \/ Whole!Install /\ last'.op = "install" /\ last'.res # "failed"
        \/ Whole!Upgrade /\ last'.op = "upgrade" /\ last'.res # "failed"
    BY <1>2, <2>2, <2>3 DEF Whole!Finish
  <2> QED BY <2>4, <2>5, <2>6, <2>7, <2>8, <2>9, <2>11
<1>3. CASE Whole!Tear
  BY <1>3 DEF Whole!Tear
<1> QED BY <1>1, <1>2, <1>3, Refines

LEMMA SeenInit == LaunchInit => SeenInv
<1> SUFFICES ASSUME LaunchInit PROVE Complete(Inst)
  BY IdleFields DEF LaunchInit, SeenInv, Seen
<1>1. PICK i \in Inits :
        /\ file = CASE i = "bare" -> Files(Absent, Absent, Absent, Absent)
                    [] i \in {"kept", "keptroot"} -> Files(Absent, Present, Absent, 1)
                    [] i = "boot" -> Files(Present, Present, AtBoot, 1)
                    [] i = "legacy" -> Files(Legacy, Present, Manual, Absent)
                    [] OTHER -> Files(Present, Present, Manual, 1)
        /\ account = IF i \in {"bare", "legacy", "keptroot"} THEN NoAccount ELSE WholeAccount
        /\ dirs = CASE i = "bare" -> NoDirs
                    [] i \in {"legacy", "keptroot"} ->
                         [worker |-> "absent", data |-> "root", rest |-> {}]
                    [] OTHER -> [worker |-> "worker", data |-> "worker",
                                 rest |-> CASE i = "stopped" -> {"corrupt"}
                                           [] i = "manual" -> {"journal"}
                                           [] OTHER -> {}]
  BY DEF LaunchInit
<1>2. CASE i \in {"bare", "kept", "keptroot"}
  <2>1. file.plist = Absent
    BY <1>1, <1>2 DEF Files
  <2> QED BY <2>1 DEF Complete, Inst
<1>3. CASE i = "legacy"
  <2>1. /\ file.binary = Legacy /\ file.config = Present /\ account = NoAccount /\ dirs.data = "root"
    BY <1>1, <1>3 DEF Files
  <2> QED BY <2>1 DEF Complete, Inst, Absent, Present, Legacy
<1>4. CASE i \notin {"bare", "kept", "keptroot", "legacy"}
  <2>1. /\ file.binary = Present /\ file.config = Present /\ account = WholeAccount /\ dirs.data = "worker"
    BY <1>1, <1>4 DEF Files
  <2> QED BY <2>1 DEF Complete, Inst, Absent, Present, Legacy
<1> QED BY <1>2, <1>3, <1>4

----------------------------------------------------------------------------
(* What was up is up again *)

\* Label l may be next, outside Start and Stop.
UpNext(l) ==
    /\ l \notin Starting \cup Stopping
    /\ cmd.back => l \in Undoing \cup {"fail"}
    /\ l = "fail" /\ cmd.back /\ cmd.up /\ ~cmd.hasty => Ready /\ job.st = "in"

\* The files change only while the job is away or leaving.
Safely == job.st # "in" \/ (Installed => Installed')

LEMMA UpMove ==
    ASSUME UpInv, NEW l, cmd'.op = cmd.op, cmd'.was = cmd.was, cmd'.up = cmd.up, cmd'.at = l, cmd'.hasty = cmd.hasty,
           cmd'.back <=> cmd.back \/ l \in Undoing, torn => torn', job' = job, Ready => Ready', Safely,
           ~torn' => UpNext(l)
    PROVE  UpInv'
BY DEF UpInv, UpNext, Safely, Starting, Stopping, Resuming, Retreating, Undoing

LEMMA UpGoto ==
    ASSUME LaunchInv, UpInv, NEW l, Goto(l), torn' = torn, job' = job, svc' \in {svc, Recovered}, Safely,
           ~torn => UpNext(l)
    PROVE  UpInv'
<1>1. LaunchShape
  BY DEF LaunchInv
<1>2. /\ SameData /\ cmd'.at = l /\ cmd'.up = cmd.up /\ (cmd'.back <=> cmd.back \/ l \in Undoing)
      /\ cmd'.hasty = cmd.hasty
  BY <1>1, GotoData
<1>3. Ready => Ready'
  BY DEF Ready, Recovered
<1> QED BY <1>2, <1>3, UpMove DEF SameData, SameFiles

\* A failed call: nothing was rolled back before, or the roll-back is torn.
LEMMA UpFault ==
    ASSUME LaunchInv, UpInv, NEW l, Fault(l), job' = job, svc' = svc, Safely,
           l \notin Starting \cup Stopping
    PROVE  UpInv'
<1>1. LaunchShape
  BY DEF LaunchInv
<1>2. /\ SameData /\ cmd'.at = l /\ cmd'.up = cmd.up /\ (cmd'.back <=> cmd.back \/ l \in Undoing)
      /\ (torn' <=> torn \/ cmd.back) /\ cmd'.hasty = cmd.hasty
  BY <1>1, FaultData
<1>3. Ready => Ready'
  BY DEF Ready
<1>4. ~torn' => UpNext(l)
  BY <1>2 DEF UpNext
<1> QED BY <1>2, <1>3, <1>4, UpMove DEF SameData, SameFiles

LEMMA UpFaultAt ==
    ASSUME LaunchInv, UpInv, NEW k, NEW l, FaultAt(k, l),
           l \notin Starting \cup Stopping
    PROVE  UpInv'
<1>1. Fault(l) /\ job' = job /\ svc' = svc /\ Safely
  BY DEF FaultAt, host, launchd, Safely, Installed
<1> QED BY <1>1, UpFault

\* The calls that fail outside Start and Stop
LEMMA UpFails ==
    ASSUME LaunchInv, UpInv, Refuse \/ PrepareFails \/ UninstallFails \/ RollbackFails \/ GiveUp
    PROVE  UpInv'
<1> USE DEF Starting, Stopping
<1>0. /\ cmd.at \in Down => job.st = "out"
      /\ cmd.at \in Undoing => cmd.back
      /\ cmd.at = "giveup" => torn
  BY DEF LaunchInv, CommandInv
<1>1. CASE Refuse
  BY <1>1, UpFaultAt DEF Refuse
<1>2. CASE PrepareFails
  <2>0. EarlyFailure \in {"fail", "restore"} /\ FailedActivation \in {"undo", "unload", "restore"}
    BY DEF EarlyFailure, FailedActivation
  <2>1. CASE FaultAt("ensure", EarlyFailure) \/ FaultAt("user", "ungroup") \/ FaultAt("ungroup", EarlyFailure)
             \/ FaultAt("storage", "purge")
    <3>1. cmd.at \in {"ensure", "user", "ungroup", "storage"}
      BY <2>1 DEF FaultAt, At
    <3>2. job.st = "out"
      BY <1>0, <3>1 DEF Down
    <3> QED BY <2>0, <2>1, <3>2, UpFaultAt
  <2>2. CASE FaultAt("activate", FailedActivation)
    <3>1. job.st = "out"
      BY <1>0, <2>2 DEF FaultAt, At, Down
    <3> QED BY <2>0, <2>2, <3>1, UpFaultAt
  <2>3. CASE At("place") /\ Fault(FailedActivation) /\ UNCHANGED launchd
    <3>1. job.st = "out" /\ job' = job /\ svc' = svc
      BY <1>0, <2>3 DEF At, Down, launchd
    <3> QED BY <2>0, <2>3, <3>1, UpFault DEF Safely
  <2> QED BY <1>2, <2>1, <2>2, <2>3 DEF PrepareFails
<1>3. CASE UninstallFails
  <2>1. CASE FaultAt("examine", "restore") \/ FaultAt("remove", "undo") \/ FaultAt("deluser", "undo")
    <3>1. cmd.at \in {"examine", "remove", "deluser"}
      BY <2>1 DEF FaultAt, At
    <3>2. job.st = "out"
      BY <1>0, <3>1 DEF Down
    <3> QED BY <2>1, <3>2, UpFaultAt
  <2>2. CASE At("delgroup") /\ Fault("undo") /\ UNCHANGED <<file, dirs, launchd>>
    <3>1. job.st = "out" /\ job' = job /\ svc' = svc
      BY <1>0, <2>2 DEF At, Down, launchd
    <3> QED BY <2>2, <3>1, UpFault DEF Safely
  <2> QED BY <1>3, <2>1, <2>2 DEF UninstallFails
<1>4. CASE RollbackFails
  <2>1. torn'
    <3>0. cmd.at \in Undoing
      BY <1>4 DEF RollbackFails, FaultAt, At, Undoing
    <3>1. CASE \E l : Fault(l)
      BY <1>0, <3>0, <3>1 DEF Fault
    <3> QED BY <1>4, <3>1 DEF RollbackFails, FaultAt
  <2> QED BY <2>1 DEF UpInv
<1>5. CASE GiveUp
  <2>1. torn /\ torn' = torn
    BY <1>0, <1>5 DEF GiveUp, At, Step
  <2> QED BY <2>1 DEF UpInv
<1> QED BY <1>1, <1>2, <1>3, <1>4, <1>5

\* The account, the storage and the files
LEMMA UpWork ==
    ASSUME LaunchInv, UpInv,
           \/ EnsureGroup \/ EnsureUser \/ Ungroup \/ PrepareStorage \/ Backup \/ Place \/ Unstore \/ RollbackUser
           \/ RollbackGroup \/ Remove \/ Removed \/ PurgeUser \/ PurgeGroup \/ UninstallExamine \/ Undo
    PROVE  UpInv'
<1> USE DEF Starting, Stopping
<1>0. /\ cmd.at \in Down => job.st = "out"
      /\ cmd.at \in Undoing => cmd.back
      /\ cmd.at = "undo" => torn \/ job.st # "in"
      /\ cmd = [x \in Fields |-> cmd[x]] /\ torn \in BOOLEAN
  BY DEF LaunchInv, CommandInv, LaunchShape, IsCmd
<1>1. job' = job /\ svc' \in {svc, Recovered} /\ torn' = torn /\ (Ready => Ready')
  <2>1. job' = job /\ svc' \in {svc, Recovered} /\ torn' = torn
    BY DEF EnsureGroup, EnsureUser, Ungroup, PrepareStorage, Backup, Place, Unstore, RollbackUser, RollbackGroup,
           Remove, Removed, PurgeUser, PurgeGroup, UninstallExamine, Undo, Step, launchd
  <2> QED BY <2>1 DEF Ready, Recovered
<1>2. SUFFICES ASSUME ~torn PROVE UpInv'
  BY <1>1 DEF UpInv
<1>3. cmd.at \in Down \ {"leftover"} => ~cmd.back \/ cmd.at = "ungroup"
  BY <1>2 DEF UpInv, Retreating, Resuming, Down, Undoing
<1>4. CASE EnsureGroup \/ Ungroup
  <2>1. PICK l \in {"storage", "user", "fail", "restore"} : Goto(l) /\ (l = "fail" => cmd.op = "install")
    BY <1>4 DEF EnsureGroup, Ungroup, EarlyFailure
  <2>2. cmd.at \in {"ensure", "ungroup"} /\ (cmd.at = "ungroup" => l \in {"fail", "restore"})
    <3>1. CASE EnsureGroup
      BY <3>1 DEF EnsureGroup, At
    <3>2. CASE Ungroup
      <4>1. cmd.at = "ungroup" /\ cmd'.at \in {"fail", "restore"} /\ cmd'.at = l
        <5>1. LaunchShape
          BY DEF LaunchInv
        <5>2. PICK k \in {"fail", "restore"} : Goto(k)
          BY <3>2 DEF Ungroup, EarlyFailure
        <5> QED BY <2>1, <3>2, <5>1, <5>2, GotoData DEF Ungroup, At
      <4> QED BY <4>1
    <3> QED BY <1>4, <3>1, <3>2
  <2>3. job.st = "out" /\ ~(cmd.op = "install" /\ cmd.up)
    BY <1>0, <1>2, <2>2 DEF Down, UpInv
  <2>4. UpNext(l)
    BY <1>3, <2>1, <2>2, <2>3 DEF UpNext, Down, Undoing
  <2> QED BY <1>1, <2>1, <2>3, <2>4, UpGoto DEF Safely
<1>5. CASE EnsureUser \/ (PrepareStorage /\ dirs.data # "stray") \/ Place \/ Remove
  <2>1. /\ cmd.at \in {"user", "storage", "place", "remove"}
        /\ cmd'.at \in {"storage", "activate", "remove"} /\ cmd'.op = cmd.op /\ cmd'.was = cmd.was /\ cmd'.up = cmd.up
        /\ cmd'.back = cmd.back /\ cmd'.hasty = cmd.hasty
    <3>1. CASE EnsureUser
      BY <1>0, <3>1 DEF EnsureUser, At, Fields
    <3>2. CASE PrepareStorage /\ dirs.data # "stray"
      BY <1>0, <3>2 DEF PrepareStorage, At, Fields
    <3>3. CASE Place
      BY <1>0, <3>3 DEF Place, At, Fields
    <3>4. CASE Remove
      BY <1>0, <3>4 DEF Remove, At, Fields
    <3> QED BY <1>5, <3>1, <3>2, <3>3, <3>4
  <2>2. job.st = "out" /\ ~cmd.back
    BY <1>0, <1>3, <2>1 DEF Down
  <2> QED BY <1>1, <1>2, <2>1, <2>2, UpMove DEF Safely, UpNext, Undoing
<1>6. CASE Backup
  <2>1. job.st = "out" /\ ~cmd.back
    BY <1>0, <1>3, <1>6 DEF Backup, At, Down
  <2>2. CASE Goto(FailedActivation)
    <3>1. PICK l \in {"undo", "unload", "restore"} : Goto(l)
      BY <2>2 DEF FailedActivation
    <3> QED BY <1>1, <2>1, <3>1, UpGoto DEF Safely, UpNext
  <2>3. CASE \E h : cmd' = [cmd EXCEPT !.at = "place", !.held = h]
    <3>1. cmd'.at = "place" /\ cmd'.op = cmd.op /\ cmd'.was = cmd.was /\ cmd'.up = cmd.up /\ cmd'.back = cmd.back
          /\ cmd'.hasty = cmd.hasty
      BY <1>0, <2>3 DEF Fields
    <3> QED BY <1>1, <2>1, <3>1, UpMove DEF Safely, UpNext, Undoing
  <2> QED BY <1>6, <2>2, <2>3 DEF Backup
<1>7. CASE Undo
  <2>1. job.st # "in" /\ cmd.at = "undo" /\ cmd.back
    BY <1>0, <1>2, <1>7 DEF Undo, At, Undoing
  <2>2. CASE Goto("unstore")
    BY <1>1, <2>1, <2>2, UpGoto DEF Safely, UpNext, Undoing
  <2>3. CASE \E d : cmd' = [cmd EXCEPT !.done = d]
    <3>1. cmd'.at = "undo" /\ cmd'.op = cmd.op /\ cmd'.was = cmd.was /\ cmd'.up = cmd.up /\ cmd'.back = cmd.back
          /\ cmd'.hasty = cmd.hasty
      BY <1>0, <2>1, <2>3 DEF Fields
    <3> QED BY <1>1, <2>1, <3>1, UpMove DEF Safely, UpNext, Undoing
  <2> QED BY <1>7, <2>2, <2>3 DEF Undo
<1>8. CASE Unstore \/ RollbackUser \/ RollbackGroup
  <2>1. /\ cmd.at \in {"unstore", "purge", "degroup"} /\ cmd.back
        /\ \/ \E l \in {"purge", "degroup", "restore"} : Goto(l)
           \/ \E v : cmd' = [To("purge") EXCEPT !.left = v]
    BY <1>0, <1>8 DEF Unstore, RollbackUser, RollbackGroup, At, Undoing
  <2>3. LaunchShape
    BY DEF LaunchInv
  <2>4. /\ SameFiles /\ Returns /\ cmd'.at \in {"purge", "degroup", "restore"} /\ cmd'.up = cmd.up /\ cmd'.back
        /\ cmd'.hasty = cmd.hasty
    BY <2>1, <2>3, GotoData, LeftData DEF SameData
  <2>5. Installed' <=> Installed
    <3>1. file'.binary = file.binary /\ file'.config = file.config /\ file'.plist = file.plist
      BY <1>8 DEF Unstore, RollbackUser, RollbackGroup, LaunchInv, LaunchShape
    <3> QED BY <3>1 DEF Installed
  <2> QED BY <1>1, <1>2, <2>1, <2>4, <2>5 DEF UpInv, SameFiles, Resuming, Retreating, Undoing
<1>9. CASE Removed \/ PurgeUser \/ PurgeGroup \/ UninstallExamine
  <2>1. /\ cmd.at \in {"remove", "deluser", "delgroup", "examine"}
        /\ \E l \in {"deluser", "clear", "delgroup", "restore", "remove"} : Goto(l)
    BY <1>9 DEF Removed, PurgeUser, PurgeGroup, UninstallExamine, At
  <2>2. PICK l \in {"deluser", "clear", "delgroup", "restore", "remove"} : Goto(l)
    BY <2>1
  <2>3. job.st = "out" /\ ~cmd.back
    BY <1>0, <1>3, <2>1 DEF Down
  <2> QED BY <1>1, <2>2, <2>3, UpGoto DEF Safely, UpNext
<1>10. CASE PrepareStorage /\ dirs.data = "stray"
  <2>1. Goto("purge") /\ job.st = "out" /\ ~cmd.back
    BY <1>0, <1>3, <1>10 DEF PrepareStorage, At, Down
  <2> QED BY <1>1, <2>1, UpGoto DEF Safely, UpNext
<1> QED BY <1>4, <1>5, <1>6, <1>7, <1>8, <1>9, <1>10

\* The files of a command that has replaced nothing
LEMMA NothingReplaced ==
    ASSUME LaunchInv, TxInv, ~torn, cmd.op # "none", cmd.at # "place", NothingDone
    PROVE  \A a \in Core : Base(a, file[a])
<1>1. TxBody
  BY DEF TxInv
<1>2. cmd.done = <<>> /\ Handled = {}
  BY <1>1 DEF TxBody, TxProgress, Handled
<1>3. Touched = {}
  BY <1>2, NoElems DEF Touched
<1> QED BY <1>1, <1>2, <1>3 DEF TxBody, TxFiles

\* What is restored is installed.
LEMMA ResumesInstalled ==
    ASSUME LaunchInv, TxInv, UpInv, ~torn, Resuming, ~cmd.hasty
    PROVE  Installed
<1>1. cmd.op # "none" /\ cmd.at # "place" /\ NothingDone
  BY DEF LaunchInv, CommandInv, Resuming, Starting, NothingDone
<1>2. Absent \notin {cmd.was.binary, cmd.was.config, cmd.was.plist}
  BY <1>1 DEF UpInv, Resuming
<1>3. \A a \in Core : Base(a, file[a])
  BY <1>1, NothingReplaced
<1> QED BY <1>2, <1>3 DEF Base, Core, Installed

\* It can run, too.
LEMMA ResumesUsable ==
    ASSUME LaunchInv, TxInv, SeenInv, UpInv, ~torn, Resuming, ~cmd.hasty, svc.alive, job.st = "in"
    PROVE  Usable
<1>1. cmd.op # "none" /\ cmd.at # "place" /\ NothingDone /\ Undone
  BY DEF LaunchInv, CommandInv, Resuming, Starting, NothingDone, Undone
<1>2. Absent \notin {cmd.was.binary, cmd.was.config, cmd.was.plist} /\ Complete(cmd.was)
  BY <1>1 DEF UpInv, Resuming, SeenInv, Seen
<1>3. file.binary = cmd.was.binary
  BY <1>1, NothingReplaced DEF Base, Core
<1>4. /\ account = cmd.was.account
      /\ dirs.data = cmd.was.data \/ cmd.was.data = "absent"
  BY <1>1 DEF TxInv, TxBody, TxIdentity, TxStorage, StaysBehind
<1>5. svc.runs[1] = file.binary
  <2>1. svc.runs = <<file.binary, file.config>>
    BY DEF LaunchInv, ProcessInv
  <2> QED BY <2>1
<1>6. CASE cmd.was.binary = Legacy
  BY <1>2, <1>3, <1>4, <1>5, <1>6 DEF Complete, Usable
<1>7. CASE cmd.was.binary # Legacy
  BY <1>2, <1>3, <1>4, <1>5, <1>7 DEF Complete, Usable
<1> QED BY <1>6, <1>7

LEMMA UpStart ==
    ASSUME LaunchInv, TxInv, SeenInv, UpInv, StartEnable \/ StartBootstrap \/ StartKick \/ StartReady \/ StartHopeless \/ StartFails
    PROVE  UpInv'
<1>0. /\ LaunchShape /\ torn \in BOOLEAN
      /\ cmd.at \in Starting
      /\ cmd.ok \in {"commit", "ok", "fail"} /\ cmd.no \in {"unload", "syncstop", "fail"}
  <2>1. cmd.at \in Starting
    BY DEF StartEnable, StartBootstrap, StartKick, StartReady, StartHopeless, StartFails, FaultAt, At, Starting
  <2> QED BY <2>1 DEF LaunchInv, LaunchShape, CommandInv
<1>1. /\ file' = file /\ svc' = svc /\ (Installed' <=> Installed) /\ (Ready' <=> Ready)
  <2>1. file' = file /\ svc' = svc
    BY DEF StartEnable, StartBootstrap, StartKick, StartReady, StartHopeless, StartFails, FaultAt, host, launchd
  <2> QED BY <2>1 DEF Installed, Ready
<1>2. ~torn /\ ~Resuming => ~cmd.back
  BY <1>0 DEF UpInv, Retreating, Undoing, Starting, Stopping
<1>3. CASE StartEnable
  <2>1. torn' = torn /\ job' = job /\ cmd.at = "start"
    BY <1>3 DEF StartEnable, Step, At
  <2>2. CASE Installed
    <3>1. Goto("bootstrap")
      BY <1>3, <2>2 DEF StartEnable
    <3>2. SameData /\ Returns /\ cmd'.at = "bootstrap" /\ cmd'.up = cmd.up /\ (cmd'.back <=> cmd.back)
          /\ cmd'.hasty = cmd.hasty
      BY <1>0, <3>1, GotoData DEF Undoing
    <3> QED BY <1>0, <1>1, <2>1, <2>2, <3>2
            DEF UpInv, SameData, SameFiles, Returns, Resuming, Retreating, Undoing, Starting, Stopping
  <2>3. CASE ~Installed
    <3>1. Goto(cmd.no)
      BY <1>3, <2>3 DEF StartEnable
    <3>2. ~torn => ~cmd.back \/ (cmd.hasty /\ cmd.no = "fail")
      BY <1>2, <2>3, ResumesInstalled DEF Resuming, LaunchInv, CommandInv
    <3> QED BY <1>0, <1>1, <2>1, <3>1, <3>2, UpGoto DEF UpNext, Starting, Stopping, Safely
  <2> QED BY <2>2, <2>3
<1>4. CASE StartBootstrap
  <2>1. /\ torn' = torn /\ cmd.at = "bootstrap" /\ cmd'.at = "kick"
        /\ SameData /\ Returns /\ cmd'.up = cmd.up /\ (cmd'.back <=> cmd.back)
        /\ (cmd'.hasty <=> cmd.hasty \/ job.st = "leaving")
    <3>1. PICK h : cmd' = [To("kick") EXCEPT !.hasty = h] /\ (h <=> cmd.hasty \/ job.st = "leaving")
      <4>1. LET c == To("kick") IN c.hasty = cmd.hasty
        BY <1>0, ToData
      <4> QED BY <1>4, <4>1 DEF StartBootstrap
    <3>2. torn' = torn /\ cmd.at = "bootstrap"
      BY <1>4 DEF StartBootstrap, Step, At
    <3> QED BY <1>0, <3>1, <3>2, HastyData DEF Undoing
  <2>2. \/ job.st = "out" /\ job'.st = "in"
        \/ job.st # "out" /\ job' = job
    BY <1>4 DEF StartBootstrap, Loaded, JobOf
  <2>3. job.st \in {"out", "in", "leaving"}
    BY <1>0 DEF LaunchShape
  <2> QED BY <1>0, <1>1, <2>1, <2>2, <2>3
          DEF UpInv, SameData, SameFiles, Returns, Resuming, Retreating, Undoing, Starting, Stopping
<1>8. CASE StartKick
  <2>1. /\ torn' = torn /\ cmd.at = "kick" /\ cmd'.at = "ready"
        /\ SameData /\ Returns /\ cmd'.up = cmd.up /\ (cmd'.back <=> cmd.back) /\ cmd'.hasty = cmd.hasty
    BY <1>0, <1>8, GotoData DEF StartKick, Step, At, Undoing
  <2>2. job'.st = job.st /\ (job.st = "in" => svc.alive \/ job'.want)
    BY <1>0, <1>8 DEF StartKick, LaunchShape
  <2> QED BY <1>0, <1>1, <2>1, <2>2
          DEF UpInv, SameData, SameFiles, Returns, Resuming, Retreating, Undoing, Starting, Stopping
<1>5. CASE StartReady
  <2>1. torn' = torn /\ job' = job /\ cmd.at = "ready" /\ Goto(cmd.ok) /\ Ready
    BY <1>5 DEF StartReady, Step, At, launchd
  <2>2. ~torn => UpNext(cmd.ok)
    BY <1>0, <1>2, <2>1 DEF UpInv, UpNext, Resuming, Starting, Stopping
  <2> QED BY <1>1, <2>1, <2>2, UpGoto DEF Safely
<1>6. CASE StartHopeless
  <2>1. /\ torn' = torn /\ job' = job /\ cmd.at = "ready" /\ Goto(cmd.no) /\ Hopeless
    BY <1>6 DEF StartHopeless, Step, At, launchd
  <2>2. ASSUME ~torn, Resuming, ~cmd.hasty PROVE FALSE
    <3>1. job.st = "in" /\ (svc.alive \/ job.want)
      BY <2>1, <2>2 DEF UpInv
    <3>2. svc.alive => Usable
      BY <2>2, <3>1, ResumesUsable
    <3> QED BY <2>1, <3>1, <3>2 DEF Hopeless
  <2>3. ~torn => UpNext(cmd.no)
    BY <1>0, <1>2, <2>2 DEF UpNext, Starting, Stopping, Undoing, Resuming, LaunchInv, CommandInv
  <2> QED BY <1>1, <2>1, <2>3, UpGoto DEF Safely
<1>7. CASE StartFails
  <2>1. CASE FaultAt("start", cmd.no) \/ FaultAt("bootstrap", cmd.no) \/ FaultAt("ready", cmd.no)
    BY <1>0, <2>1, UpFaultAt DEF Starting, Stopping
  <2>2. CASE FaultAt("kick", "ready")
    <3>1. Fault("ready") /\ job' = job /\ cmd.at = "kick"
      BY <2>2 DEF FaultAt, At, launchd
    <3>2. SameData /\ Returns /\ cmd'.at = "ready" /\ cmd'.up = cmd.up /\ (cmd'.back <=> cmd.back)
          /\ (torn' <=> torn \/ cmd.back) /\ cmd'.hasty = cmd.hasty
      BY <1>0, <3>1, FaultData DEF Undoing
    <3> QED BY <1>0, <1>1, <3>1, <3>2
            DEF UpInv, SameData, SameFiles, Returns, Resuming, Retreating, Undoing, Starting, Stopping
  <2> QED BY <1>7, <2>1, <2>2 DEF StartFails
<1> QED BY <1>3, <1>4, <1>5, <1>6, <1>7, <1>8

LEMMA UpStop ==
    ASSUME LaunchInv, UpInv, StopDisable \/ StopBootout \/ StopUnloaded \/ StopRecover \/ StopFails
    PROVE  UpInv'
<1>0. /\ LaunchShape /\ torn \in BOOLEAN /\ cmd.at \in Stopping
      /\ \/ cmd.ok \in {"ok", "activate", "restarting", "ensure", "examine"} /\ cmd.no = "fail"
         \/ cmd.ok = "undo" /\ cmd.no = "giveup" /\ cmd.back
      /\ Running => Loaded
      /\ cmd.at = "leftover" => job.st = "out"
  <2>1. cmd.at \in Stopping
    BY DEF StopDisable, StopBootout, StopUnloaded, StopRecover, StopFails, FaultAt, At, Stopping
  <2> QED BY <2>1 DEF LaunchInv, LaunchShape, CommandInv, ProcessInv, Running, Loaded, Down
<1>1. file' = file /\ (Installed' <=> Installed)
  <2>1. file' = file
    BY DEF StopDisable, StopBootout, StopUnloaded, StopRecover, StopFails, FaultAt, host
  <2> QED BY <2>1 DEF Installed
<1>2. ~torn => (cmd.back <=> cmd.ok = "undo")
  BY <1>0 DEF UpInv, Retreating, Resuming, Undoing, Starting, Stopping
<1>3. CASE StopDisable
  <2>1. /\ torn' = torn /\ job' = job /\ svc' = svc
        /\ cmd'.at = (IF Loaded THEN "bootout" ELSE "leftover")
        /\ cmd'.op = cmd.op /\ cmd'.was = cmd.was /\ cmd'.up = cmd.up /\ cmd'.back = cmd.back /\ Returns
        /\ cmd'.hasty = cmd.hasty
    BY <1>0, <1>3 DEF StopDisable, Step, LaunchShape, IsCmd, Fields, Returns
  <2> QED BY <1>0, <1>1, <1>2, <2>1
          DEF UpInv, Returns, Resuming, Retreating, Undoing, Starting, Stopping, Loaded
<1>4. CASE StopBootout \/ StopUnloaded
  <2>1. /\ torn' = torn /\ cmd'.at \in {"unloading", "leftover"} /\ SameData /\ Returns /\ cmd'.up = cmd.up
        /\ (cmd'.back <=> cmd.back) /\ cmd'.hasty = cmd.hasty
    <3>1. PICK l \in {"unloading", "leftover"} : Goto(l)
      BY <1>4 DEF StopBootout, StopUnloaded
    <3>2. torn' = torn
      BY <1>4 DEF StopBootout, StopUnloaded, Step
    <3> QED BY <1>0, <3>1, <3>2, GotoData DEF Undoing
  <2>2. job'.st = "leaving" \/ job' = job
    BY <1>0, <1>4 DEF StopBootout, StopUnloaded, Leaving, LaunchShape, launchd
  <2> QED BY <1>0, <1>1, <1>2, <2>1, <2>2
          DEF UpInv, SameData, SameFiles, Returns, Resuming, Retreating, Undoing, Starting, Stopping
<1>5. CASE StopRecover
  <2>1. torn' = torn /\ job' = job /\ svc' \in {svc, Recovered} /\ cmd.at = "leftover" /\ Goto(cmd.ok) /\ job.st = "out"
    BY <1>0, <1>5 DEF StopRecover, Step, At, Loaded
  <2>2. ~torn => UpNext(cmd.ok)
    BY <1>0, <1>2, <2>1 DEF UpNext, Starting, Stopping, Undoing
  <2> QED BY <1>1, <2>1, <2>2, UpGoto DEF Safely
<1>6. CASE StopFails
  <2>1. cmd.no \in {"fail", "giveup"}
    BY <1>0
  <2>2. \E k : FaultAt(k, cmd.no)
    BY <1>6 DEF StopFails
  <2> QED BY <2>1, <2>2, UpFaultAt DEF Starting, Stopping
<1> QED BY <1>3, <1>4, <1>5, <1>6

\* The commands' own steps, up to Stop and Start
LEMMA UpOwn ==
    ASSUME LaunchInv, TxInv, UpInv,
           InstallCheck \/ Sync \/ SyncInvalid \/ Upgrade \/ Restart \/ Restarting \/ Uninstall
    PROVE  UpInv'
<1> USE DEF Starting, Stopping
<1>0. /\ cmd = [x \in Fields |-> cmd[x]] /\ LaunchShape
      /\ cmd.at \in {"install", "sync", "upgrade", "restart", "restarting", "uninstall"}
      /\ torn' = torn /\ job' = job /\ svc' = svc /\ file' = file
  BY DEF LaunchInv, LaunchShape, IsCmd, InstallCheck, Sync, SyncInvalid, Upgrade, Restart, Restarting, Uninstall,
         At, Step, host, launchd
<1>1. SUFFICES ASSUME ~torn PROVE UpInv'
  BY <1>0 DEF UpInv
<1>2. ~cmd.back /\ (Installed' <=> Installed) /\ Safely
  BY <1>0, <1>1 DEF UpInv, Undoing, Retreating, Resuming, Installed, Safely
<1>3. CASE \E l \in {"fail", "ensure"} : Goto(l)
  BY <1>0, <1>2, <1>3, UpGoto DEF UpNext
<1>4. ASSUME cmd'.at \in {"stop", "start", "fail"}, cmd'.ok # "fail", cmd'.op = cmd.op, cmd'.was = cmd.was,
             cmd'.back = cmd.back,
             \/ cmd'.up = cmd.up /\ cmd'.hasty = cmd.hasty
             \/ /\ cmd.op # "install"
                /\ cmd'.up /\ ~cmd'.hasty => Absent \notin {cmd.was.binary, cmd.was.config, cmd.was.plist}
      PROVE  UpInv'
  BY <1>0, <1>1, <1>2, <1>4 DEF UpInv, Undoing, Retreating, Resuming
<1>5. CASE Restart /\ Call("stop", "restarting", "fail")
  BY <1>0, <1>4, <1>5, CallData DEF SameData, SameFiles
<1>6. CASE Restarting
  BY <1>0, <1>4, <1>6, CallData DEF SameData, SameFiles, Restarting
<1>7. CASE SyncInvalid
  BY <1>0, <1>4, <1>7 DEF SyncInvalid, Fields
<1> DEFINE Stops == /\ cmd'.at = "stop" /\ cmd'.ok # "fail" /\ cmd'.op = cmd.op /\ cmd'.was = cmd.was
                    /\ cmd'.back = cmd.back /\ (cmd'.up /\ ~cmd'.hasty => Installed)
                    /\ cmd.at \in {"sync", "upgrade", "uninstall"}
<1>8. CASE Stops
  <2>3. cmd.op \notin {"none", "install"} /\ TxBody
    BY <1>1, <1>8 DEF LaunchInv, CommandInv, TxInv, TxBody, TxOps, Clearers
  <2>4. ASSUME cmd'.up, ~cmd'.hasty PROVE Absent \notin {cmd.was.binary, cmd.was.config, cmd.was.plist}
    <3>1. \A a \in Core : Base(a, file[a])
      BY <1>1, <1>8, <2>3, NothingReplaced DEF NothingDone
    <3>2. cmd.op = "start" /\ cmd.res = "untidy" => cmd.was.config # Absent
      BY <2>3 DEF TxBody, TxBefore
    <3> QED BY <1>8, <2>4, <3>1, <3>2 DEF Base, Core, Installed
  <2> QED BY <1>4, <1>8, <2>3, <2>4
<1>9. Running /\ job.st # "leaving" => Installed
  BY <1>0, <1>1 DEF LaunchInv, LaunchShape, ProcessInv, Running, UpInv
<1>10. Sync \/ Upgrade \/ Uninstall => Stops \/ Goto("fail")
  <2>1. CASE Sync
    BY <1>0, <2>1 DEF Sync, At, Goto, Fields
  <2>2. CASE Upgrade
    BY <1>0, <2>2 DEF Upgrade, At, Goto, Fields
  <2>3. CASE Uninstall
    BY <1>0, <1>9, <2>3 DEF Uninstall, At, Fields
  <2> QED BY <2>1, <2>2, <2>3
<1>11. InstallCheck => \E l \in {"fail", "ensure"} : Goto(l)
  BY DEF InstallCheck
<1>12. Restart => Call("stop", "restarting", "fail") \/ Goto("fail")
  BY DEF Restart
<1> QED BY <1>3, <1>5, <1>6, <1>7, <1>8, <1>10, <1>11, <1>12

\* The steps between Start, Stop and the files
LEMMA UpBetween ==
    ASSUME "install" \notin CommitFaults, LaunchInv, UpInv,
           Activated \/ CommitFails \/ Unload \/ RollbackRecover \/ SyncStop \/ Restore \/ ClearFails
    PROVE  UpInv'
<1> USE DEF Starting, Stopping
<1>0. /\ cmd = [x \in Fields |-> cmd[x]] /\ LaunchShape /\ torn' = torn /\ file' = file
      /\ cmd.at \in Undoing => cmd.back
      /\ cmd.at \in Down => job.st = "out"
      /\ cmd.at \in {"recover", "undo"} => torn \/ job.st # "in"
  BY DEF LaunchInv, LaunchShape, CommandInv, IsCmd, Activated, CommitFails, Unload, RollbackRecover, SyncStop,
         Restore, ClearFails, Step, host
<1>1. SUFFICES ASSUME ~torn PROVE UpInv'
  BY <1>0 DEF UpInv
<1>2. (Installed' <=> Installed) /\ Safely
  BY <1>0 DEF Installed, Safely
<1>3. cmd.at \in {"activate", "commit", "clear"} => ~cmd.back
  BY <1>1 DEF UpInv, Undoing, Retreating, Resuming
<1>4. CASE Activated
  <2>1. cmd.at = "activate" /\ job' = job /\ svc' = svc
    BY <1>4 DEF Activated, At, launchd
  <2>2. CASE Goto("commit")
    BY <1>0, <1>2, <1>3, <2>1, <2>2, UpGoto DEF UpNext
  <2>3. CASE \E no : Call("start", "commit", no)
    BY <1>0, <1>1, <1>2, <1>3, <2>1, <2>3, CallData
    DEF UpInv, SameData, SameFiles, Undoing, Retreating, Resuming
  <2> QED BY <1>4, <2>2, <2>3 DEF Activated
<1>5. CASE CommitFails
  <2>1. cmd.at = "commit" /\ job' = job /\ svc' = svc /\ cmd.op # "install"
    BY <1>5 DEF CommitFails, At, launchd
  <2>2. PICK c : c = To("fail")
    OBVIOUS
  <2>3. /\ IsCmd(c) /\ c.at = "fail" /\ c.up = cmd.up /\ (c.back <=> cmd.back) /\ c.op = cmd.op /\ c.was = cmd.was
        /\ c.hasty = cmd.hasty
    BY <1>0, <2>2, ToData DEF Undoing
  <2>4. cmd' = [c EXCEPT !.clean = FALSE, !.res = "untidy"]
    BY <1>5, <2>1, <2>2 DEF CommitFails
  <2>5. cmd'.at = "fail" /\ cmd'.up = cmd.up /\ (cmd'.back <=> cmd.back) /\ cmd'.op = cmd.op /\ cmd'.was = cmd.was
        /\ cmd'.hasty = cmd.hasty
    BY <2>3, <2>4 DEF IsCmd, Fields
  <2>6. Ready => Ready'
    BY <2>1 DEF Ready
  <2> QED BY <1>0, <1>2, <1>3, <2>1, <2>5, <2>6, UpMove DEF UpNext, Undoing
<1>6. CASE Unload
  <2>1. /\ cmd.at = "unload" /\ cmd.back /\ svc' = svc /\ job'.st # "in"
        /\ Goto("recover")
    BY <1>0, <1>6 DEF Unload, At, Loaded, Undoing, Leaving, LaunchShape
  <2>2. SameData /\ Returns /\ cmd'.at = "recover" /\ cmd'.up = cmd.up /\ cmd'.hasty = cmd.hasty
    BY <1>0, <2>1, GotoData
  <2> QED BY <1>0, <1>1, <1>2, <2>1, <2>2 DEF UpInv, SameData, SameFiles, Undoing, Retreating, Resuming
<1>7. CASE RollbackRecover
  <2>1. /\ cmd.at = "recover" /\ cmd.back /\ job' = job /\ svc' \in {svc, Recovered} /\ Goto("undo")
    BY <1>0, <1>7 DEF RollbackRecover, At, Undoing
  <2> QED BY <1>0, <1>2, <2>1, UpGoto DEF UpNext, Undoing
<1>8. CASE SyncStop
  <2>1. cmd.at = "syncstop" /\ job' = job /\ svc' = svc /\ Call("stop", "undo", "giveup")
    BY <1>8 DEF SyncStop, At, launchd
  <2> QED BY <1>0, <1>1, <1>2, <2>1, CallData DEF UpInv, SameData, SameFiles, Undoing, Retreating, Resuming
<1>9. CASE Restore
  <2>1. cmd.at = "restore" /\ cmd.back /\ job' = job /\ svc' = svc
    BY <1>0, <1>9 DEF Restore, At, launchd, Undoing
  <2>2. CASE cmd.up
    <3>1. Call("start", "fail", "fail")
      BY <1>9, <2>2 DEF Restore
    <3> QED BY <1>0, <1>1, <1>2, <2>1, <2>2, <3>1, CallData
            DEF UpInv, SameData, SameFiles, Undoing, Retreating, Resuming
  <2>3. CASE ~cmd.up
    <3>1. Goto("fail")
      BY <1>9, <2>3 DEF Restore
    <3> QED BY <1>0, <1>2, <2>1, <2>3, <3>1, UpGoto DEF UpNext
  <2> QED BY <2>2, <2>3
<1>10. CASE ClearFails
  <2>1. /\ cmd.at = "clear" /\ job' = job /\ svc' = svc /\ cmd'.at = "clear" /\ cmd'.op = cmd.op /\ cmd'.was = cmd.was
        /\ cmd'.up = cmd.up /\ cmd'.back = cmd.back /\ cmd'.hasty = cmd.hasty
    BY <1>0, <1>10 DEF ClearFails, At, launchd, Fields
  <2> QED BY <1>0, <1>1, <1>2, <1>3, <2>1 DEF UpInv, Undoing, Retreating, Resuming
<1> QED BY <1>4, <1>5, <1>6, <1>7, <1>8, <1>9, <1>10

\* launchd and the service process
LEMMA UpOutside ==
    ASSUME LaunchInv, TxInv, SeenInv, UpInv, Launchd \/ Crash
    PROVE  UpInv'
<1>0. /\ SameData /\ cmd'.at = cmd.at /\ (torn => torn') /\ SameHost /\ LaunchShape
  BY OutsideTx DEF LaunchInv
<1>1. Returns /\ cmd'.up = cmd.up /\ (cmd'.back <=> cmd.back) /\ cmd'.hasty = cmd.hasty
  BY <1>0 DEF Launchd, Spawn, BecomeReady, StartupFails, Exit, Gone, Crash, LaunchShape, IsCmd, Fields, Returns
<1>2. Installed' <=> Installed
  BY <1>0 DEF SameHost, Installed, Core
<1>3. job'.st = job.st \/ (job.st = "leaving" /\ job'.st = "out")
  <2>1. CASE Launchd
    <3>1. \/ job' = job
          \/ \E w : job' = [job EXCEPT !.want = w]
          \/ job.st = "leaving" /\ job' = NoJob
      BY <2>1 DEF Launchd, Spawn, BecomeReady, StartupFails, Exit, Gone
    <3>2. CASE \E w : job' = [job EXCEPT !.want = w]
      <4>1. PICK w : job' = [job EXCEPT !.want = w]
        BY <3>2
      <4>2. job = [x \in {"st", "keep", "want"} |-> job[x]]
        BY <1>0 DEF LaunchShape
      <4> QED BY <4>1, <4>2
    <3>3. NoJob.st = "out"
      BY DEF NoJob
    <3> QED BY <3>1, <3>2, <3>3
  <2>2. CASE Crash
    BY <1>0, <2>2 DEF Crash, LaunchShape
  <2> QED BY <2>1, <2>2
<1>4. ASSUME ~torn', cmd.back, Ready, job.st = "in" PROVE Ready'
  <2>1. svc.alive /\ svc.phase = "running"
    BY <1>4 DEF Ready
  <2>2. ~Crash /\ ~Spawn /\ ~BecomeReady /\ ~StartupFails /\ ~Exit
    BY <1>4, <2>1 DEF Crash, Spawn, BecomeReady, StartupFails, Exit
  <2>3. svc' = svc
    BY <2>2 DEF Launchd, Gone
  <2> QED BY <2>1, <2>3 DEF Ready
<1>5. ASSUME ~torn', Resuming, ~cmd.hasty, job.st = "in", svc.alive \/ job.want PROVE (svc.alive \/ job.want)'
  <2>1. ~torn /\ cmd.back
    BY <1>0, <1>5 DEF UpInv
  <2>2. ~Crash /\ ~Exit /\ ~Gone
    BY <1>5, <2>1 DEF Crash, Exit, Gone
  <2>3. ~StartupFails
    BY <1>5, <2>1, ResumesUsable DEF StartupFails
  <2>4. CASE Spawn
    BY <2>4 DEF Spawn
  <2>5. CASE BecomeReady
    BY <1>0, <2>5 DEF BecomeReady, LaunchShape
  <2> QED BY <2>2, <2>3, <2>4, <2>5 DEF Launchd
<1>6. SUFFICES ASSUME ~torn' PROVE UpInv'
  BY DEF UpInv
<1>7. ~torn
  BY <1>0, <1>6
<1>8. Resuming' <=> Resuming
  BY <1>0, <1>1 DEF Resuming, Returns
<1>9. Retreating' <=> Retreating
  BY <1>0, <1>1 DEF Retreating, Returns
<1> QED BY <1>0, <1>1, <1>2, <1>3, <1>4, <1>5, <1>6, <1>7, <1>8, <1>9 DEF UpInv, SameData, SameFiles

\* The end of a command, a second attempt, a reboot
LEMMA UpEnds ==
    ASSUME LaunchInv, TxInv, SeenInv, UpInv, Fail \/ Succeed \/ Commit \/ Clear \/ Kill \/ Reboot
    PROVE  UpInv'
<1>0. torn \in BOOLEAN /\ cmd = [x \in Fields |-> cmd[x]]
  BY DEF LaunchInv, LaunchShape, IsCmd
<1>1. SUFFICES ASSUME ~torn' PROVE UpInv'
  BY DEF UpInv
<1>2. ASSUME cmd'.at \in {"idle", "sync"}, ~cmd'.up, ~cmd'.back, job'.st = "in" => Installed'
      PROVE  UpInv'
  BY <1>2 DEF UpInv, Resuming, Retreating, Undoing, Starting, Stopping
<1>3. Idle.at = "idle" /\ Idle.up = FALSE /\ Idle.back = FALSE
  BY DEF Idle
<1>4. CASE Fail \/ Succeed \/ Commit \/ Clear
  <2>1. ~torn /\ file' = file /\ job' = job /\ svc' = svc
    BY <1>1, <1>4 DEF Fail, Succeed, Commit, Clear, End, Report, Step, host, launchd
  <2>2. job'.st = "in" => Installed'
    BY <2>1 DEF UpInv, Installed
  <2>3. CASE cmd' = Idle
    BY <1>2, <1>3, <2>2, <2>3
  <2>4. CASE Fail /\ cmd.again
    <3>1. cmd' = [Idle EXCEPT !.op = "start", !.at = "sync", !.todo = <<"config">>,
                              !.ver = cmd.was.config, !.was = cmd.was, !.clean = cmd.clean, !.res = cmd.res]
      BY <2>4 DEF Fail
    <3>2. cmd'.at = "sync" /\ cmd'.up = FALSE /\ cmd'.back = FALSE
      BY <3>1 DEF Idle
    <3> QED BY <1>2, <2>2, <3>2
  <2>5. CASE Commit /\ cmd.op = "start" /\ ~cmd.up
    <3>1. cmd' = [cmd EXCEPT !.at = "start", !.ok = "ok", !.no = "fail", !.res = "untidy"] /\ cmd.at = "commit"
      BY <2>5 DEF Commit, At
    <3>2. cmd'.at = "start" /\ cmd'.ok = "ok" /\ cmd'.up = cmd.up /\ cmd'.back = cmd.back /\ cmd'.op = cmd.op
          /\ cmd'.hasty = cmd.hasty
      BY <1>0, <3>1 DEF Fields
    <3> QED BY <2>1, <2>2, <2>5, <3>1, <3>2 DEF UpInv, Resuming, Retreating, Undoing, Starting, Stopping
  <2> QED BY <1>4, <2>3, <2>4, <2>5 DEF Fail, Succeed, Commit, Clear, End, Report
<1>5. CASE Kill
  BY <1>1, <1>5 DEF Kill
<1>6. CASE Reboot
  <2>1. cmd.op = "none" /\ ~torn /\ cmd' = Idle /\ file' = file
    BY <1>0, <1>1, <1>6 DEF Reboot
  <2>2. file.plist # Absent => Installed'
    BY <2>1 DEF SeenInv, Seen, Complete, Inst, Installed
  <2>3. job'.st # "out" => file.plist # Absent
    BY <1>6 DEF Reboot, NoJob
  <2> QED BY <1>2, <1>3, <2>1, <2>2, <2>3
<1> QED BY <1>4, <1>5, <1>6

LEMMA UpInit == LaunchInit => UpInv
<1> SUFFICES ASSUME LaunchInit PROVE UpInv
  OBVIOUS
<1>1. cmd.at = "idle" /\ ~cmd.up /\ ~cmd.back
  BY DEF LaunchInit, Idle
<1>2. job.st # "out" => Installed
  <2>1. PICK i \in Inits :
        /\ file = CASE i = "bare" -> Files(Absent, Absent, Absent, Absent)
                    [] i \in {"kept", "keptroot"} -> Files(Absent, Present, Absent, 1)
                    [] i = "boot" -> Files(Present, Present, AtBoot, 1)
                    [] i = "legacy" -> Files(Legacy, Present, Manual, Absent)
                    [] OTHER -> Files(Present, Present, Manual, 1)
        /\ job = IF i \in {"manual", "boot"} THEN [st |-> "in", keep |-> i = "boot", want |-> FALSE] ELSE NoJob
    BY DEF LaunchInit
  <2>2. CASE i \in {"manual", "boot"}
    <3>1. file.binary = Present /\ file.config = Present /\ file.plist \in {Manual, AtBoot}
      BY <2>1, <2>2 DEF Files
    <3> QED BY <3>1 DEF Installed, Absent, Present, Manual, AtBoot
  <2>3. CASE i \notin {"manual", "boot"}
    BY <2>1, <2>3 DEF NoJob
  <2> QED BY <2>2, <2>3
<1> QED BY <1>1, <1>2 DEF UpInv, Resuming, Retreating, Undoing, Starting, Stopping

LEMMA UpStep ==
    ASSUME "install" \notin CommitFaults, LaunchInv, TxInv, SeenInv, UpInv, [LaunchNext]_vars
    PROVE  UpInv'
<1>1. CASE UNCHANGED vars
  BY <1>1 DEF vars, UpInv, Resuming, Retreating, Installed, Ready
<1>2. CASE BeginCommand
  <2>1. Begun
    BY <1>2, BeginCommandTx
  <2> QED BY <2>1 DEF Begun, UpInv, Resuming, Retreating, Undoing, Starting, Stopping, Installed
<1>3. CASE CommandStep
  BY <1>3, UpFails, UpWork, UpStart, UpStop, UpOwn, UpBetween, UpEnds DEF CommandStep
<1>4. CASE Launchd \/ Crash
  BY <1>4, UpOutside
<1>5. CASE Kill \/ Reboot
  BY <1>5, UpEnds
<1> QED BY <1>1, <1>2, <1>3, <1>4, <1>5 DEF LaunchNext

----------------------------------------------------------------------------
(* The end of an uninstallation *)

\* A command that nobody killed ends in one of these steps.
LEMMA Endings ==
    ASSUME LaunchInv, LaunchNext, cmd.op # "none", cmd'.op = "none", last'.res # "killed"
    PROVE  Fail \/ Succeed \/ Commit \/ Clear
<1>1. ~BeginCommand
  BY IdleFields DEF BeginCommand, Begin
<1>2. ~Launchd
  BY DEF Launchd, Spawn, BecomeReady, StartupFails, Exit, Gone
<1>3. ~Crash
  BY DEF Crash, LaunchInv, LaunchShape, IsCmd, Fields
<1>4. ~(Kill \/ Reboot)
  <2> SUFFICES ASSUME last' = [op |-> cmd.op, res |-> "killed", clean |-> FALSE, loaded |-> FALSE, left |-> FALSE]
               PROVE  FALSE
    BY DEF Kill, Reboot
  <2> QED
    OBVIOUS
<1> QED
  BY <1>1, <1>2, <1>3, <1>4, CommandKept DEF LaunchNext

\* What an uninstallation without a failing call leaves
LEMMA UninstallEnd ==
    ASSUME LaunchInv, LaunchNext, cmd.op \in {"uninstall", "purge"}, cmd'.op = "none",
           last'.res # "killed", cmd.clean
    PROVE  \/ /\ last'.res = "ok"
              /\ file'.binary = Absent /\ file'.plist = Absent
              /\ job'.st = "out" /\ svc' = Dead("")
              /\ cmd.op = "purge" => file'.config = Absent /\ account' = NoAccount
           \/ cmd.op = "purge" /\ account # WholeAccount
<1>1. Fail \/ Succeed \/ Commit \/ Clear
  BY Endings
<1>2. \/ Clear /\ cmd.at = "clear"
      \/ cmd.at \in {"fail", "ok", "commit"}
  BY <1>1 DEF Clear, Fail, Succeed, Commit, At
<1>3. CASE Clear /\ cmd.at = "clear"
  <2>1. /\ cmd.res = "failed" /\ svc = Dead("") /\ job.st = "out"
        /\ file.plist = Absent /\ file.binary = Absent /\ (cmd.op = "purge" => file.config = Absent)
        /\ cmd.op = "purge" => account = NoAccount
    BY <1>3 DEF LaunchInv, UninstallInv, CommandInv, Down
  <2>2. UNCHANGED <<file, account, job, svc>>
    BY <1>3 DEF Clear, launchd
  <2>3. last'.res = "ok"
    BY <1>3, <2>1 DEF Clear, Report
  <2> QED
    BY <2>1, <2>2, <2>3
<1>4. CASE cmd.at \in {"fail", "ok", "commit"}
  BY <1>4 DEF LaunchInv, UninstallInv, Starting, Stopping
<1> QED
  BY <1>2, <1>3, <1>4

\* A command that ends in failure after a roll-back has the service that was up ready.
LEMMA UpEnd ==
    ASSUME LaunchInv, TxInv, UpInv, LaunchNext,
           cmd.op # "none", cmd'.op = "none", last'.res = "failed", cmd.up, cmd.back, ~torn', ~cmd.hasty
    PROVE  Ready'
<1>1. Fail \/ Succeed \/ Commit \/ Clear
  BY Endings
<1>2. ~torn
  BY <1>1 DEF Fail, Succeed, Commit, Clear, End, Report, Step
<1>3. cmd.at = "fail"
  <2>1. cmd.at \in {"fail", "ok", "commit", "clear"}
    BY <1>1 DEF Fail, Succeed, Commit, Clear, At
  <2> QED BY <1>2, <2>1 DEF UpInv, Undoing, Retreating, Resuming, Starting, Stopping
<1>4. Fail
  BY <1>1, <1>3 DEF Succeed, Commit, Clear, At
<1> QED BY <1>2, <1>3, <1>4 DEF UpInv, Fail, Ready, launchd

\* Proof of the invariants together
LEMMA TransactionInvariant ==
    ASSUME "install" \notin CommitFaults
    PROVE  LaunchSpec => [](LaunchInv /\ TxInv /\ SeenInv)
<1>1. LaunchInit => LaunchInv /\ TxInv /\ SeenInv
  BY LaunchInitInv, InitTx, SeenInit
<1>2. LaunchInv /\ TxInv /\ SeenInv /\ [LaunchNext]_vars => (LaunchInv /\ TxInv /\ SeenInv)'
  <2> SUFFICES ASSUME LaunchInv, TxInv, SeenInv, [LaunchNext]_vars PROVE (LaunchInv /\ TxInv /\ SeenInv)'
    OBVIOUS
  <2>1. LaunchInv'
    BY LaunchInvStep
  <2>2. TxInv'
    BY <2>1, StepTx
  <2>3. CASE LaunchNext
    BY <2>1, <2>2, <2>3, SeenStep
  <2>4. CASE UNCHANGED vars
    BY <2>1, <2>2, <2>4 DEF vars, SeenInv, Seen, Inst
  <2> QED BY <2>1, <2>2, <2>3, <2>4
<1> QED BY <1>1, <1>2, PTL DEF LaunchSpec

----------------------------------------------------------------------------
(* The theorems *)

\* At every moment a live process belongs to a loaded job, and the program counter of the
\* command knows where Start and Stop return to and what the job is then
\* (Manager.Start, Stop, Install, Upgrade, SynchronizeConfig, Uninstall).
THEOREM LaunchInvariant == LaunchSpec => []LaunchInv
BY LaunchInitInv, LaunchInvStep, PTL DEF LaunchSpec

\* After `service stop` has reported success for a loaded job, the job stays away and no
\* process lives, whatever crashes, reboots and killed commands follow, until a command
\* begins (Stop disables the label, boots the job out and waits).
THEOREM StopLasts == LaunchSpec => []StoppedStays
<1>1. LaunchInv => StoppedStays
  BY DEF LaunchInv, StopInv, ProcessInv, StoppedStays
<1> QED
  BY <1>1, LaunchInvariant, PTL

\* Between commands, a service that is ready runs the installed executable and
\* configuration, after any sequence of commands, failed ones rolled back included
\* (Start comes only after files are in place, and files move only after Stop or unload).
THEOREM RunsWhatIsInstalled == LaunchSpec => []RunsInstalled
<1>1. LaunchInv => RunsInstalled
  BY DEF LaunchInv, ProcessInv, RunsInstalled, Ready
<1> QED
  BY <1>1, LaunchInvariant, PTL

\* An uninstallation in which no call fails succeeds and leaves neither files nor job nor
\* process nor record, whatever earlier commands left; only a purge refuses half a worker
\* identity (Uninstall, Stop, stageRemoval, commitRemovals).
THEOREM UninstallLeavesNothing == LaunchSpec => UninstallClears
<1>1. LaunchInv /\ [LaunchNext]_vars =>
        [cmd.op \in {"uninstall", "purge"} /\ cmd'.op = "none" /\ last'.res # "killed" /\ cmd.clean
          => \/ /\ last'.res = "ok"
                /\ file'.binary = Absent /\ file'.plist = Absent
                /\ job'.st = "out" /\ svc' = Dead("")
                /\ cmd.op = "purge" => file'.config = Absent /\ account' = NoAccount
             \/ cmd.op = "purge" /\ account # WholeAccount]_vars
  BY UninstallEnd
<1> QED
  BY <1>1, LaunchInvariant, PTL DEF LaunchSpec, UninstallClears

\* Every command replaces the installation as a whole or, when it reports a failure, leaves
\* it as it was, account and storage included, wherever a call fails (Install's deferred
\* functions, Upgrade's rollbackAndRestore, SynchronizeConfig, Uninstall's rollback).  The
\* one call that must not fail is the removal of Install's backups.
THEOREM CommandsAreTransactions ==
    ASSUME "install" \notin CommitFaults
    PROVE  LaunchSpec => Transactional
<1>1. LaunchInit => Whole!InstInit
  <2> SUFFICES ASSUME LaunchInit PROVE Whole!InstInit
    OBVIOUS
  <2>1. Seen \in Whole!Whole
    BY InitTx, LaunchInitInv, SeenWhole
  <2> QED BY <2>1 DEF LaunchInit, Whole!InstInit, Seen
<1>2. LaunchInv /\ LaunchInv' /\ TxInv /\ TxInv' /\ [LaunchNext]_vars
        => [Whole!InstNext]_<<IF cmd.op = "none" THEN Inst ELSE cmd.was, [op |-> last.op, res |-> last.res], torn>>
  <2> SUFFICES ASSUME LaunchInv, LaunchInv', TxInv, TxInv', [LaunchNext]_vars,
                      ~(Seen' = Seen /\ last' = last /\ torn' = torn)
               PROVE  Whole!InstNext
    BY DEF Seen
  <2>1. LaunchNext
    BY DEF vars, Seen, Inst
  <2> QED BY <2>1, Refines DEF Whole!InstNext
<1> QED BY <1>1, <1>2, TransactionInvariant, PTL DEF LaunchSpec, Transactional, Whole!InstSpec

\* Between commands an installed service has the account and the storage that its version
\* needs, also after commands that failed (Ensure and prepareWorkerStorage with their
\* roll-backs), unless the removal of Install's backups fails.
THEOREM InstalledStaysUsable ==
    ASSUME "install" \notin CommitFaults
    PROVE  LaunchSpec => []InstalledUsable
<1>1. SeenInv => InstalledUsable
  BY DEF SeenInv, Seen, Complete, Inst, Installed, InstalledUsable
<1> QED BY <1>1, TransactionInvariant, PTL

\* A command that fails after it stopped a service that was up has it up and ready again
\* when it returns, unless the roll-back failed or its Start found launchd still removing
\* the job (restartService, rollbackAndRestore, restoreServiceState): whatever was undone,
\* the files, the account and the storage are those with which the old version runs.
THEOREM ServiceIsUpAgain ==
    ASSUME "install" \notin CommitFaults
    PROVE  LaunchSpec => UpAgain
<1>1. LaunchInv /\ TxInv /\ SeenInv /\ UpInv /\ [LaunchNext]_vars => UpInv'
  BY UpStep
<1>2. LaunchInv /\ TxInv /\ UpInv /\ [LaunchNext]_vars =>
        [cmd.op # "none" /\ cmd'.op = "none" /\ last'.res = "failed" /\ cmd.up /\ cmd.back
           /\ ~torn' /\ ~cmd.hasty => Ready']_vars
  BY UpEnd
<1> QED BY <1>1, <1>2, UpInit, TransactionInvariant, PTL DEF LaunchSpec, UpAgain
=============================================================================
