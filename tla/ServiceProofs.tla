---------------------------- MODULE ServiceProofs ----------------------------
(***************************************************************************)
(* What the managed service guarantees for any number of requests, signals,*)
(* lost connections, kills and worker failures, and for any configurations.*)
(*                                                                         *)
(* The inductive invariant has three parts.  RequestInv ties the command's *)
(* request ID to the control server's records.  WireInv says, for every    *)
(* place the supervisor can be in, which messages are under way in the two *)
(* directions of the private protocol and what the worker runs: request    *)
(* numbers on the wire are consecutive and end with the last one sent.     *)
(* PromiseInv says that once a response confirms a configuration, nothing  *)
(* that is still under way names another.                                  *)
(***************************************************************************)
EXTENDS Service, FiniteSetTheorems, SequenceTheorems, TLAPS

Alive == worker.exit = "none"
Last(m) == m.kind \in {"fatal", "eof"}
InTransit == Len(toWorker) + Len(toSup)

----------------------------------------------------------------------------
(* The command and the records of its requests *)

RequestInv ==
    /\ cli.pc # "idle" => cli.id = issued /\ cli.id \in Ids /\ cli.want \in Configs
    /\ cli.pc # "idle" /\ cli.undo # None /\ ~cli.rolling => issued + 1 \in Ids
    /\ cli.pc \in {"remove", "restore", "activate"} => cli.undo # None /\ ~cli.rolling
    /\ \A i \in Ids :
         /\ started[i] <= 1
         /\ i > issued => started[i] = 0 /\ resp[i] = Absent
         /\ exec[i] # "none" => started[i] = 1
    /\ cli.pc = "activate" => started[cli.id] = 0
    /\ cli.pc \in {"activate", "send", "await"} =>
         /\ resp[cli.id] = Absent <=> started[cli.id] = 0
         /\ resp[cli.id] \in {Absent, Running} => want[cli.id] = cli.want
         /\ exec[cli.id] # "none" => resp[cli.id] = Running
    /\ sup.source = "control" => sup.id \in Ids /\ started[sup.id] = 1

----------------------------------------------------------------------------
(* The private protocol *)

\* The first message, if it is of this kind; everything else says that the worker is gone.
OnlyFirst(kind) == \A i \in 1 .. Len(toSup) : Last(toSup[i]) \/ (i = 1 /\ toSup[i].kind = kind)
NothingHeard == \A i \in 1 .. Len(toSup) : Last(toSup[i])

StartingInv ==
    /\ sup.pc \in Starting => ~sup.running
    /\ sup.pc = "start" => NothingHeard /\ (Alive => worker.phase = "new" /\ toWorker = <<>>)
    /\ sup.pc = "awaitPrepared" =>
         /\ OnlyFirst("prepared")
         /\ Alive => \/ worker.phase = "new" /\ Len(toWorker) = 1 /\ toSup = <<>>
                        /\ toWorker[1].kind = "bootstrap" /\ toWorker[1].config = recorded
                     \/ worker.phase = "prepared" /\ toWorker = <<>> /\ Len(toSup) = 1
                        /\ worker.digest = recorded
    /\ sup.pc \in {"install", "commit"} =>
         /\ NothingHeard
         /\ Alive => worker.phase = "prepared" /\ toWorker = <<>> /\ worker.digest = recorded
    /\ sup.pc = "awaitRunning" =>
         /\ OnlyFirst("running")
         /\ Alive => /\ worker.digest = recorded
                     /\ \/ worker.phase = "prepared" /\ Len(toWorker) = 1 /\ toSup = <<>>
                           /\ toWorker[1].kind = "commit"
                        \/ worker.phase = "running" /\ toWorker = <<>> /\ Len(toSup) = 1

\* Reloads and their results, numbered without a gap up to the last request.
Reloading == sup.pc \in Serving \/ (sup.pc \in {"close", "drain", "restore", "stop"} /\ sup.running)

ReloadInv == Reloading =>
    /\ \A i \in 1 .. Len(toSup) :
         Last(toSup[i]) \/ (toSup[i].kind = "result" /\ toSup[i].id \in 1 .. reqno)
    /\ Alive =>
         /\ worker.phase = "running"
         /\ \A i \in 1 .. Len(toWorker) :
              toWorker[i].kind = "reload" /\ toWorker[i].id = reqno - Len(toWorker) + i
         /\ \A i \in 1 .. Len(toSup) : toSup[i].id = reqno - InTransit + i
         /\ InTransit <= reqno

\* The answer that is awaited, on its way out and on its way back.
AwaitInv == sup.pc = "await" =>
    /\ \A i \in 1 .. Len(toSup) : toSup[i].kind = "result" /\ toSup[i].id = reqno =>
         /\ toSup[i].ok => toSup[i].config = sup.next
         /\ Alive /\ toSup[i].ok => worker.digest = sup.next
         /\ Alive /\ ~toSup[i].ok /\ ~unsure => worker.digest = recorded
    /\ \A i \in 1 .. Len(toWorker) : toWorker[i].id = reqno => toWorker[i].config = sup.next
    /\ Alive /\ ~unsure => InTransit = 1 /\ (toWorker # <<>> => worker.digest = recorded)

\* Between requests nothing is on the wire, unless a reload has timed out.
CalmInv ==
    /\ sup.pc \in {"loop", "load", "push", "reply"} /\ Alive /\ ~unsure =>
         InTransit = 0 /\ ((sup.pc = "reply" /\ sup.err = "persist") \/ worker.digest = recorded)
    /\ sup.pc = "persist" => ~unsure /\ (Alive => InTransit = 0 /\ worker.digest = sup.next)
    /\ sup.pc = "reply" /\ sup.err = "timeout" => unsure
    /\ sup.pc = "reply" /\ sup.err = "none" => ~unsure /\ recorded = sup.next
    /\ sup.pc \in {"push", "await", "persist"} => sup.next \in Configs
    /\ sup.pc = "load" => sup.source # "tick"
    /\ sup.pc \in {"push", "await"} /\ sup.source = "tick" => sup.next = recorded

\* The shutdown is asked for once, with the last request number, and answered last.
StopInv ==
    /\ sup.pc = "awaitStop" =>
         /\ sup.running
         /\ Alive =>
              /\ \A i \in 1 .. Len(toSup) : toSup[i].kind = "result" /\ toSup[i].id \in 1 .. reqno - 1
              /\ \A i \in 1 .. Len(toWorker) : \/ toWorker[i].kind = "shutdown" /\ toWorker[i].id = reqno
                                               \/ toWorker[i].kind = "reload" /\ toWorker[i].id \in 1 .. reqno - 1
         /\ worker.exit = "clean" =>
              LET n == Len(toSup) IN
              /\ n >= 2 /\ Last(toSup[n])
              /\ toSup[n - 1].kind = "stopped" /\ toSup[n - 1].id = reqno /\ toSup[n - 1].ok
              /\ \A i \in 1 .. n - 2 : toSup[i].kind = "result" /\ toSup[i].id \in 1 .. reqno - 1
    /\ worker.exit = "clean" => sup.pc \in {"awaitStop", "reap", "stopped"}
    /\ Alive /\ sup.pc \notin {"awaitStop", "reap", "stopped"} =>
         \A i \in 1 .. Len(toWorker) : toWorker[i].kind # "shutdown"
    /\ sup.failed => sup.late \/ sup.broken
                     \/ (sup.pc \in {"reap", "stopped"} /\ worker.exit \notin {"none", "clean"})
    /\ sup.broken => sup.failed
    /\ sup.pc \in {"stop", "awaitStop", "reap", "stopped"} /\ captured => sup.failed

WireInv ==
    /\ WorkerGone => toWorker = <<>>
    /\ Alive => \A i \in 1 .. Len(toSup) : ~Last(toSup[i])
    /\ StartingInv /\ ReloadInv /\ AwaitInv /\ CalmInv
    /\ sup.err # "protocol"

----------------------------------------------------------------------------
(* What a confirmed configuration means *)

Promised(c) ==
    /\ file = c /\ recorded = c
    /\ sup.pc \in {"push", "await", "persist"} => sup.next = c
    /\ Alive => /\ worker.digest = c /\ worker.phase = "running"
                /\ \A i \in 1 .. Len(toWorker) : toWorker[i].kind = "reload" => toWorker[i].config = c

PromiseInv ==
    /\ last.result # "none" => cli.pc = "idle" /\ Promised(last.config)
    /\ cli.pc \in {"send", "await"} => file = cli.want
    /\ cli.pc \in {"send", "await"} /\ resp[cli.id] = cli.want => Promised(cli.want)
    /\ sup.pc \in Starting => cli.pc = "idle" /\ last.result = "none"
    /\ \/ sup.pc \in {"push", "await", "persist"}
       \/ sup.pc = "reply" /\ sup.err = "none"
       => (sup.source = "control" /\ exec[sup.id] = "wait" => sup.next = want[sup.id])

ServiceInv == ServiceTypeOK /\ RequestInv /\ WireInv /\ StopInv /\ PromiseInv

----------------------------------------------------------------------------
(* Sequences: what the wire looks like after a send, a receive and an exit *)

LEMMA AppendFacts ==
    ASSUME NEW S, NEW s \in Seq(S), NEW e \in S
    PROVE  /\ Append(s, e) \in Seq(S)
           /\ Len(Append(s, e)) = Len(s) + 1
           /\ Append(s, e)[Len(s) + 1] = e
           /\ \A i \in 1 .. Len(s) : Append(s, e)[i] = s[i]
OBVIOUS

LEMMA TailFacts ==
    ASSUME NEW S, NEW s \in Seq(S), s # <<>>
    PROVE  /\ Tail(s) \in Seq(S)
           /\ Len(s) \in Nat \ {0}
           /\ Len(Tail(s)) = Len(s) - 1
           /\ Head(s) = s[1] /\ Head(s) \in S
           /\ \A i \in 1 .. Len(s) - 1 : Tail(s)[i] = s[i + 1]
OBVIOUS

LEMMA ConcatFacts ==
    ASSUME NEW S, NEW s \in Seq(S), NEW t \in Seq(S)
    PROVE  /\ s \o t \in Seq(S)
           /\ Len(s \o t) = Len(s) + Len(t)
           /\ \A i \in 1 .. Len(s) : (s \o t)[i] = s[i]
           /\ \A i \in 1 .. Len(t) : (s \o t)[Len(s) + i] = t[i]
OBVIOUS

LEMMA LenFacts ==
    ASSUME NEW S, NEW s \in Seq(S)
    PROVE  /\ Len(s) \in Nat
           /\ s = <<>> <=> Len(s) = 0
           /\ \A i \in 1 .. Len(s) : s[i] \in S
OBVIOUS

----------------------------------------------------------------------------
(* Types *)

CliType ==
    [pc : {"idle", "activate", "send", "await", "remove", "restore"},
     id : 0 .. MaxRequests, want : Configs \cup {None},
     undo : Configs \cup {None}, rolling : BOOLEAN]
OutcomeType == [result : {"none", "ok", "rolledback"}, config : Configs \cup {None}]

CliTypeOK ==
    /\ file \in Configs \cup {Missing} /\ cli \in CliType /\ last \in OutcomeType
    /\ issued \in 0 .. MaxRequests
ServerTypeOK ==
    /\ want \in [Ids -> Configs \cup {None}] /\ resp \in [Ids -> Configs \cup {Absent, Running, Failed}]
    /\ completed \in Seq(Ids) /\ exec \in [Ids -> {"none", "offer", "wait"}] /\ started \in [Ids -> Nat]
SupTypeOK ==
    sup \in Supervisor /\ recorded \in Configs /\ captured \in BOOLEAN /\ reqno \in Nat /\ unsure \in BOOLEAN
LinkTypeOK ==
    /\ toWorker \in Seq(Message) /\ toSup \in Seq(Reports)
    /\ worker \in [phase : {"new", "prepared", "running"},
                   digest : Configs \cup {None}, exit : {"none", "clean", "quiet", "error"}]

LEMMA TypeParts ==
    ServiceTypeOK <=> CliTypeOK /\ ServerTypeOK /\ SupTypeOK /\ LinkTypeOK /\ events \in 0 .. MaxEvents
BY DEF ServiceTypeOK, CliTypeOK, ServerTypeOK, SupTypeOK, LinkTypeOK, CliType, OutcomeType

\* The steps of the command and of the operator, on the command's own variables.
CliOnly == UNCHANGED <<supVars, linkVars>>

LEMMA EventType ==
    ASSUME events \in 0 .. MaxEvents, Event \/ UNCHANGED events
    PROVE  events' \in 0 .. MaxEvents
BY ServiceAssumption DEF Event

LEMMA GiveUpType ==
    ASSUME CliTypeOK, GiveUp
    PROVE  cli' \in CliType /\ last' \in OutcomeType
<1>1. CASE cli' = [cli EXCEPT !.pc = "remove"] /\ UNCHANGED last
  BY <1>1 DEF CliTypeOK, CliType
<1>2. CASE EndCli(NoOutcome)
  BY <1>2, ServiceAssumption DEF EndCli, IdleCli, NoOutcome, CliType, OutcomeType
<1> QED
  BY <1>1, <1>2 DEF GiveUp

LEMMA CliStepType ==
    ASSUME ServiceTypeOK, RequestInv,
           \/ Activate \/ RemoveFile \/ RestoreFile \/ ReceiveResponse \/ CliTimeout
           \/ (\E c \in Configs : BeginUpdate(c) \/ EditFile(c))
           \/ BeginReload \/ Disconnect \/ KillCli \/ ActivateFails \/ RestoreFails
    PROVE  CliTypeOK' /\ ServerTypeOK' /\ events' \in 0 .. MaxEvents
           /\ UNCHANGED <<resp, completed, exec, started, supVars, linkVars>>
<1>0. CliTypeOK /\ ServerTypeOK /\ events \in 0 .. MaxEvents
  BY TypeParts
<1> USE ServiceAssumption DEF CliTypeOK, ServerTypeOK, CliType, OutcomeType, serverVars, Ids
<1>1. CASE Activate
  <2>1. cli.want \in Configs
    BY <1>1 DEF Activate, RequestInv
  <2> QED
    BY <1>0, <1>1, <2>1 DEF Activate
<1>2. CASE RemoveFile
  <2>1. cli' \in CliType
    BY <1>0, <1>2 DEF RemoveFile
  <2> QED
    BY <1>0, <1>2, <2>1 DEF RemoveFile
<1>3. CASE RestoreFile
  <2>1. cli.undo \in Configs /\ issued + 1 \in Ids
    BY <1>0, <1>3 DEF RestoreFile, RequestInv
  <2>a. issued + 1 \in 0 .. MaxRequests
    BY <2>1
  <2>b. cli' = [cli EXCEPT !.pc = "send", !.id = issued + 1, !.want = cli.undo, !.rolling = TRUE]
    BY <1>3 DEF RestoreFile
  <2>2. cli' \in CliType
    BY <1>0, <2>1, <2>a, <2>b
  <2> QED
    BY <1>0, <1>3, <2>1, <2>2 DEF RestoreFile
<1>4. CASE ReceiveResponse
  <2>1. CASE GiveUp
    BY <1>0, <1>4, <2>1, GiveUpType DEF ReceiveResponse, cliVars
  <2>2. CASE EndCli(Outcome(IF cli.rolling THEN "rolledback" ELSE "ok"))
    BY <1>0, <1>4, <2>2 DEF ReceiveResponse, EndCli, Outcome, IdleCli
  <2> QED
    BY <1>4, <2>1, <2>2 DEF ReceiveResponse
<1>5. CASE CliTimeout
  BY <1>0, <1>5, GiveUpType DEF CliTimeout
<1>6. ASSUME NEW c \in Configs, BeginUpdate(c)
      PROVE  CliTypeOK' /\ ServerTypeOK' /\ events' \in 0 .. MaxEvents
             /\ UNCHANGED <<resp, completed, exec, started, supVars, linkVars>>
  BY <1>0, <1>6 DEF BeginUpdate, NoOutcome
<1>7. ASSUME NEW c \in Configs, EditFile(c)
      PROVE  CliTypeOK' /\ ServerTypeOK' /\ events' \in 0 .. MaxEvents
             /\ UNCHANGED <<resp, completed, exec, started, supVars, linkVars>>
  BY <1>0, <1>7, EventType DEF EditFile, NoOutcome
<1>8. CASE BeginReload
  BY <1>0, <1>8 DEF BeginReload, NoOutcome
<1>9. CASE Disconnect
  BY <1>0, <1>9, EventType DEF Disconnect
<1>10. CASE KillCli
  BY <1>0, <1>10, EventType DEF KillCli, EndCli, IdleCli, NoOutcome
<1>11. CASE ActivateFails
  BY <1>0, <1>11, EventType DEF ActivateFails, EndCli, IdleCli, NoOutcome, RequestInv
<1>12. CASE RestoreFails
  BY <1>0, <1>12, EventType DEF RestoreFails, EndCli, IdleCli, NoOutcome, RequestInv
<1> QED
  BY <1>1, <1>2, <1>3, <1>4, <1>5, <1>6, <1>7, <1>8, <1>9, <1>10, <1>11, <1>12

\* The number of cached records is a number, and never more than the completed ones are dropped.
LEMMA EvictedType ==
    ASSUME ServerTypeOK, NEW n \in 0 .. Len(completed)
    PROVE  Evicted(n) \in 0 .. Len(completed)
<1>1. IsFiniteSet(Ids)
  BY ServiceAssumption, FS_Interval DEF Ids
<1>2. Cardinality(Cached) \in Nat
  <2>1. Cached \subseteq Ids
    BY DEF Cached
  <2>2. IsFiniteSet(Cached)
    BY <1>1, <2>1, FS_Subset
  <2> QED
    BY <2>2, FS_CardinalityType
<1>3. Len(completed) \in Nat
  BY DEF ServerTypeOK
<1> QED
  BY <1>2, <1>3, ServiceAssumption DEF Evicted

LEMMA CompleteType ==
    ASSUME ServerTypeOK, NEW i \in Ids, NEW r \in Configs \cup {Failed}, Complete(i, r), UNCHANGED started
    PROVE  ServerTypeOK'
BY DEF ServerTypeOK, Complete

LEMMA ServerStepType ==
    ASSUME ServiceTypeOK, RequestInv, ProcessReload \/ \E i \in Ids : HandlerGivesUp(i)
    PROVE  CliTypeOK' /\ ServerTypeOK' /\ UNCHANGED <<file, issued, supVars, linkVars, events>>
<1>0. CliTypeOK /\ ServerTypeOK
  BY TypeParts
<1>1. ASSUME NEW i \in Ids, HandlerGivesUp(i)
      PROVE  CliTypeOK' /\ ServerTypeOK' /\ UNCHANGED <<file, issued, supVars, linkVars, events>>
  BY <1>0, <1>1, CompleteType DEF HandlerGivesUp, cliVars, CliTypeOK
<1>2. CASE ProcessReload
  <2>1. PICK n \in 0 .. Len(completed) :
          LET k == Evicted(n)
              dropped == {completed[i] : i \in 1 .. k}
          IN  /\ completed' = SubSeq(completed, k + 1, Len(completed))
              /\ IF Cardinality(Cached) - k >= CacheLimit
                   THEN /\ resp' = [i \in Ids |-> IF i \in dropped THEN Absent ELSE resp[i]]
                        /\ GiveUp
                        /\ UNCHANGED <<exec, started>>
                   ELSE /\ resp' = [i \in Ids |-> IF i = cli.id THEN Running
                                                  ELSE IF i \in dropped THEN Absent
                                                  ELSE resp[i]]
                        /\ exec' = [exec EXCEPT ![cli.id] = "offer"]
                        /\ started' = [started EXCEPT ![cli.id] = @ + 1]
                        /\ cli' = [cli EXCEPT !.pc = "await"]
                        /\ UNCHANGED last
    BY <1>2 DEF ProcessReload
  <2>2. Evicted(n) \in 0 .. Len(completed) /\ Len(completed) \in Nat
    BY <1>0, EvictedType DEF ServerTypeOK
  <2>3. completed' \in Seq(Ids)
    BY <1>0, <2>1, <2>2, SubSeqProperties DEF ServerTypeOK
  <2>4. resp' \in [Ids -> Configs \cup {Absent, Running, Failed}]
    BY <1>0, <2>1 DEF ServerTypeOK
  <2>5. exec' \in [Ids -> {"none", "offer", "wait"}] /\ started' \in [Ids -> Nat]
    BY <1>0, <2>1 DEF ServerTypeOK
  <2>6. cli' \in CliType /\ last' \in OutcomeType
    BY <1>0, <2>1, GiveUpType DEF CliTypeOK, CliType
  <2> QED
    BY <1>0, <1>2, <2>3, <2>4, <2>5, <2>6 DEF ProcessReload, CliTypeOK, ServerTypeOK
<1> QED
  BY <1>1, <1>2

\* A step of the supervisor that only moves it on.
LEMMA BreaksFields ==
    ASSUME SupTypeOK, NEW pc, Breaks(pc)
    PROVE  /\ sup'.pc = pc /\ sup'.source = sup.source /\ sup'.id = sup.id /\ sup'.next = sup.next
           /\ sup'.err = sup.err /\ sup'.running = sup.running /\ sup'.late = sup.late
           /\ sup'.broken /\ sup'.failed
           /\ pc \in Finishing \cup {"stopped"} => sup' \in Supervisor
BY DEF SupTypeOK, Breaks, Supervisor

LEMMA GoSupType ==
    ASSUME SupTypeOK, NEW pc \in Serving \cup Starting \cup Finishing \cup {"stopped"}, GoSup(pc)
    PROVE  sup' \in Supervisor
BY DEF SupTypeOK, GoSup, Supervisor

LEMMA AnswerType ==
    ASSUME SupTypeOK, NEW e \in Errors, Answer(e)
    PROVE  sup' \in Supervisor
BY DEF SupTypeOK, Answer, Supervisor, Serving

LEMMA SendType ==
    ASSUME LinkTypeOK, NEW kind \in {"bootstrap", "commit", "reload", "shutdown"}, NEW id \in Nat,
           NEW c \in Configs \cup {None}, Send(kind, id, c), UNCHANGED <<toSup, worker>>
    PROVE  LinkTypeOK'
BY DEF LinkTypeOK, Send, Message

LEMMA AwaitType ==
    ASSUME LinkTypeOK, NEW kind, NEW id, NEW v, Await(kind, id, v), UNCHANGED <<toWorker, worker>>
    PROVE  LinkTypeOK'
<1>1. UNCHANGED toSup \/ (toSup # <<>> /\ toSup' = Tail(toSup))
  BY DEF Await
<1> QED
  BY <1>1, TailFacts DEF LinkTypeOK

LEMMA KillType ==
    ASSUME LinkTypeOK, Kill
    PROVE  LinkTypeOK'
<1>1. Eof \in Reports
  BY DEF Eof, Report, Reports
<1>2. <<>> \in Seq(Message)
  OBVIOUS
<1>3. CASE WorkerGone
  BY <1>3 DEF LinkTypeOK, Kill, linkVars
<1>4. CASE ~WorkerGone
  <2>1. toSup' \in Seq(Reports)
    BY <1>1, <1>4, AppendFacts DEF LinkTypeOK, Kill
  <2> QED
    BY <1>2, <1>4, <2>1 DEF LinkTypeOK, Kill
<1> QED
  BY <1>3, <1>4

LEMMA ExitType ==
    ASSUME LinkTypeOK, NEW how \in {"clean", "quiet", "error"}, NEW r \in Seq(Reports), Exit(how, r)
    PROVE  LinkTypeOK'
<1>1. Eof \in Reports
  BY DEF Eof, Report, Reports
<1>2. <<Eof>> \in Seq(Reports) /\ <<>> \in Seq(Message)
  BY <1>1
<1>3. toSup' \in Seq(Reports)
  BY <1>2, ConcatFacts DEF LinkTypeOK, Exit
<1> QED
  BY <1>2, <1>3 DEF LinkTypeOK, Exit

\* Steps of the supervisor, by what they leave alone.
LEMMA SupStepType ==
    ASSUME ServiceTypeOK, RequestInv, CalmInv, SupStep \/ TakeSignal \/ Tick \/ Stop \/ CleanupExpires
    PROVE  /\ ServerTypeOK' /\ SupTypeOK' /\ LinkTypeOK' /\ events' \in 0 .. MaxEvents
           /\ UNCHANGED cliVars
<1>0. ServerTypeOK /\ SupTypeOK /\ LinkTypeOK /\ events \in 0 .. MaxEvents
  BY TypeParts
<1> DEFINE Goal == /\ ServerTypeOK' /\ SupTypeOK' /\ LinkTypeOK' /\ events' \in 0 .. MaxEvents
                   /\ UNCHANGED cliVars
<1>a. ASSUME UNCHANGED <<cliVars, serverVars, linkVars>>, Event \/ UNCHANGED events, SupTypeOK' PROVE Goal
  BY <1>0, <1>a, EventType DEF serverVars, linkVars, ServerTypeOK, LinkTypeOK
<1>b. ASSUME UNCHANGED <<cliVars, serverVars, events>>, LinkTypeOK', SupTypeOK' PROVE Goal
  BY <1>0, <1>b DEF serverVars, ServerTypeOK
<1> USE DEF Serving, Starting, Finishing, Errors
<1>1. CASE Bootstrap
  <2>1. sup' \in Supervisor
    BY <1>0, <1>1, GoSupType DEF Bootstrap
  <2>2. LinkTypeOK'
    <3>1. CASE UNCHANGED toWorker
      BY <1>0, <1>1, <3>1 DEF Bootstrap, LinkTypeOK
    <3>2. CASE Send("bootstrap", 0, recorded)
      BY <1>0, <1>1, <3>2, SendType DEF Bootstrap, SupTypeOK
    <3> QED
      BY <1>1, <3>1, <3>2 DEF Bootstrap
  <2> QED
    BY <1>0, <1>1, <1>b, <2>1, <2>2 DEF Bootstrap, SupTypeOK
<1>2. CASE AwaitPrepared
  <2>1. sup' \in Supervisor
    BY <1>0, <1>2, GoSupType DEF AwaitPrepared
  <2>2. LinkTypeOK'
    BY <1>0, <1>2, AwaitType DEF AwaitPrepared
  <2> QED
    BY <1>0, <1>2, <1>b, <2>1, <2>2 DEF AwaitPrepared, SupTypeOK
<1>3. CASE Install
  <2>1. sup' \in Supervisor
    BY <1>0, <1>3, GoSupType DEF Install
  <2> QED
    BY <1>0, <1>3, <1>a, <2>1 DEF Install, SupTypeOK
<1>4. CASE Commit
  <2>1. sup' \in Supervisor
    BY <1>0, <1>4, GoSupType DEF Commit
  <2>2. LinkTypeOK'
    <3>1. CASE UNCHANGED toWorker
      BY <1>0, <1>4, <3>1 DEF Commit, LinkTypeOK
    <3>2. CASE Send("commit", 0, recorded)
      BY <1>0, <1>4, <3>2, SendType DEF Commit, SupTypeOK
    <3> QED
      BY <1>4, <3>1, <3>2 DEF Commit
  <2> QED
    BY <1>0, <1>4, <1>b, <2>1, <2>2 DEF Commit, SupTypeOK
<1>5. CASE AwaitRunning
  <2>1. sup' \in Supervisor
    <3>1. ASSUME NEW pc \in {"loop", "close"}, sup' = [sup EXCEPT !.pc = pc, !.running = TRUE]
          PROVE  sup' \in Supervisor
      BY <1>0, <3>1 DEF SupTypeOK, Supervisor
    <3> QED
      BY <1>0, <1>5, <3>1, GoSupType DEF AwaitRunning
  <2>2. LinkTypeOK'
    BY <1>0, <1>5, AwaitType DEF AwaitRunning
  <2> QED
    BY <1>0, <1>5, <1>b, <2>1, <2>2 DEF AwaitRunning, SupTypeOK
<1>6. ASSUME NEW i \in Ids, TakeRequest(i) PROVE Goal
  <2>0. i \in 0 .. MaxRequests /\ sup' = [sup EXCEPT !.pc = "load", !.source = "control", !.id = i]
    BY <1>6, ServiceAssumption DEF TakeRequest, Ids
  <2>1. sup' \in Supervisor
    BY <1>0, <2>0 DEF SupTypeOK, Supervisor
  <2>2. exec' \in [Ids -> {"none", "offer", "wait"}]
    BY <1>0, <1>6 DEF TakeRequest, ServerTypeOK
  <2> QED
    BY <1>0, <1>6, <2>1, <2>2 DEF TakeRequest, SupTypeOK, ServerTypeOK, LinkTypeOK, linkVars
<1>7. CASE SeeWorkerExit
  <2>1. sup' \in Supervisor
    BY <1>0, <1>7 DEF SeeWorkerExit, SupTypeOK, Supervisor
  <2> QED
    BY <1>0, <1>7, <1>a, <2>1 DEF SeeWorkerExit, SupTypeOK
<1>8. CASE LoadConfig
  <2>1. sup' \in Supervisor
    <3>1. ASSUME file \in Configs, sup' = [sup EXCEPT !.pc = "push", !.next = file]
          PROVE  sup' \in Supervisor
      BY <1>0, <3>1 DEF SupTypeOK, Supervisor
    <3> QED
      BY <1>0, <1>8, <3>1, AnswerType DEF LoadConfig
  <2> QED
    BY <1>0, <1>8, <1>a, <2>1 DEF LoadConfig, SupTypeOK
<1>9. CASE PushReload
  <2>0. sup.next \in Configs /\ reqno + 1 \in Nat
    BY <1>0, <1>9 DEF PushReload, CalmInv, SupTypeOK
  <2>1. sup' \in Supervisor
    BY <1>0, <1>9, GoSupType, AnswerType DEF PushReload
  <2>2. LinkTypeOK'
    <3>1. CASE UNCHANGED toWorker
      BY <1>0, <1>9, <3>1 DEF PushReload, LinkTypeOK
    <3>2. CASE Send("reload", reqno + 1, sup.next)
      BY <1>0, <1>9, <2>0, <3>2, SendType DEF PushReload
    <3> QED
      BY <1>9, <3>1, <3>2 DEF PushReload
  <2> QED
    BY <1>0, <1>9, <1>b, <2>0, <2>1, <2>2 DEF PushReload, SupTypeOK
<1>10. CASE AwaitResult
  <2>1. sup' \in Supervisor /\ unsure' \in BOOLEAN
    <3>1. PICK v \in Verdicts :
            CASE v = "accepted" -> Accepted
              [] v = "stale" -> UNCHANGED <<sup, unsure>>
              [] OTHER -> Answer(v) /\ unsure' = (unsure \/ v = "timeout")
      BY <1>10 DEF AwaitResult
    <3>2. CASE v = "accepted"
      <4>1. Accepted
        BY <3>1, <3>2
      <4> QED
        BY <1>0, <4>1, GoSupType, AnswerType DEF Accepted, SupTypeOK
    <3>3. CASE v = "stale"
      BY <1>0, <3>1, <3>3 DEF SupTypeOK
    <3>4. CASE v \notin {"accepted", "stale"}
      <4>1. Answer(v) /\ unsure' = (unsure \/ v = "timeout")
        BY <3>1, <3>4
      <4>2. v \in Errors
        BY <3>4 DEF Verdicts
      <4> QED
        BY <1>0, <4>1, <4>2, AnswerType
    <3> QED
      BY <3>2, <3>3, <3>4
  <2>2. LinkTypeOK'
    BY <1>0, <1>10, AwaitType DEF AwaitResult
  <2> QED
    BY <1>0, <1>10, <1>b, <2>1, <2>2 DEF AwaitResult, SupTypeOK
<1>11. CASE PersistDigest
  <2>1. sup' \in Supervisor
    BY <1>0, <1>11, AnswerType DEF PersistDigest
  <2>2. recorded' \in Configs
    BY <1>0, <1>11 DEF PersistDigest, CalmInv, SupTypeOK
  <2> QED
    BY <1>0, <1>11, <1>a, <2>1, <2>2 DEF PersistDigest, SupTypeOK
<1>12. CASE Reply
  <2>1. sup' \in Supervisor
    <3>1. CASE BackToLoop
      <4>1. 0 \in 0 .. MaxRequests
        BY ServiceAssumption
      <4> QED
        BY <1>0, <3>1, <4>1 DEF BackToLoop, SupTypeOK, Supervisor
    <3> QED
      BY <1>0, <1>12, <3>1, GoSupType DEF Reply
  <2>2. ServerTypeOK'
    <3>1. CASE UNCHANGED <<want, resp, completed, exec>>
      BY <1>0, <1>12, <3>1 DEF Reply, ServerTypeOK
    <3>2. CASE sup.source = "control" /\ Complete(sup.id, IF sup.err = "none" THEN sup.next ELSE Failed)
      <4>1. sup.id \in Ids
        BY <3>2 DEF RequestInv
      <4>2. (IF sup.err = "none" THEN sup.next ELSE Failed) \in Configs \cup {Failed}
        BY <1>0, <1>12 DEF Reply, CalmInv, SupTypeOK
      <4> QED
        BY <1>0, <1>12, <3>2, <4>1, <4>2, CompleteType DEF Reply
    <3> QED
      BY <1>12, <3>1, <3>2 DEF Reply
  <2> QED
    BY <1>0, <1>12, <2>1, <2>2 DEF Reply, SupTypeOK, LinkTypeOK, linkVars
<1>13. CASE CloseServer
  <2>1. sup' \in Supervisor
    BY <1>0, <1>13, GoSupType, BreaksFields DEF CloseServer, Finishing
  <2> QED
    BY <1>0, <1>13, <1>a, <2>1, EventType DEF CloseServer, Breaks, SupTypeOK
<1>14. CASE Drain
  <2>1. sup' \in Supervisor
    <3>1. ASSUME sup' = [sup EXCEPT !.pc = "restore", !.failed = TRUE] PROVE sup' \in Supervisor
      BY <1>0, <3>1 DEF SupTypeOK, Supervisor
    <3> QED
      BY <1>0, <1>14, <3>1, GoSupType, BreaksFields DEF Drain, Finishing
  <2> QED
    BY <1>0, <1>14, <1>a, <2>1, EventType DEF Drain, Breaks, SupTypeOK
<1>15. CASE RestoreHost
  <2>1. sup' \in Supervisor
    <3>1. ASSUME sup' = [sup EXCEPT !.pc = "stop", !.failed = TRUE] PROVE sup' \in Supervisor
      BY <1>0, <3>1 DEF SupTypeOK, Supervisor
    <3> QED
      BY <1>0, <1>15, <3>1, GoSupType, BreaksFields DEF RestoreHost, Finishing
  <2> QED
    BY <1>0, <1>15, <1>a, <2>1, EventType DEF RestoreHost, Breaks, SupTypeOK
<1>16. CASE StopWorker
  <2>1. sup' \in Supervisor
    <3>1. ASSUME sup' = [sup EXCEPT !.pc = "reap", !.failed = TRUE] PROVE sup' \in Supervisor
      BY <1>0, <3>1 DEF SupTypeOK, Supervisor
    <3> QED
      BY <1>0, <1>16, <3>1, GoSupType DEF StopWorker
  <2>2. LinkTypeOK' /\ reqno' \in Nat
    <3>1. CASE Kill /\ UNCHANGED reqno
      BY <1>0, <3>1, KillType DEF SupTypeOK
    <3>2. CASE UNCHANGED linkVars /\ reqno' = reqno + 1
      BY <1>0, <3>2 DEF linkVars, LinkTypeOK, SupTypeOK
    <3>3. CASE Send("shutdown", reqno + 1, None) /\ UNCHANGED <<toSup, worker>> /\ reqno' = reqno + 1
      <4>1. reqno + 1 \in Nat
        BY <1>0 DEF SupTypeOK
      <4> QED
        BY <1>0, <3>3, <4>1, SendType
    <3> QED
      BY <1>16, <3>1, <3>2, <3>3 DEF StopWorker
  <2> QED
    BY <1>0, <1>16, <1>b, <2>1, <2>2 DEF StopWorker, SupTypeOK
<1>17. CASE AwaitStopped
  <2>1. sup' \in Supervisor
    <3>1. ASSUME NEW failed \in BOOLEAN, sup' = [sup EXCEPT !.pc = "reap", !.failed = failed]
          PROVE  sup' \in Supervisor
      BY <1>0, <3>1 DEF SupTypeOK, Supervisor
    <3>2. \/ UNCHANGED sup
          \/ \E failed \in BOOLEAN : sup' = [sup EXCEPT !.pc = "reap", !.failed = failed]
      BY <1>17 DEF AwaitStopped
    <3> QED
      BY <1>0, <3>1, <3>2 DEF SupTypeOK
  <2>2. LinkTypeOK'
    <3>1. CASE toSup # <<>> /\ toSup' = Tail(toSup) /\ UNCHANGED <<toWorker, worker>>
      BY <1>0, <3>1, TailFacts DEF LinkTypeOK
    <3>2. CASE UNCHANGED linkVars
      BY <1>0, <3>2 DEF linkVars, LinkTypeOK
    <3> QED
      BY <1>0, <1>17, <3>1, <3>2, KillType DEF AwaitStopped
  <2> QED
    BY <1>0, <1>17, <1>b, <2>1, <2>2 DEF AwaitStopped, SupTypeOK
<1>18. CASE Reap
  <2>1. sup' \in Supervisor
    <3>1. ASSUME NEW failed \in BOOLEAN, sup' = [sup EXCEPT !.pc = "stopped", !.failed = failed]
          PROVE  sup' \in Supervisor
      BY <1>0, <3>1 DEF SupTypeOK, Supervisor
    <3> QED
      BY <1>0, <1>18, <3>1, BreaksFields DEF Reap, SupTypeOK, Supervisor
  <2> QED
    BY <1>0, <1>18, <1>a, <2>1, EventType DEF Reap, Breaks, SupTypeOK
<1>19. CASE TakeSignal
  <2>1. sup' \in Supervisor
    BY <1>0, <1>19 DEF TakeSignal, SupTypeOK, Supervisor
  <2> QED
    BY <1>0, <1>19, <1>a, <2>1 DEF TakeSignal, SupTypeOK
<1>20. CASE Tick
  <2>1. sup' \in Supervisor
    BY <1>0, <1>20, GoSupType DEF Tick, SupTypeOK, Supervisor
  <2> QED
    BY <1>0, <1>20, <1>a, <2>1 DEF Tick, SupTypeOK
<1>21. CASE Stop
  <2>1. sup' \in Supervisor
    BY <1>0, <1>21, GoSupType DEF Stop
  <2> QED
    BY <1>0, <1>21, <1>a, <2>1 DEF Stop, SupTypeOK
<1>22. CASE CleanupExpires
  <2>1. sup' \in Supervisor
    BY <1>0, <1>22 DEF CleanupExpires, SupTypeOK, Supervisor
  <2> QED
    BY <1>0, <1>22, <1>a, <2>1 DEF CleanupExpires, SupTypeOK
<1> QED
  BY <1>1, <1>2, <1>3, <1>4, <1>5, <1>6, <1>7, <1>8, <1>9, <1>10, <1>11, <1>12, <1>13, <1>14, <1>15,
     <1>16, <1>17, <1>18, <1>19, <1>20, <1>21, <1>22 DEF SupStep

LEMMA WorkerStepType ==
    ASSUME ServiceTypeOK, WorkerStep
    PROVE  LinkTypeOK' /\ events' \in 0 .. MaxEvents /\ UNCHANGED <<cliVars, serverVars, supVars>>
<1>0. LinkTypeOK /\ events \in 0 .. MaxEvents
  BY TypeParts
<1>1. Fatal \in Reports /\ <<Fatal>> \in Seq(Reports) /\ <<>> \in Seq(Reports)
  BY DEF Fatal, Report, Reports
<1>2. ASSUME NEW kind \in {"prepared", "running", "result", "stopped"}, NEW id \in Nat,
             NEW c \in Configs \cup {None}, NEW ok \in BOOLEAN
      PROVE  Report(kind, id, c, ok) \in Reports
  BY DEF Report, Reports
<1>3. ASSUME toWorker # <<>>
      PROVE  Head(toWorker) \in Message /\ Tail(toWorker) \in Seq(Message)
  BY <1>0, <1>3, TailFacts DEF LinkTypeOK
<1>4. CASE WorkerPrepares
  <2>1. CASE Exit("error", <<Fatal>>)
    BY <1>0, <1>1, <1>4, <2>1, ExitType DEF WorkerPrepares
  <2>2. CASE /\ worker' = [worker EXCEPT !.phase = "prepared", !.digest = Head(toWorker).config]
             /\ Says(Report("prepared", 0, None, TRUE))
    <3>1. Head(toWorker) \in Message /\ Tail(toWorker) \in Seq(Message)
      BY <1>3, <1>4 DEF WorkerPrepares, Hears
    <3>2. toSup' \in Seq(Reports)
      BY <1>0, <1>2, <2>2, AppendFacts DEF Says, LinkTypeOK
    <3> QED
      BY <1>0, <1>4, <2>2, <3>1, <3>2 DEF WorkerPrepares, Says, LinkTypeOK, Message
  <2> QED
    BY <1>4, <2>1, <2>2 DEF WorkerPrepares
<1>5. CASE WorkerCommits
  <2>1. CASE Exit("error", <<Fatal>>)
    BY <1>0, <1>1, <1>5, <2>1, ExitType DEF WorkerCommits
  <2>2. CASE /\ worker' = [worker EXCEPT !.phase = "running"]
             /\ Says(Report("running", 0, worker.digest, TRUE))
    <3>1. Head(toWorker) \in Message /\ Tail(toWorker) \in Seq(Message)
      BY <1>3, <1>5 DEF WorkerCommits, Hears
    <3>2. Report("running", 0, worker.digest, TRUE) \in Reports
      BY <1>0, <1>2 DEF LinkTypeOK
    <3>3. toSup' \in Seq(Reports)
      BY <1>0, <2>2, <3>2, AppendFacts DEF Says, LinkTypeOK
    <3> QED
      BY <1>0, <1>5, <2>2, <3>1, <3>3 DEF WorkerCommits, Says, LinkTypeOK
  <2> QED
    BY <1>5, <2>1, <2>2 DEF WorkerCommits
<1>6. CASE WorkerReloads
  <2>1. Head(toWorker) \in Message /\ Tail(toWorker) \in Seq(Message)
    BY <1>3, <1>6 DEF WorkerReloads, Hears
  <2>2. Head(toWorker).id \in Nat /\ Head(toWorker).config \in Configs \cup {None}
    BY <2>1 DEF Message
  <2>a. PICK r \in {Report("result", Head(toWorker).id, Head(toWorker).config, TRUE),
                    Report("result", Head(toWorker).id, None, FALSE)} : Says(r)
    BY <1>6 DEF WorkerReloads
  <2>b. r \in Reports
    BY <1>2, <2>2
  <2>3. toSup' \in Seq(Reports) /\ toWorker' = Tail(toWorker)
    BY <1>0, <2>a, <2>b, AppendFacts DEF Says, LinkTypeOK
  <2>4. worker' \in [phase : {"new", "prepared", "running"},
                     digest : Configs \cup {None}, exit : {"none", "clean", "quiet", "error"}]
    BY <1>0, <1>6, <2>2 DEF WorkerReloads, LinkTypeOK
  <2> QED
    BY <1>0, <1>6, <2>1, <2>3, <2>4 DEF WorkerReloads, LinkTypeOK
<1>7. CASE WorkerStops
  <2>1. Head(toWorker).id \in Nat
    BY <1>3, <1>7 DEF WorkerStops, Hears, Message
  <2>2. \A ok \in BOOLEAN : <<Report("stopped", Head(toWorker).id, None, ok)>> \in Seq(Reports)
    BY <1>2, <2>1
  <2> QED
    BY <1>0, <1>7, <2>2, ExitType DEF WorkerStops
<1>8. CASE WorkerDies
  BY <1>0, <1>1, <1>8, ExitType, EventType DEF WorkerDies
<1> QED
  BY <1>4, <1>5, <1>6, <1>7, <1>8 DEF WorkerStep

\* Every step keeps the types.
LEMMA TypeStep ==
    ASSUME ServiceTypeOK, RequestInv, CalmInv, [ServiceNext]_vars
    PROVE  ServiceTypeOK'
<1>0. CliTypeOK /\ ServerTypeOK /\ SupTypeOK /\ LinkTypeOK /\ events \in 0 .. MaxEvents
  BY TypeParts
<1>6. SUFFICES CliTypeOK' /\ ServerTypeOK' /\ SupTypeOK' /\ LinkTypeOK' /\ events' \in 0 .. MaxEvents
  BY DEF ServiceTypeOK, CliTypeOK, ServerTypeOK, SupTypeOK, LinkTypeOK, CliType, OutcomeType
<1>1. CASE \/ Activate \/ RemoveFile \/ RestoreFile \/ ReceiveResponse \/ CliTimeout
           \/ (\E c \in Configs : BeginUpdate(c) \/ EditFile(c))
           \/ BeginReload \/ Disconnect \/ KillCli \/ ActivateFails \/ RestoreFails
  <2>1. CliTypeOK' /\ ServerTypeOK' /\ events' \in 0 .. MaxEvents /\ UNCHANGED <<supVars, linkVars>>
    BY <1>1, CliStepType
  <2> QED
    BY <1>0, <2>1 DEF SupTypeOK, LinkTypeOK, supVars, linkVars
<1>2. CASE ProcessReload \/ \E i \in Ids : HandlerGivesUp(i)
  BY <1>0, <1>2, ServerStepType DEF SupTypeOK, LinkTypeOK, supVars, linkVars
<1>3. CASE SupStep \/ TakeSignal \/ Tick \/ Stop \/ CleanupExpires
  BY <1>0, <1>3, SupStepType DEF CliTypeOK, cliVars
<1>4. CASE WorkerStep
  BY <1>0, <1>4, WorkerStepType DEF CliTypeOK, ServerTypeOK, SupTypeOK, cliVars, serverVars, supVars
<1>5. CASE UNCHANGED vars
  BY <1>0, <1>5
     DEF vars, CliTypeOK, ServerTypeOK, SupTypeOK, LinkTypeOK, cliVars, serverVars, supVars, linkVars
<1> QED
  BY <1>1, <1>2, <1>3, <1>4, <1>5 DEF ServiceNext, CliStep, Operator

\* Where a step of the supervisor finds its current request.
LEMMA SupSource ==
    ASSUME ServiceTypeOK,
           \/ Bootstrap \/ AwaitPrepared \/ Install \/ Commit \/ AwaitRunning \/ SeeWorkerExit
           \/ LoadConfig \/ PushReload \/ AwaitResult \/ PersistDigest
           \/ CloseServer \/ Drain \/ RestoreHost \/ StopWorker \/ AwaitStopped \/ Reap
           \/ TakeSignal \/ Tick \/ Stop \/ CleanupExpires
    PROVE  sup'.source # "control" \/ (sup'.source = sup.source /\ sup'.id = sup.id)
<1>0. sup \in Supervisor
  BY DEF ServiceTypeOK
<1> DEFINE Goal == sup'.source # "control" \/ (sup'.source = sup.source /\ sup'.id = sup.id)
<1>1. ASSUME NEW pc, GoSup(pc) PROVE Goal
  BY <1>0, <1>1 DEF GoSup, Supervisor
<1>2. ASSUME NEW err, Answer(err) PROVE Goal
  BY <1>0, <1>2 DEF Answer, Supervisor
<1>3. ASSUME NEW pc, NEW failed, sup' = [sup EXCEPT !.pc = pc, !.failed = failed] PROVE Goal
  BY <1>0, <1>3 DEF Supervisor
<1>4. ASSUME NEW pc, NEW running, sup' = [sup EXCEPT !.pc = pc, !.running = running] PROVE Goal
  BY <1>0, <1>4 DEF Supervisor
<1>5. ASSUME UNCHANGED sup PROVE Goal
  BY <1>5
<1>6. ASSUME NEW pc, NEW next, sup' = [sup EXCEPT !.pc = pc, !.next = next] PROVE Goal
  BY <1>0, <1>6 DEF Supervisor
<1>7. ASSUME AwaitResult PROVE Goal
  BY <1>2, <1>1, <1>5, <1>7 DEF AwaitResult, Accepted
<1>8. ASSUME TakeSignal \/ Tick \/ CleanupExpires PROVE Goal
  BY <1>0, <1>8 DEF TakeSignal, Tick, CleanupExpires, GoSup, Supervisor
<1> HIDE DEF Goal
<1>b. ASSUME NEW pc, Breaks(pc) PROVE Goal
  BY <1>0, <1>b DEF Breaks, Supervisor, Goal
<1>9. ASSUME \/ Bootstrap \/ AwaitPrepared \/ Install \/ Commit \/ Stop \/ CloseServer PROVE Goal
  BY <1>1, <1>b, <1>9 DEF Bootstrap, AwaitPrepared, Install, Commit, Stop, CloseServer
<1>10. ASSUME \/ AwaitRunning \/ SeeWorkerExit PROVE Goal
  BY <1>1, <1>4, <1>10 DEF AwaitRunning, SeeWorkerExit
<1>11. ASSUME \/ LoadConfig \/ PushReload \/ PersistDigest PROVE Goal
  BY <1>1, <1>2, <1>6, <1>11 DEF LoadConfig, PushReload, PersistDigest
<1>12. ASSUME \/ Drain \/ RestoreHost \/ StopWorker \/ AwaitStopped \/ Reap PROVE Goal
  BY <1>1, <1>3, <1>5, <1>b, <1>12 DEF Drain, RestoreHost, StopWorker, AwaitStopped, Reap
<1> QED
  BY <1>7, <1>8, <1>9, <1>10, <1>11, <1>12 DEF Goal

----------------------------------------------------------------------------
(* Requests *)

\* A step that leaves the command and the records alone.
LEMMA RequestAside ==
    ASSUME RequestInv, UNCHANGED <<issued, started, resp, exec, want, cli>>,
           sup'.source # "control" \/ (sup'.source = sup.source /\ sup'.id = sup.id)
    PROVE  RequestInv'
BY DEF RequestInv

\* The command ends, or turns to putting the old file back.
LEMMA RequestGiveUp ==
    ASSUME ServiceTypeOK, RequestInv, cli.pc # "idle", GiveUp \/ cli' = IdleCli,
           UNCHANGED <<issued, started, resp, exec, want, sup>>
    PROVE  RequestInv'
<1>1. CASE cli' = IdleCli
  BY <1>1 DEF RequestInv, IdleCli
<1>2. CASE cli' = [cli EXCEPT !.pc = "remove"] /\ cli.undo # None /\ ~cli.rolling
  <2>1. /\ cli'.pc = "remove" /\ cli'.id = cli.id /\ cli'.want = cli.want
        /\ cli'.undo = cli.undo /\ cli'.rolling = cli.rolling
    BY <1>2 DEF ServiceTypeOK
  <2> QED
    BY <1>2, <2>1 DEF RequestInv
<1> QED
  BY <1>1, <1>2 DEF GiveUp, EndCli

\* A request is answered.
LEMMA RequestComplete ==
    ASSUME ServiceTypeOK, RequestInv, NEW i \in Ids, exec[i] # "none", NEW r \in Configs \cup {Failed},
           Complete(i, r), UNCHANGED <<issued, started, cli>>,
           sup'.source # "control" \/ (sup'.source = sup.source /\ sup'.id = sup.id)
    PROVE  RequestInv'
<1>1. r \notin {Absent, Running}
  BY NamesAssumption DEF Absent, Running, Failed
<1>2. /\ resp' = [resp EXCEPT ![i] = r] /\ exec' = [exec EXCEPT ![i] = "none"]
      /\ want' = [want EXCEPT ![i] = None]
  BY DEF Complete
<1>3. started[i] = 1
  BY DEF RequestInv
<1>4. \A j \in Ids : /\ started'[j] <= 1
                     /\ j > issued' => started'[j] = 0 /\ resp'[j] = Absent
                     /\ exec'[j] # "none" => started'[j] = 1
  BY <1>2, <1>3 DEF ServiceTypeOK, RequestInv
<1>5. cli.pc # "idle" => cli.id \in Ids
  BY DEF RequestInv
<1>6. ASSUME cli.pc \in {"activate", "send", "await"}
      PROVE  /\ resp'[cli.id] = Absent <=> started'[cli.id] = 0
             /\ resp'[cli.id] \in {Absent, Running} => want'[cli.id] = cli.want
             /\ exec'[cli.id] # "none" => resp'[cli.id] = Running
  BY <1>1, <1>2, <1>3, <1>5, <1>6 DEF ServiceTypeOK, RequestInv
<1> QED
  BY <1>4, <1>6 DEF RequestInv

\* A command with a fresh ID.
LEMMA RequestFresh ==
    ASSUME ServiceTypeOK, RequestInv, issued + 1 \in Ids, issued' = issued + 1,
           cli'.pc \in {"activate", "send"}, cli'.id = issued + 1, cli'.want \in Configs,
           cli'.undo # None /\ ~cli'.rolling => issued + 2 \in Ids,
           cli'.pc = "activate" => cli'.undo # None /\ ~cli'.rolling,
           want' = [want EXCEPT ![issued + 1] = cli'.want], UNCHANGED <<resp, exec, started, sup>>
    PROVE  RequestInv'
<1>0. issued \in Nat
  BY ServiceAssumption DEF ServiceTypeOK
<1>1. started[issued + 1] = 0 /\ resp[issued + 1] = Absent /\ exec[issued + 1] = "none"
  BY <1>0 DEF RequestInv
<1>2. want'[issued + 1] = cli'.want
  BY DEF ServiceTypeOK
<1>3. issued' + 1 = issued + 2
  BY <1>0
<1>4. \A j \in Ids : /\ started'[j] <= 1
                     /\ j > issued' => started'[j] = 0 /\ resp'[j] = Absent
                     /\ exec'[j] # "none" => started'[j] = 1
  BY <1>0 DEF RequestInv, Ids
<1> QED
  BY <1>1, <1>2, <1>3, <1>4 DEF RequestInv

LEMMA RequestProcess ==
    ASSUME ServiceTypeOK, RequestInv, ProcessReload
    PROVE  RequestInv'
<1>0. /\ cli.pc = "send" /\ resp[cli.id] = Absent /\ UNCHANGED <<issued, want, sup>>
      /\ cli.id \in Ids /\ cli.id = issued
  BY DEF ProcessReload, RequestInv, supVars
<1>1. started[cli.id] = 0 /\ exec[cli.id] = "none" /\ Absent # Running
  BY <1>0, NamesAssumption DEF RequestInv, Absent, Running
<1>2. PICK dropped :
        \/ /\ resp' = [i \in Ids |-> IF i \in dropped THEN Absent ELSE resp[i]]
           /\ GiveUp
           /\ UNCHANGED <<exec, started>>
        \/ /\ resp' = [i \in Ids |-> IF i = cli.id THEN Running
                                     ELSE IF i \in dropped THEN Absent
                                     ELSE resp[i]]
           /\ exec' = [exec EXCEPT ![cli.id] = "offer"]
           /\ started' = [started EXCEPT ![cli.id] = @ + 1]
           /\ cli' = [cli EXCEPT !.pc = "await"]
           /\ UNCHANGED last
  BY DEF ProcessReload
<1>3. CASE /\ resp' = [i \in Ids |-> IF i \in dropped THEN Absent ELSE resp[i]]
           /\ GiveUp
           /\ UNCHANGED <<exec, started>>
  <2>1. \A j \in Ids : /\ started'[j] <= 1
                       /\ j > issued' => started'[j] = 0 /\ resp'[j] = Absent
                       /\ exec'[j] # "none" => started'[j] = 1
    BY <1>0, <1>3 DEF RequestInv
  <2>2. CASE cli' = IdleCli
    BY <1>0, <1>3, <2>1, <2>2 DEF RequestInv, IdleCli
  <2>3. CASE cli' = [cli EXCEPT !.pc = "remove"] /\ cli.undo # None /\ ~cli.rolling
    <3>1. /\ cli'.pc = "remove" /\ cli'.id = cli.id /\ cli'.want = cli.want
          /\ cli'.undo = cli.undo /\ cli'.rolling = cli.rolling
      BY <2>3 DEF ServiceTypeOK
    <3> QED
      BY <1>0, <1>3, <2>1, <2>3, <3>1 DEF RequestInv
  <2> QED
    BY <1>3, <2>2, <2>3 DEF GiveUp, EndCli
<1>4. CASE /\ resp' = [i \in Ids |-> IF i = cli.id THEN Running
                                     ELSE IF i \in dropped THEN Absent
                                     ELSE resp[i]]
           /\ exec' = [exec EXCEPT ![cli.id] = "offer"]
           /\ started' = [started EXCEPT ![cli.id] = @ + 1]
           /\ cli' = [cli EXCEPT !.pc = "await"]
  <2>1. /\ cli'.pc = "await" /\ cli'.id = cli.id /\ cli'.want = cli.want
        /\ cli'.undo = cli.undo /\ cli'.rolling = cli.rolling
    BY <1>4 DEF ServiceTypeOK
  <2>2. started'[cli.id] = 1 /\ resp'[cli.id] = Running
    BY <1>0, <1>1, <1>4 DEF ServiceTypeOK
  <2>3. \A j \in Ids : j # cli.id => /\ started'[j] = started[j] /\ exec'[j] = exec[j]
                                     /\ resp'[j] = resp[j] \/ resp'[j] = Absent
    BY <1>4 DEF ServiceTypeOK
  <2>4. \A j \in Ids : /\ started'[j] <= 1
                       /\ j > issued' => started'[j] = 0 /\ resp'[j] = Absent
                       /\ exec'[j] # "none" => started'[j] = 1
    BY <1>0, <2>2, <2>3, ServiceAssumption DEF RequestInv, ServiceTypeOK, Ids
  <2>5. started'[sup.id] = 1 \/ sup.source # "control"
    BY <2>2, <2>3 DEF RequestInv
  <2>6. want[cli.id] = cli.want
    BY <1>0 DEF RequestInv
  <2> QED
    BY <1>0, <1>1, <2>1, <2>2, <2>4, <2>5, <2>6 DEF RequestInv
<1> QED
  BY <1>2, <1>3, <1>4

LEMMA RequestStep ==
    ASSUME ServiceTypeOK, RequestInv, CalmInv, [ServiceNext]_vars
    PROVE  RequestInv'
<1> USE DEF serverVars, supVars, linkVars, cliVars
<1>0. issued \in Nat /\ MaxRequests \in Nat
  BY ServiceAssumption DEF ServiceTypeOK
<1>1. ASSUME NEW c \in Configs, BeginUpdate(c) PROVE RequestInv'
  <2>1. issued + 1 \in Ids /\ issued + 2 \in Ids
    BY <1>0, <1>1 DEF BeginUpdate, Ids
  <2>2. /\ cli'.pc = "activate" /\ cli'.id = issued + 1 /\ cli'.want = c
        /\ cli'.undo = file /\ ~cli'.rolling
    BY <1>1 DEF BeginUpdate
  <2>3. file # None
    BY <1>1, NamesAssumption DEF BeginUpdate, ServiceTypeOK
  <2> QED
    BY <1>1, <2>1, <2>2, <2>3, RequestFresh DEF BeginUpdate
<1>2. CASE BeginReload
  <2>1. issued + 1 \in Ids /\ file \in Configs
    BY <1>0, <1>2 DEF BeginReload, Ids, ServiceTypeOK
  <2>2. /\ cli'.pc = "send" /\ cli'.id = issued + 1 /\ cli'.want = file
        /\ cli'.undo = None /\ ~cli'.rolling
    BY <1>2 DEF BeginReload
  <2> QED
    BY <1>2, <2>1, <2>2, RequestFresh DEF BeginReload
<1>3. CASE RestoreFile
  <2>1. issued + 1 \in Ids /\ cli.undo \in Configs
    BY <1>3 DEF RestoreFile, RequestInv, ServiceTypeOK
  <2>2. cli'.pc = "send" /\ cli'.id = issued + 1 /\ cli'.want = cli.undo /\ cli'.rolling
    BY <1>3 DEF RestoreFile, ServiceTypeOK
  <2> QED
    BY <1>3, <2>1, <2>2, RequestFresh DEF RestoreFile
<1>4. CASE Activate
  <2>1. /\ cli'.pc = "send" /\ cli'.id = cli.id /\ cli'.want = cli.want
        /\ cli'.undo = cli.undo /\ cli'.rolling = cli.rolling /\ cli.pc = "activate"
    BY <1>4 DEF Activate, ServiceTypeOK
  <2> QED
    BY <1>4, <2>1 DEF Activate, RequestInv
<1>5. CASE RemoveFile
  <2>1. /\ cli'.pc = "restore" /\ cli'.id = cli.id /\ cli'.want = cli.want
        /\ cli'.undo = cli.undo /\ cli'.rolling = cli.rolling /\ cli.pc = "remove"
    BY <1>5 DEF RemoveFile, ServiceTypeOK
  <2> QED
    BY <1>5, <2>1 DEF RemoveFile, RequestInv
<1>6. CASE Disconnect
  <2>1. /\ cli'.pc = "send" /\ cli'.id = cli.id /\ cli'.want = cli.want
        /\ cli'.undo = cli.undo /\ cli'.rolling = cli.rolling /\ cli.pc = "await"
    BY <1>6 DEF Disconnect, ServiceTypeOK
  <2> QED
    BY <1>6, <2>1 DEF Disconnect, RequestInv
<1>7. CASE ReceiveResponse \/ CliTimeout \/ KillCli \/ ActivateFails \/ RestoreFails
  <2>1. cli.pc # "idle" /\ (GiveUp \/ cli' = IdleCli) /\ UNCHANGED <<issued, started, resp, exec, want, sup>>
    BY <1>7 DEF ReceiveResponse, CliTimeout, KillCli, ActivateFails, RestoreFails, EndCli
  <2> QED
    BY <2>1, RequestGiveUp
<1>8. ASSUME NEW c \in Configs, EditFile(c) PROVE RequestInv'
  BY <1>8, RequestAside DEF EditFile
<1>9. ASSUME NEW i \in Ids, HandlerGivesUp(i) PROVE RequestInv'
  BY <1>9, RequestComplete DEF HandlerGivesUp
<1>10. ASSUME NEW i \in Ids, TakeRequest(i) PROVE RequestInv'
  <2>1. sup'.source = "control" /\ sup'.id = i
    BY <1>10 DEF TakeRequest, ServiceTypeOK, Supervisor
  <2>2. \A j \in Ids : (exec'[j] # "none" <=> exec[j] # "none")
    BY <1>10 DEF TakeRequest, ServiceTypeOK
  <2>3. started[i] = 1
    BY <1>10 DEF TakeRequest, RequestInv
  <2>4. UNCHANGED <<cli, issued, started, resp, want>>
    BY <1>10 DEF TakeRequest
  <2> QED
    BY <2>1, <2>2, <2>3, <2>4 DEF RequestInv
<1>11. CASE Reply
  <2>1. sup'.source # "control" \/ (sup'.source = sup.source /\ sup'.id = sup.id)
    BY <1>11 DEF Reply, GoSup, BackToLoop, ServiceTypeOK, Supervisor
  <2>2. CASE UNCHANGED <<want, resp, completed, exec>>
    BY <1>11, <2>1, <2>2, RequestAside DEF Reply
  <2>3. CASE /\ sup.source = "control" /\ exec[sup.id] = "wait"
             /\ Complete(sup.id, IF sup.err = "none" THEN sup.next ELSE Failed)
    <3>1. sup.id \in Ids
      BY <2>3 DEF RequestInv
    <3>2. (IF sup.err = "none" THEN sup.next ELSE Failed) \in Configs \cup {Failed}
      BY <1>11 DEF Reply, CalmInv, ServiceTypeOK
    <3> QED
      BY <1>11, <2>1, <2>3, <3>1, <3>2, RequestComplete DEF Reply
  <2> QED
    BY <1>11, <2>2, <2>3 DEF Reply
<1>12. CASE \/ Bootstrap \/ AwaitPrepared \/ Install \/ Commit \/ AwaitRunning \/ SeeWorkerExit
            \/ LoadConfig \/ PushReload \/ AwaitResult \/ PersistDigest
            \/ CloseServer \/ Drain \/ RestoreHost \/ StopWorker \/ AwaitStopped \/ Reap
            \/ TakeSignal \/ Tick \/ Stop \/ CleanupExpires
  <2>1. UNCHANGED <<issued, started, resp, exec, want, cli>>
    BY <1>12 DEF Bootstrap, AwaitPrepared, Install, Commit, AwaitRunning, SeeWorkerExit,
         LoadConfig, PushReload, AwaitResult, PersistDigest,
         CloseServer, Drain, RestoreHost, StopWorker, AwaitStopped, Reap,
         TakeSignal, Tick, Stop, CleanupExpires
  <2>2. sup'.source # "control" \/ (sup'.source = sup.source /\ sup'.id = sup.id)
    BY <1>12, SupSource
  <2> QED
    BY <2>1, <2>2, RequestAside
<1>13. CASE WorkerStep
  BY <1>13, WorkerStepType, RequestAside
<1>14. CASE UNCHANGED vars
  BY <1>14, RequestAside DEF vars
<1> QED
  BY <1>1, <1>2, <1>3, <1>4, <1>5, <1>6, <1>7, <1>8, <1>9, <1>10, <1>11, <1>12, <1>13, <1>14,
     RequestProcess DEF ServiceNext, CliStep, Operator, SupStep

----------------------------------------------------------------------------
(* The private protocol *)

LEMMA SupTyped ==
    ServiceTypeOK => SupTypeOK
BY DEF ServiceTypeOK, SupTypeOK

LEMMA GoSupFields ==
    ASSUME ServiceTypeOK, NEW pc, GoSup(pc)
    PROVE  /\ sup'.pc = pc /\ sup'.source = sup.source /\ sup'.id = sup.id /\ sup'.next = sup.next
           /\ sup'.err = sup.err /\ sup'.running = sup.running /\ sup'.late = sup.late
           /\ sup'.failed = sup.failed /\ sup'.broken = sup.broken
BY DEF ServiceTypeOK, GoSup, Supervisor

\* Asking for the shutdown and awaiting it lead nowhere but to the end.
LEMMA StoppingFields ==
    ASSUME ServiceTypeOK, StopWorker \/ AwaitStopped
    PROVE  sup'.pc \in {"awaitStop", "reap"} /\ sup'.err = sup.err /\ UNCHANGED recorded
<1>0. sup \in Supervisor
  BY DEF ServiceTypeOK
<1>1. CASE StopWorker
  <2>1. \/ GoSup("reap") \/ GoSup("awaitStop")
        \/ sup' = [sup EXCEPT !.pc = "reap", !.failed = TRUE]
    BY <1>1 DEF StopWorker
  <2>2. UNCHANGED recorded
    BY <1>1 DEF StopWorker
  <2> QED
    BY <1>0, <2>1, <2>2 DEF GoSup, Supervisor
<1>2. CASE AwaitStopped
  <2>1. sup.pc = "awaitStop" /\ UNCHANGED recorded
    BY <1>2 DEF AwaitStopped
  <2>2. sup' = sup \/ \E f : sup' = [sup EXCEPT !.pc = "reap", !.failed = f]
    BY <1>2 DEF AwaitStopped
  <2> QED
    BY <1>0, <2>1, <2>2 DEF Supervisor
<1> QED
  BY <1>1, <1>2

LEMMA AnswerFields ==
    ASSUME ServiceTypeOK, NEW err, Answer(err)
    PROVE  /\ sup'.pc = "reply" /\ sup'.source = sup.source /\ sup'.id = sup.id /\ sup'.next = sup.next
           /\ sup'.err = err /\ sup'.running = sup.running /\ sup'.late = sup.late
           /\ sup'.failed = sup.failed /\ sup'.broken = sup.broken
BY DEF ServiceTypeOK, Answer, Supervisor

\* The supervisor moves on, and nothing on the wire does.
LEMMA WireMove ==
    ASSUME WireInv, UNCHANGED <<toWorker, toSup, worker, recorded, reqno, unsure>>,
           sup'.pc \in Starting => sup'.pc = sup.pc \/ (sup.pc = "install" /\ sup'.pc = "commit"),
           sup'.running = sup.running \/ sup'.pc \notin Starting,
           Reloading' => Reloading,
           sup'.pc = "await" => sup.pc = "await" /\ sup'.next = sup.next,
           CalmInv', sup'.err # "protocol"
    PROVE  WireInv'
<1>0. UNCHANGED Alive /\ UNCHANGED InTransit /\ UNCHANGED NothingHeard
      /\ UNCHANGED OnlyFirst("prepared") /\ UNCHANGED OnlyFirst("running") /\ UNCHANGED WorkerGone
  BY DEF Alive, InTransit, NothingHeard, OnlyFirst, WorkerGone, Last
<1>1. StartingInv'
  BY <1>0 DEF WireInv, StartingInv, Starting
<1>2. ReloadInv'
  BY <1>0 DEF WireInv, ReloadInv, Last
<1>3. AwaitInv'
  BY <1>0 DEF WireInv, AwaitInv
<1> QED
  BY <1>0, <1>1, <1>2, <1>3 DEF WireInv, Last

\* Steps that leave the supervisor and the wire alone.
LEMMA WireAside ==
    ASSUME WireInv, UNCHANGED <<sup, toWorker, toSup, worker, recorded, reqno, unsure>>
    PROVE  WireInv'
<1>0. UNCHANGED Alive /\ UNCHANGED InTransit
  BY DEF Alive, InTransit
<1>1. CalmInv'
  BY <1>0 DEF WireInv, CalmInv
<1>2. Reloading' <=> Reloading
  BY DEF Reloading
<1> QED
  BY <1>1, <1>2, WireMove DEF WireInv

LEMMA WireQuiet ==
    ASSUME ServiceTypeOK, RequestInv, WireInv,
           \/ Install \/ TakeSignal \/ Tick \/ Stop \/ SeeWorkerExit \/ LoadConfig \/ Reply
           \/ CloseServer \/ Drain \/ RestoreHost \/ Reap \/ CleanupExpires
           \/ \E i \in Ids : TakeRequest(i)
    PROVE  WireInv'
<1>0. UNCHANGED <<toWorker, toSup, worker, recorded, reqno, unsure>>
  BY DEF Install, TakeSignal, Tick, Stop, SeeWorkerExit, LoadConfig, Reply, CloseServer, Drain,
         RestoreHost, Reap, CleanupExpires, TakeRequest, linkVars
<1>1. UNCHANGED Alive /\ UNCHANGED InTransit
  BY <1>0 DEF Alive, InTransit
<1>2. sup \in Supervisor /\ sup.err # "protocol"
  BY DEF ServiceTypeOK, WireInv
<1>3. ASSUME sup'.pc \in {"commit", "close", "drain", "restore", "stop", "reap", "stopped"},
             sup'.pc = "commit" => sup.pc = "install",
             sup'.running = sup.running \/ ~sup'.running,
             sup.pc \in Serving \cup {"install", "close", "drain", "restore", "reap"},
             sup.pc = "install" => sup'.running = sup.running,
             sup.pc = "reap" => sup'.pc = "stopped",
             sup'.err = sup.err
      PROVE  WireInv'
  <2>1. CalmInv'
    BY <1>3 DEF CalmInv
  <2>2. Reloading' => Reloading
    BY <1>3 DEF Reloading, Serving, WireInv, StartingInv, Starting
  <2> QED
    BY <1>0, <1>2, <1>3, <2>1, <2>2, WireMove DEF Starting
<1>4. CASE Install \/ Stop \/ CloseServer
  BY <1>3, <1>4, GoSupFields, BreaksFields, SupTyped DEF Install, Stop, CloseServer, Serving
<1>5. CASE SeeWorkerExit
  <2>1. sup'.pc = "close" /\ ~sup'.running /\ sup'.err = sup.err /\ sup.pc = "loop"
    BY <1>2, <1>5 DEF SeeWorkerExit, Supervisor
  <2> QED
    BY <1>3, <2>1 DEF Serving
<1>6. CASE Drain \/ RestoreHost \/ Reap
  <2>1. /\ sup'.pc \in {"restore", "stop", "stopped"} /\ sup'.running = sup.running /\ sup'.err = sup.err
        /\ sup.pc \in {"drain", "restore", "reap"} /\ (sup.pc = "reap" => sup'.pc = "stopped")
    BY <1>2, <1>6, BreaksFields, SupTyped DEF Drain, RestoreHost, Reap, GoSup, Supervisor
  <2> QED
    BY <1>3, <2>1
<1>7. CASE CleanupExpires
  <2>1. /\ sup.pc \in Finishing /\ sup'.pc = sup.pc /\ sup'.running = sup.running /\ sup'.err = sup.err
        /\ sup'.next = sup.next
    BY <1>2, <1>7 DEF CleanupExpires, Supervisor
  <2>2. CalmInv'
    BY <2>1 DEF CalmInv, Finishing
  <2>3. Reloading' <=> Reloading
    BY <2>1 DEF Reloading
  <2> QED
    BY <1>0, <1>2, <2>1, <2>2, <2>3, WireMove DEF Finishing
<1>8. ASSUME sup.pc \in {"loop", "load", "reply"}, sup'.pc \in {"loop", "load", "push", "reply"}, CalmInv',
             sup'.err # "protocol"
      PROVE  WireInv'
  <2>1. Reloading
    BY <1>8 DEF Reloading, Serving
  <2> QED
    BY <1>0, <1>8, <2>1, WireMove DEF Starting
<1>9. CASE TakeSignal \/ \E i \in Ids : TakeRequest(i)
  <2>1. sup'.pc = "load" /\ sup'.source # "tick" /\ sup'.err = sup.err /\ sup.pc = "loop"
    BY <1>2, <1>9 DEF TakeSignal, TakeRequest, Supervisor
  <2>2. CalmInv'
    BY <1>0, <1>1, <2>1 DEF WireInv, CalmInv
  <2> QED
    BY <1>2, <1>8, <2>1, <2>2
<1>10. CASE Tick
  <2>1. CASE GoSup("close")
    BY <1>3, <1>10, <2>1, GoSupFields DEF Tick, Serving
  <2>2. CASE sup' = [sup EXCEPT !.pc = "push", !.source = "tick", !.next = recorded]
    <3>1. sup'.pc = "push" /\ sup'.next = recorded /\ sup'.err = sup.err /\ sup.pc = "loop"
      BY <1>2, <1>10, <2>2 DEF Tick, Supervisor
    <3>2. CalmInv'
      BY <1>0, <1>1, <3>1 DEF WireInv, CalmInv, ServiceTypeOK
    <3> QED
      BY <1>2, <1>8, <3>1, <3>2
  <2> QED
    BY <1>10, <2>1, <2>2 DEF Tick
<1>11. CASE LoadConfig
  <2>1. CASE Answer("rejected")
    <3>1. sup'.pc = "reply" /\ sup'.err = "rejected" /\ sup.pc = "load"
      BY <1>11, <2>1, AnswerFields DEF LoadConfig
    <3>2. CalmInv'
      BY <1>0, <1>1, <3>1 DEF WireInv, CalmInv
    <3> QED
      BY <1>8, <3>1, <3>2
  <2>2. CASE file \in Configs /\ sup' = [sup EXCEPT !.pc = "push", !.next = file]
    <3>1. /\ sup'.pc = "push" /\ sup'.next \in Configs /\ sup'.err = sup.err /\ sup.pc = "load"
          /\ sup'.source = sup.source
      BY <1>2, <1>11, <2>2 DEF LoadConfig, Supervisor
    <3>2. CalmInv'
      BY <1>0, <1>1, <3>1 DEF WireInv, CalmInv
    <3> QED
      BY <1>2, <1>8, <3>1, <3>2
  <2> QED
    BY <1>11, <2>1, <2>2 DEF LoadConfig
<1>12. CASE Reply
  <2>1. CASE sup.err = "persist"
    BY <1>3, <1>12, <2>1, GoSupFields DEF Reply, Serving
  <2>2. CASE sup.err # "persist"
    <3>1. sup'.pc = "loop" /\ sup'.err = "none" /\ sup.pc = "reply"
      BY <1>2, <1>12, <2>2 DEF Reply, BackToLoop, Supervisor
    <3>2. CalmInv'
      BY <1>0, <1>1, <2>2, <3>1 DEF WireInv, CalmInv
    <3> QED
      BY <1>8, <3>1, <3>2
  <2> QED
    BY <2>1, <2>2
<1> QED
  BY <1>4, <1>5, <1>6, <1>7, <1>9, <1>10, <1>11, <1>12

\* Once the supervisor is past its protocol, only the two ends matter.
LEMMA WireOut ==
    ASSUME sup'.pc \notin Starting, ~Reloading', sup'.err # "protocol",
           WorkerGone' => toWorker' = <<>>,
           Alive' => \A i \in 1 .. Len(toSup') : ~Last(toSup'[i])
    PROVE  WireInv'
<1>1. sup'.pc \notin Serving
  BY DEF Reloading
<1>2. StartingInv' /\ AwaitInv' /\ CalmInv'
  BY <1>1 DEF StartingInv, AwaitInv, CalmInv, Starting, Serving
<1> QED
  BY <1>2 DEF WireInv, ReloadInv, Last, Alive, WorkerGone

\* A message is taken from the worker's end.
LEMMA Taken ==
    ASSUME ServiceTypeOK, WireInv, toSup # <<>>, toSup' = Tail(toSup), UNCHANGED <<toWorker, worker>>
    PROVE  /\ Len(toSup') = Len(toSup) - 1 /\ Len(toSup) \in Nat \ {0} /\ Len(toSup') \in Nat
           /\ \A i \in 1 .. Len(toSup') : i + 1 \in 1 .. Len(toSup) /\ toSup'[i] = toSup[i + 1]
           /\ Head(toSup) = toSup[1] /\ toSup[1] \in Reports /\ 1 \in 1 .. Len(toSup)
           /\ WorkerGone' => toWorker' = <<>>
           /\ Alive' => \A i \in 1 .. Len(toSup') : ~Last(toSup'[i])
<1>1. /\ Len(toSup') = Len(toSup) - 1 /\ Len(toSup) \in Nat \ {0} /\ Len(toSup') \in Nat
      /\ \A i \in 1 .. Len(toSup') : toSup'[i] = toSup[i + 1]
      /\ Head(toSup) = toSup[1] /\ toSup[1] \in Reports
  BY TailFacts DEF ServiceTypeOK
<1>2. \A i \in 1 .. Len(toSup') : i + 1 \in 1 .. Len(toSup)
  BY <1>1
<1>3. 1 \in 1 .. Len(toSup)
  BY <1>1
<1> QED
  BY <1>1, <1>2, <1>3 DEF WireInv, Alive, WorkerGone, Last

\* A worker that lives has not written its last message: hearing only last ones, nothing is heard.
LEMMA NothingOnTheWire ==
    ASSUME ServiceTypeOK, WireInv, NothingHeard, Alive
    PROVE  toSup = <<>>
<1>1. \A i \in 1 .. Len(toSup) : Last(toSup[i]) /\ ~Last(toSup[i])
  BY DEF WireInv, NothingHeard
<1>2. Len(toSup) \in Nat /\ (toSup = <<>> <=> Len(toSup) = 0)
  BY LenFacts DEF ServiceTypeOK
<1>3. SUFFICES ASSUME Len(toSup) # 0
               PROVE  FALSE
  BY <1>2
<1>4. 1 \in 1 .. Len(toSup)
  BY <1>2, <1>3
<1> QED
  BY <1>1, <1>4

LEMMA WireBootstrap ==
    ASSUME ServiceTypeOK, WireInv, Bootstrap
    PROVE  WireInv'
<1>0. UNCHANGED <<toSup, worker, recorded, reqno, unsure>> /\ sup.pc = "start" /\ ~sup.running
      /\ sup.err # "protocol" /\ NothingHeard
  BY DEF Bootstrap, WireInv, StartingInv, Starting
<1>1. CASE WorkerGone
  <2>1. sup'.pc = "close" /\ ~sup'.running /\ sup'.err = sup.err /\ UNCHANGED toWorker
    BY <1>0, <1>1, GoSupFields DEF Bootstrap
  <2> QED
    BY <1>0, <1>1, <2>1, WireOut DEF WireInv, Reloading, Serving, Starting, WorkerGone, Alive
<1>2. CASE ~WorkerGone
  <2>0. Alive /\ Alive' /\ ~WorkerGone'
    BY <1>0, <1>2 DEF Alive, WorkerGone
  <2>1. sup'.pc = "awaitPrepared" /\ ~sup'.running /\ sup'.err = sup.err
    BY <1>0, <1>2, GoSupFields DEF Bootstrap
  <2>2. toWorker = <<>> /\ worker.phase = "new"
    BY <1>0, <2>0 DEF WireInv, StartingInv
  <2>3. toWorker' = <<[kind |-> "bootstrap", id |-> 0, config |-> recorded]>>
    BY <1>2, <2>2 DEF Bootstrap, Send
  <2>4. Len(toWorker') = 1 /\ toWorker'[1].kind = "bootstrap" /\ toWorker'[1].config = recorded
    BY <2>3
  <2>5. toSup = <<>>
    BY <1>0, <2>0, NothingOnTheWire
  <2>6. StartingInv'
    BY <1>0, <2>0, <2>1, <2>2, <2>4, <2>5 DEF StartingInv, OnlyFirst, Starting
  <2>7. CalmInv' /\ AwaitInv' /\ ReloadInv'
    BY <2>1 DEF CalmInv, AwaitInv, ReloadInv, Reloading, Serving
  <2> QED
    BY <1>0, <2>0, <2>1, <2>5, <2>6, <2>7 DEF WireInv
<1> QED
  BY <1>1, <1>2

LEMMA WireCommit ==
    ASSUME ServiceTypeOK, WireInv, Commit
    PROVE  WireInv'
<1>0. UNCHANGED <<toSup, worker, recorded, reqno, unsure>> /\ sup.pc = "commit" /\ ~sup.running
      /\ sup.err # "protocol" /\ NothingHeard
  BY DEF Commit, WireInv, StartingInv, Starting
<1>1. CASE WorkerGone
  <2>1. sup'.pc = "close" /\ ~sup'.running /\ sup'.err = sup.err /\ UNCHANGED toWorker
    BY <1>0, <1>1, GoSupFields DEF Commit
  <2> QED
    BY <1>0, <1>1, <2>1, WireOut DEF WireInv, Reloading, Serving, Starting, WorkerGone, Alive
<1>2. CASE ~WorkerGone
  <2>0. Alive /\ Alive' /\ ~WorkerGone'
    BY <1>0, <1>2 DEF Alive, WorkerGone
  <2>1. sup'.pc = "awaitRunning" /\ ~sup'.running /\ sup'.err = sup.err
    BY <1>0, <1>2, GoSupFields DEF Commit
  <2>2. toWorker = <<>> /\ worker.phase = "prepared" /\ worker.digest = recorded
    BY <1>0, <2>0 DEF WireInv, StartingInv
  <2>3. toWorker' = <<[kind |-> "commit", id |-> 0, config |-> recorded]>>
    BY <1>2, <2>2 DEF Commit, Send
  <2>4. Len(toWorker') = 1 /\ toWorker'[1].kind = "commit"
    BY <2>3
  <2>5. toSup = <<>>
    BY <1>0, <2>0, NothingOnTheWire
  <2>6. StartingInv'
    BY <1>0, <2>0, <2>1, <2>2, <2>4, <2>5 DEF StartingInv, OnlyFirst, Starting
  <2>7. CalmInv' /\ AwaitInv' /\ ReloadInv'
    BY <2>1 DEF CalmInv, AwaitInv, ReloadInv, Reloading, Serving
  <2> QED
    BY <1>0, <2>0, <2>1, <2>5, <2>6, <2>7 DEF WireInv
<1> QED
  BY <1>1, <1>2

\* What the two awaits of the start-up have in common.
LEMMA WireAwaitStart ==
    ASSUME ServiceTypeOK, WireInv, NEW kind, NEW v \in Verdicts, Await(kind, 0, v),
           UNCHANGED <<toWorker, worker>>
    PROVE  /\ WorkerGone' => toWorker' = <<>>
           /\ Alive' => \A i \in 1 .. Len(toSup') : ~Last(toSup'[i])
           /\ v = "accepted" => toSup # <<>> /\ toSup' = Tail(toSup) /\ Head(toSup).kind = kind
<1>1. CASE toSup # <<>> /\ toSup' = Tail(toSup)
  BY <1>1, Taken DEF Await
<1>2. CASE UNCHANGED toSup /\ v # "accepted"
  BY <1>2 DEF WireInv, WorkerGone, Alive
<1> QED
  BY <1>1, <1>2 DEF Await

LEMMA WireAwaitPrepared ==
    ASSUME ServiceTypeOK, WireInv, AwaitPrepared
    PROVE  WireInv'
<1>0. UNCHANGED <<toWorker, worker, recorded, reqno, unsure>> /\ sup.pc = "awaitPrepared" /\ ~sup.running
      /\ sup.err # "protocol"
  BY DEF AwaitPrepared, WireInv, StartingInv, Starting
<1>1. PICK v \in Verdicts : Await("prepared", 0, v) /\ GoSup(IF v = "accepted" THEN "install" ELSE "close")
  BY DEF AwaitPrepared
<1>2. /\ WorkerGone' => toWorker' = <<>>
      /\ Alive' => \A i \in 1 .. Len(toSup') : ~Last(toSup'[i])
      /\ v = "accepted" => toSup # <<>> /\ toSup' = Tail(toSup)
  BY <1>0, <1>1, WireAwaitStart
<1>3. ~sup'.running /\ sup'.err = sup.err /\ sup'.pc = IF v = "accepted" THEN "install" ELSE "close"
  BY <1>0, <1>1, GoSupFields
<1>4. CASE v # "accepted"
  BY <1>0, <1>2, <1>3, <1>4, WireOut DEF Reloading, Serving, Starting
<1>5. CASE v = "accepted"
  <2>1. /\ Len(toSup') = Len(toSup) - 1 /\ Len(toSup) \in Nat \ {0} /\ Len(toSup') \in Nat
        /\ \A i \in 1 .. Len(toSup') : i + 1 \in 1 .. Len(toSup) /\ toSup'[i] = toSup[i + 1]
    BY <1>0, <1>2, <1>5, Taken
  <2>2. OnlyFirst("prepared")
    BY <1>0 DEF WireInv, StartingInv
  <2>3. NothingHeard'
    BY <2>1, <2>2 DEF OnlyFirst, NothingHeard, Last
  <2>4. Alive' => worker.phase = "prepared" /\ toWorker = <<>> /\ worker.digest = recorded
    BY <1>0, <1>2, <1>5 DEF WireInv, StartingInv, Alive
  <2>5. StartingInv'
    BY <1>0, <1>3, <1>5, <2>3, <2>4 DEF StartingInv, Starting
  <2>6. CalmInv' /\ AwaitInv' /\ ReloadInv'
    BY <1>3, <1>5 DEF CalmInv, AwaitInv, ReloadInv, Reloading, Serving
  <2> QED
    BY <1>0, <1>2, <1>3, <2>5, <2>6 DEF WireInv, Last
<1> QED
  BY <1>4, <1>5

LEMMA WireAwaitRunning ==
    ASSUME ServiceTypeOK, WireInv, AwaitRunning
    PROVE  WireInv'
<1>0. UNCHANGED <<toWorker, worker, recorded, reqno, unsure>> /\ sup.pc = "awaitRunning" /\ ~sup.running
      /\ sup.err # "protocol" /\ sup \in Supervisor /\ reqno \in Nat
  BY DEF AwaitRunning, WireInv, StartingInv, Starting, ServiceTypeOK
<1>1. PICK v \in Verdicts :
        /\ Await("running", 0, v)
        /\ IF v # "accepted" THEN GoSup("close")
           ELSE \E pc \in {"loop", "close"} : sup' = [sup EXCEPT !.pc = pc, !.running = TRUE]
  BY DEF AwaitRunning
<1>2. /\ WorkerGone' => toWorker' = <<>>
      /\ Alive' => \A i \in 1 .. Len(toSup') : ~Last(toSup'[i])
      /\ v = "accepted" => toSup # <<>> /\ toSup' = Tail(toSup)
  BY <1>0, <1>1, WireAwaitStart
<1>4. CASE v # "accepted"
  <2>1. ~sup'.running /\ sup'.err = sup.err /\ sup'.pc = "close"
    BY <1>0, <1>1, <1>4, GoSupFields
  <2> QED
    BY <1>0, <1>2, <2>1, WireOut DEF Reloading, Serving, Starting
<1>5. CASE v = "accepted"
  <2>0. sup'.pc \in {"loop", "close"} /\ sup'.err = sup.err
    BY <1>0, <1>1, <1>5 DEF Supervisor
  <2>1. /\ Len(toSup') = Len(toSup) - 1 /\ Len(toSup) \in Nat \ {0} /\ Len(toSup') \in Nat
        /\ \A i \in 1 .. Len(toSup') : i + 1 \in 1 .. Len(toSup) /\ toSup'[i] = toSup[i + 1]
    BY <1>0, <1>2, <1>5, Taken
  <2>2. OnlyFirst("running")
    BY <1>0 DEF WireInv, StartingInv
  <2>3. \A i \in 1 .. Len(toSup') : Last(toSup'[i])
    BY <2>1, <2>2 DEF OnlyFirst, Last
  <2>4. Alive' => /\ worker.phase = "running" /\ toWorker = <<>> /\ worker.digest = recorded
                  /\ Len(toSup') = 0
    BY <1>0, <1>2, <1>5, <2>1 DEF WireInv, StartingInv, Alive
  <2>5. Alive' => Len(toWorker') = 0 /\ InTransit' = 0
    BY <1>0, <2>4 DEF InTransit
  <2>6. StartingInv' /\ AwaitInv'
    BY <2>0 DEF StartingInv, AwaitInv, Starting
  <2>7. CalmInv'
    BY <1>0, <2>0, <2>4, <2>5 DEF CalmInv
  <2>8. ReloadInv'
    BY <1>0, <2>0, <2>3, <2>4, <2>5 DEF ReloadInv, Last
  <2> QED
    BY <1>0, <1>2, <2>0, <2>6, <2>7, <2>8 DEF WireInv, Last
<1> QED
  BY <1>4, <1>5

LEMMA WirePersist ==
    ASSUME ServiceTypeOK, WireInv, PersistDigest
    PROVE  WireInv'
<1>0. UNCHANGED <<toWorker, toSup, worker, reqno, unsure>> /\ sup.pc = "persist"
  BY DEF PersistDigest, linkVars
<1>1. PICK e \in {"none", "persist"} : Answer(e) /\ (e = "none" => recorded' = sup.next)
  BY DEF PersistDigest
<1>2. sup'.pc = "reply" /\ sup'.err = e /\ sup'.next = sup.next
  BY <1>1, AnswerFields
<1>3. UNCHANGED Alive /\ UNCHANGED InTransit /\ UNCHANGED WorkerGone
  BY <1>0 DEF Alive, InTransit, WorkerGone
<1>4. CalmInv'
  BY <1>0, <1>1, <1>2, <1>3 DEF WireInv, CalmInv
<1>5. StartingInv' /\ AwaitInv'
  BY <1>2 DEF StartingInv, AwaitInv, Starting
<1>6. Reloading
  BY <1>0 DEF Reloading, Serving
<1>7. ReloadInv'
  BY <1>0, <1>3, <1>6 DEF WireInv, ReloadInv, Last
<1> QED
  BY <1>0, <1>2, <1>3, <1>4, <1>5, <1>7 DEF WireInv, Last

LEMMA KillWire ==
    ASSUME ServiceTypeOK, WireInv, Kill
    PROVE  WorkerGone' /\ toWorker' = <<>> /\ ~Alive'
<1>1. CASE WorkerGone
  BY <1>1 DEF Kill, linkVars, WireInv, WorkerGone, Alive
<1>2. CASE ~WorkerGone
  BY <1>2 DEF Kill, ServiceTypeOK, WorkerGone, Alive
<1> QED
  BY <1>1, <1>2

LEMMA WireStop ==
    ASSUME ServiceTypeOK, WireInv, StopWorker \/ AwaitStopped
    PROVE  WireInv'
<1>0. sup'.pc \in {"awaitStop", "reap"} /\ sup'.err = sup.err
  BY StoppingFields
<1>1. /\ WorkerGone' => toWorker' = <<>>
      /\ Alive' => \A i \in 1 .. Len(toSup') : ~Last(toSup'[i])
  <2>1. CASE Kill
    BY <2>1, KillWire
  <2>2. CASE UNCHANGED linkVars
    BY <2>2 DEF linkVars, WireInv, WorkerGone, Alive
  <2>3. CASE ~WorkerGone /\ UNCHANGED <<toSup, worker>>
    BY <2>3 DEF WireInv, WorkerGone, Alive
  <2>4. CASE toSup # <<>> /\ toSup' = Tail(toSup) /\ UNCHANGED <<toWorker, worker>>
    BY <2>4, Taken
  <2> QED
    BY <2>1, <2>2, <2>3, <2>4 DEF StopWorker, AwaitStopped
<1> QED
  BY <1>0, <1>1, WireOut DEF WireInv, Reloading, Serving, Starting

\* A reload is sent: its number follows the last one, so the sequence has no gap.
LEMMA WirePush ==
    ASSUME ServiceTypeOK, WireInv, PushReload
    PROVE  WireInv'
<1>0. /\ UNCHANGED <<toSup, worker, recorded, unsure>> /\ reqno' = reqno + 1 /\ sup.pc = "push"
      /\ reqno \in Nat /\ sup.next \in Configs /\ sup.err # "protocol" /\ Reloading
      /\ Len(toSup) \in Nat /\ Len(toWorker) \in Nat
  BY LenFacts DEF PushReload, WireInv, CalmInv, ServiceTypeOK, Reloading, Serving
<1>1. CASE WorkerGone
  <2>0. ~Alive' /\ UNCHANGED toWorker /\ WorkerGone'
    BY <1>0, <1>1 DEF PushReload, Alive, WorkerGone
  <2>1. sup'.pc = "reply" /\ sup'.err = "worker"
    BY <1>1, AnswerFields DEF PushReload
  <2>2. StartingInv' /\ AwaitInv' /\ CalmInv'
    BY <2>0, <2>1 DEF StartingInv, AwaitInv, CalmInv, Starting
  <2>3. \A i \in 1 .. Len(toSup) :
          Last(toSup[i]) \/ (toSup[i].kind = "result" /\ toSup[i].id \in 1 .. reqno')
    BY <1>0 DEF WireInv, ReloadInv
  <2>4. ReloadInv'
    BY <1>0, <2>0, <2>3 DEF ReloadInv, Last
  <2> QED
    BY <1>0, <1>1, <2>0, <2>1, <2>2, <2>4 DEF WireInv
<1>2. CASE ~WorkerGone
  <2> DEFINE m == [kind |-> "reload", id |-> reqno + 1, config |-> sup.next]
  <2>0. Alive /\ Alive' /\ ~WorkerGone'
    BY <1>0, <1>2 DEF Alive, WorkerGone
  <2>1. /\ sup'.pc = "await" /\ sup'.err = sup.err /\ sup'.next = sup.next /\ sup'.source = sup.source
    BY <1>2, GoSupFields DEF PushReload
  <2>2. toWorker' = Append(toWorker, m) /\ m \in Message
    BY <1>0, <1>2 DEF PushReload, Send, Message
  <2>3. /\ Len(toWorker') = Len(toWorker) + 1
        /\ toWorker'[Len(toWorker) + 1] = m
        /\ \A i \in 1 .. Len(toWorker) : toWorker'[i] = toWorker[i]
    BY <2>2, AppendFacts DEF ServiceTypeOK
  <2>4. m.kind = "reload" /\ m.id = reqno + 1 /\ m.config = sup.next
    OBVIOUS
  <2> HIDE DEF m
  <2>5. InTransit' = InTransit + 1 /\ InTransit \in Nat
    BY <1>0, <2>3 DEF InTransit
  <2>6. /\ \A i \in 1 .. Len(toWorker) :
             toWorker[i].kind = "reload" /\ toWorker[i].id = reqno - Len(toWorker) + i
        /\ \A i \in 1 .. Len(toSup) : toSup[i].id = reqno - InTransit + i
        /\ InTransit <= reqno /\ worker.phase = "running"
        /\ \A i \in 1 .. Len(toSup) : toSup[i].kind = "result" /\ toSup[i].id \in 1 .. reqno
    BY <1>0, <2>0 DEF WireInv, ReloadInv
  <2>7. \A i \in 1 .. Len(toWorker') :
          /\ toWorker'[i].kind = "reload" /\ toWorker'[i].id = reqno' - Len(toWorker') + i
          /\ toWorker'[i].id = reqno' => toWorker'[i].config = sup'.next
    <3> TAKE i \in 1 .. Len(toWorker')
    <3>1. CASE i = Len(toWorker) + 1
      BY <1>0, <2>1, <2>3, <2>4, <3>1
    <3>2. CASE i # Len(toWorker) + 1
      <4>1. i \in 1 .. Len(toWorker)
        BY <1>0, <2>3, <3>2
      <4> QED
        BY <1>0, <2>3, <2>6, <4>1
    <3> QED
      BY <3>1, <3>2
  <2>8. \A i \in 1 .. Len(toSup) : /\ toSup[i].id = reqno' - InTransit' + i
                                   /\ toSup[i].id \in 1 .. reqno' /\ toSup[i].id # reqno'
    BY <1>0, <2>5, <2>6
  <2>9. ReloadInv'
    BY <1>0, <2>5, <2>6, <2>7, <2>8 DEF ReloadInv, Last
  <2>10. AwaitInv'
    <3>1. ~unsure => InTransit = 0 /\ worker.digest = recorded
      BY <1>0, <2>0 DEF WireInv, CalmInv
    <3>2. \A i \in 1 .. Len(toSup') : toSup'[i].id # reqno'
      BY <1>0, <2>8
    <3>3. Alive' /\ ~unsure' => InTransit' = 1 /\ worker'.digest = recorded'
      BY <1>0, <2>5, <3>1
    <3> QED
      BY <2>7, <3>2, <3>3 DEF AwaitInv
  <2>11. StartingInv' /\ CalmInv'
    BY <1>0, <2>1 DEF StartingInv, CalmInv, Starting, WireInv
  <2> QED
    BY <1>0, <2>0, <2>1, <2>9, <2>10, <2>11 DEF WireInv, Last
<1> QED
  BY <1>1, <1>2

\* An answer is awaited: one that comes late is recognised, any other is the right one.
LEMMA WireAwaitResult ==
    ASSUME ServiceTypeOK, WireInv, AwaitResult
    PROVE  WireInv'
<1>0. /\ UNCHANGED <<toWorker, worker, recorded, reqno>> /\ sup.pc = "await"
      /\ reqno \in Nat /\ sup.next \in Configs /\ sup.err # "protocol" /\ Reloading
      /\ Len(toSup) \in Nat /\ Len(toWorker) \in Nat /\ unsure \in BOOLEAN
  BY LenFacts DEF AwaitResult, WireInv, CalmInv, ServiceTypeOK, Reloading, Serving
<1>a. UNCHANGED Alive /\ UNCHANGED WorkerGone
  BY <1>0 DEF Alive, WorkerGone
<1>1. PICK v \in Verdicts :
        /\ Await("result", reqno, v)
        /\ CASE v = "accepted" -> Accepted
             [] v = "stale" -> UNCHANGED <<sup, unsure>>
             [] OTHER -> Answer(v) /\ unsure' = (unsure \/ v = "timeout")
  BY DEF AwaitResult
<1>2. CASE UNCHANGED toSup /\ ((WorkerGone /\ v = "worker") \/ v = "timeout")
  <2>1. sup'.pc = "reply" /\ sup'.err = v /\ unsure' = (unsure \/ v = "timeout")
    BY <1>1, <1>2, AnswerFields
  <2>2. UNCHANGED InTransit
    BY <1>0, <1>2 DEF InTransit
  <2>3. CalmInv'
    BY <1>a, <1>2, <2>1 DEF CalmInv, WorkerGone, Alive
  <2>4. StartingInv' /\ AwaitInv'
    BY <2>1 DEF StartingInv, AwaitInv, Starting
  <2>5. ReloadInv'
    BY <1>0, <1>a, <1>2, <2>2 DEF WireInv, ReloadInv, Last
  <2> QED
    BY <1>0, <1>a, <1>2, <2>1, <2>3, <2>4, <2>5 DEF WireInv, Last
<1>3. CASE /\ toSup # <<>> /\ toSup' = Tail(toSup)
           /\ v = IF Head(toSup).kind \in {"fatal", "eof"} THEN "worker"
                  ELSE IF StaleReloadResult(Head(toSup), reqno) THEN "stale"
                  ELSE IF Head(toSup).kind # "result" \/ Head(toSup).id # reqno THEN "protocol"
                  ELSE "accepted"
  <2> DEFINE m == toSup[1]
  <2>1. /\ Len(toSup') = Len(toSup) - 1 /\ Len(toSup) \in Nat \ {0} /\ Len(toSup') \in Nat
        /\ \A i \in 1 .. Len(toSup') : i + 1 \in 1 .. Len(toSup) /\ toSup'[i] = toSup[i + 1]
        /\ Head(toSup) = m /\ m \in Reports /\ 1 \in 1 .. Len(toSup)
        /\ WorkerGone' => toWorker' = <<>>
        /\ Alive' => \A i \in 1 .. Len(toSup') : ~Last(toSup'[i])
    BY <1>0, <1>3, Taken
  <2>2. InTransit' = InTransit - 1 /\ InTransit \in Nat
    BY <1>0, <2>1 DEF InTransit
  <2>3. ReloadInv'
    <3>1. \A i \in 1 .. Len(toSup') :
            Last(toSup'[i]) \/ (toSup'[i].kind = "result" /\ toSup'[i].id \in 1 .. reqno)
      BY <1>0, <2>1 DEF WireInv, ReloadInv, Last
    <3>2. Alive => \A i \in 1 .. Len(toSup') : toSup'[i].id = reqno - InTransit' + i
      <4> SUFFICES ASSUME Alive, NEW i \in 1 .. Len(toSup') PROVE toSup'[i].id = reqno - InTransit' + i
        OBVIOUS
      <4>1. toSup[i + 1].id = reqno - InTransit + (i + 1)
        BY <1>0, <2>1 DEF WireInv, ReloadInv
      <4> QED
        BY <1>0, <2>1, <2>2, <4>1
    <3>3. Alive => InTransit' <= reqno
      BY <1>0, <2>2 DEF WireInv, ReloadInv
    <3> QED
      BY <1>0, <1>a, <3>1, <3>2, <3>3 DEF WireInv, ReloadInv, Last
  <2>4. Last(m) \/ (m.kind = "result" /\ m.id \in 1 .. reqno)
    BY <1>0, <2>1 DEF WireInv, ReloadInv
  <2>5. Last(m) => ~Alive
    BY <2>1 DEF WireInv
  <2>6. Alive => m.id = reqno - InTransit + 1
    BY <1>0, <2>1 DEF WireInv, ReloadInv
  <2>7. v \in {"worker", "stale", "accepted"}
    BY <1>0, <1>3, <2>1, <2>4 DEF StaleReloadResult, Last
  <2>8. SUFFICES StartingInv' /\ AwaitInv' /\ CalmInv' /\ sup'.err # "protocol"
    BY <1>a, <2>1, <2>3 DEF WireInv, Last
  <2> HIDE DEF m
  <2>9. CASE v = "worker"
    <3>1. sup'.pc = "reply" /\ sup'.err = "worker"
      BY <1>1, <2>9, AnswerFields
    <3>2. ~Alive'
      BY <1>a, <1>3, <2>1, <2>5, <2>9 DEF Last
    <3> QED
      BY <3>1, <3>2 DEF StartingInv, AwaitInv, CalmInv, Starting
  <2>10. CASE v = "stale"
    <3>1. UNCHANGED <<sup, unsure>>
      BY <1>1, <2>10
    <3>2. m.id < reqno
      BY <1>3, <2>1, <2>10 DEF StaleReloadResult
    <3>3. ~(Alive /\ ~unsure)
      BY <1>0, <2>6, <3>2 DEF WireInv, AwaitInv
    <3>4. AwaitInv'
      <4>1. /\ \A i \in 1 .. Len(toSup) : toSup[i].kind = "result" /\ toSup[i].id = reqno =>
                 /\ toSup[i].ok => toSup[i].config = sup.next
                 /\ Alive /\ toSup[i].ok => worker.digest = sup.next
            /\ \A i \in 1 .. Len(toWorker) : toWorker[i].id = reqno => toWorker[i].config = sup.next
        BY <1>0 DEF WireInv, AwaitInv
      <4>2. \A i \in 1 .. Len(toSup') : toSup'[i].kind = "result" /\ toSup'[i].id = reqno =>
                 /\ toSup'[i].ok => toSup'[i].config = sup.next
                 /\ Alive /\ toSup'[i].ok => worker.digest = sup.next
        BY <2>1, <4>1
      <4> QED
        BY <1>0, <1>a, <3>1, <3>3, <4>1, <4>2 DEF AwaitInv
    <3> QED
      BY <1>0, <1>a, <3>1, <3>3, <3>4 DEF WireInv, StartingInv, CalmInv, Starting
  <2>11. CASE v = "accepted"
    <3>1. Accepted /\ m.kind = "result" /\ m.id = reqno
      BY <1>1, <1>3, <2>1, <2>11
    <3>2. /\ m.ok => m.config = sup.next
          /\ Alive /\ m.ok => worker.digest = sup.next
          /\ Alive /\ ~m.ok /\ ~unsure => worker.digest = recorded
      BY <1>0, <2>1, <3>1 DEF WireInv, AwaitInv, m
    <3>3. Alive => InTransit' = 0
      BY <1>0, <2>2, <2>6, <3>1
    <3>4. CASE ~m.ok
      <4>1. Answer("rejected") /\ UNCHANGED unsure
        BY <2>1, <3>1, <3>4 DEF Accepted
      <4>2. sup'.pc = "reply" /\ sup'.err = "rejected"
        BY <4>1, AnswerFields
      <4> QED
        BY <1>0, <1>a, <3>2, <3>3, <3>4, <4>1, <4>2 DEF StartingInv, AwaitInv, CalmInv, Starting
    <3>5. CASE m.ok /\ sup.source = "tick"
      <4>1. Answer("none") /\ unsure' = FALSE
        BY <2>1, <3>1, <3>2, <3>5 DEF Accepted
      <4>2. sup'.pc = "reply" /\ sup'.err = "none" /\ sup'.next = sup.next
        BY <4>1, AnswerFields
      <4>3. sup.next = recorded
        BY <1>0, <3>5 DEF WireInv, CalmInv
      <4> QED
        BY <1>0, <1>a, <3>2, <3>3, <3>5, <4>1, <4>2, <4>3 DEF StartingInv, AwaitInv, CalmInv, Starting
    <3>6. CASE m.ok /\ sup.source # "tick"
      <4>1. GoSup("persist") /\ unsure' = FALSE
        BY <2>1, <3>1, <3>2, <3>6 DEF Accepted
      <4>2. sup'.pc = "persist" /\ sup'.err = sup.err /\ sup'.next = sup.next
        BY <4>1, GoSupFields
      <4> QED
        BY <1>0, <1>a, <3>2, <3>3, <3>6, <4>1, <4>2 DEF StartingInv, AwaitInv, CalmInv, Starting
    <3> QED
      BY <3>4, <3>5, <3>6
  <2> QED
    BY <2>7, <2>9, <2>10, <2>11
<1> QED
  BY <1>1, <1>2, <1>3 DEF Await

\* What is on the wire when the worker leaves with the words r.
LEMMA ExitShape ==
    ASSUME ServiceTypeOK, NEW how \in {"clean", "quiet", "error"}, NEW r \in Seq(Reports), Exit(how, r)
    PROVE  /\ toWorker' = <<>> /\ worker'.exit = how /\ WorkerGone' /\ ~Alive'
           /\ worker'.phase = worker.phase /\ worker'.digest = worker.digest
           /\ Len(toSup) \in Nat /\ Len(r) \in Nat /\ Len(toSup') = Len(toSup) + Len(r) + 1
           /\ \A i \in 1 .. Len(toSup) : toSup'[i] = toSup[i]
           /\ \A i \in 1 .. Len(r) : toSup'[Len(toSup) + i] = r[i]
           /\ toSup'[Len(toSup) + Len(r) + 1] = Eof
           /\ Eof.kind = "eof"
<1>1. Eof \in Reports /\ Eof.kind = "eof"
  BY DEF Eof, Report, Reports
<1>2. <<Eof>> \in Seq(Reports) /\ Len(<<Eof>>) = 1 /\ <<Eof>>[1] = Eof
  BY <1>1
<1>3. /\ toSup \o r \in Seq(Reports) /\ Len(toSup \o r) = Len(toSup) + Len(r)
      /\ \A i \in 1 .. Len(toSup) : (toSup \o r)[i] = toSup[i]
      /\ \A i \in 1 .. Len(r) : (toSup \o r)[Len(toSup) + i] = r[i]
      /\ Len(toSup) \in Nat /\ Len(r) \in Nat
  BY ConcatFacts, LenFacts DEF ServiceTypeOK
<1> DEFINE s == toSup \o r
<1>4. /\ Len(s \o <<Eof>>) = Len(s) + 1
      /\ \A i \in 1 .. Len(s) : (s \o <<Eof>>)[i] = s[i]
      /\ (s \o <<Eof>>)[Len(s) + 1] = Eof
  <2>1. s \in Seq(Reports)
    BY <1>3
  <2> HIDE DEF s
  <2>2. /\ Len(s \o <<Eof>>) = Len(s) + Len(<<Eof>>)
        /\ \A i \in 1 .. Len(s) : (s \o <<Eof>>)[i] = s[i]
        /\ \A i \in 1 .. Len(<<Eof>>) : (s \o <<Eof>>)[Len(s) + i] = <<Eof>>[i]
    BY <1>2, <2>1, ConcatFacts
  <2> QED
    BY <1>2, <2>2
<1>5. toSup' = s \o <<Eof>>
  BY DEF Exit
<1>6. Len(s) = Len(toSup) + Len(r)
  BY <1>3
<1>7. /\ \A i \in 1 .. Len(toSup) : s[i] = toSup[i] /\ i \in 1 .. Len(s)
      /\ \A i \in 1 .. Len(r) : s[Len(toSup) + i] = r[i] /\ Len(toSup) + i \in 1 .. Len(s)
  BY <1>3, <1>6
<1>8. worker'.exit = how /\ worker'.phase = worker.phase /\ worker'.digest = worker.digest /\ toWorker' = <<>>
  BY DEF Exit, ServiceTypeOK
<1> HIDE DEF s
<1>9. \A i \in 1 .. Len(toSup) : toSup'[i] = toSup[i]
  BY <1>4, <1>5, <1>7
<1>10. \A i \in 1 .. Len(r) : toSup'[Len(toSup) + i] = r[i]
  BY <1>4, <1>5, <1>7
<1>11. WorkerGone' /\ ~Alive'
  BY <1>8 DEF WorkerGone, Alive
<1> QED
  BY <1>1, <1>3, <1>4, <1>5, <1>6, <1>8, <1>9, <1>10, <1>11

\* The worker dies, with or without a word.
LEMMA ExitWire ==
    ASSUME ServiceTypeOK, WireInv, NEW how \in {"clean", "quiet", "error"}, NEW r \in {<<>>, <<Fatal>>},
           Exit(how, r), UNCHANGED <<sup, recorded, reqno, unsure>>
    PROVE  WireInv'
<1>0. Fatal \in Reports /\ Fatal.kind = "fatal"
  BY DEF Fatal, Report, Reports
<1>1. r \in Seq(Reports) /\ \A i \in 1 .. Len(r) : r[i].kind = "fatal"
  <2>1. CASE r = <<>>
    BY <2>1
  <2>2. CASE r = <<Fatal>>
    <3>1. r \in Seq(Reports) /\ Len(r) = 1 /\ r[1] = Fatal
      BY <1>0, <2>2
    <3> QED
      BY <1>0, <3>1
  <2> QED
    BY <2>1, <2>2
<1>2. /\ toWorker' = <<>> /\ ~Alive' /\ Len(toSup) \in Nat /\ Len(r) \in Nat
      /\ Len(toSup') = Len(toSup) + Len(r) + 1
      /\ \A i \in 1 .. Len(toSup) : toSup'[i] = toSup[i]
      /\ \A i \in 1 .. Len(r) : toSup'[Len(toSup) + i] = r[i]
      /\ toSup'[Len(toSup) + Len(r) + 1].kind = "eof"
  BY <1>1, ExitShape
<1>3. \A i \in 1 .. Len(toSup') : \/ i \in 1 .. Len(toSup) /\ toSup'[i] = toSup[i]
                                  \/ Last(toSup'[i])
  <2> TAKE i \in 1 .. Len(toSup')
  <2>1. CASE i \in 1 .. Len(toSup)
    BY <1>2, <2>1
  <2>2. CASE i = Len(toSup) + Len(r) + 1
    BY <1>2, <2>2 DEF Last
  <2>3. CASE i \notin 1 .. Len(toSup) /\ i # Len(toSup) + Len(r) + 1
    <3>1. i - Len(toSup) \in 1 .. Len(r) /\ i = Len(toSup) + (i - Len(toSup))
      BY <1>2, <2>3
    <3> QED
      BY <1>1, <1>2, <3>1 DEF Last
  <2> QED
    BY <2>1, <2>2, <2>3
<1>4. StartingInv'
  BY <1>2, <1>3 DEF WireInv, StartingInv, NothingHeard, OnlyFirst, Last
<1>5. ReloadInv'
  <2>1. Reloading' <=> Reloading
    BY DEF Reloading
  <2> QED
    BY <1>2, <1>3, <2>1 DEF WireInv, ReloadInv, Last
<1>6. AwaitInv'
  <2>1. Len(toWorker') = 0
    BY <1>2
  <2>2. \A i \in 1 .. Len(toSup') : toSup'[i].kind = "result" =>
           i \in 1 .. Len(toSup) /\ toSup'[i] = toSup[i]
    BY <1>3 DEF Last
  <2> QED
    BY <1>2, <2>1, <2>2 DEF WireInv, AwaitInv
<1>7. CalmInv'
  BY <1>2 DEF WireInv, CalmInv
<1> QED
  BY <1>2, <1>4, <1>5, <1>6, <1>7 DEF WireInv

\* What is on the wire when the worker answers its first message with rep.
LEMMA SaysShape ==
    ASSUME ServiceTypeOK, WireInv, toWorker # <<>>, ~WorkerGone, NEW rep \in Reports, Says(rep),
           worker'.exit = worker.exit, ~Last(rep)
    PROVE  /\ Alive /\ Alive' /\ ~WorkerGone' /\ Len(toSup) \in Nat /\ Len(toWorker) \in Nat \ {0}
           /\ Len(toSup') = Len(toSup) + 1 /\ Len(toWorker') = Len(toWorker) - 1 /\ Len(toWorker') \in Nat
           /\ \A i \in 1 .. Len(toSup) : toSup'[i] = toSup[i]
           /\ toSup'[Len(toSup) + 1] = rep
           /\ \A i \in 1 .. Len(toWorker') : i + 1 \in 1 .. Len(toWorker) /\ toWorker'[i] = toWorker[i + 1]
           /\ Head(toWorker) = toWorker[1] /\ toWorker[1] \in Message /\ 1 \in 1 .. Len(toWorker)
           /\ InTransit' = InTransit /\ InTransit \in Nat
           /\ \A i \in 1 .. Len(toSup') : ~Last(toSup'[i])
<1>1. toSup' = Append(toSup, rep) /\ toWorker' = Tail(toWorker)
  BY DEF Says
<1>2. /\ Len(toSup) \in Nat /\ Len(toSup') = Len(toSup) + 1
      /\ \A i \in 1 .. Len(toSup) : toSup'[i] = toSup[i]
      /\ toSup'[Len(toSup) + 1] = rep
  BY <1>1, AppendFacts, LenFacts DEF ServiceTypeOK
<1>3. /\ Len(toWorker) \in Nat \ {0} /\ Len(toWorker') = Len(toWorker) - 1
      /\ \A i \in 1 .. Len(toWorker) - 1 : toWorker'[i] = toWorker[i + 1]
      /\ Head(toWorker) = toWorker[1] /\ toWorker[1] \in Message
  BY <1>1, TailFacts DEF ServiceTypeOK
<1>4. Len(toWorker') \in Nat /\ 1 \in 1 .. Len(toWorker)
      /\ \A i \in 1 .. Len(toWorker') : i + 1 \in 1 .. Len(toWorker) /\ toWorker'[i] = toWorker[i + 1]
  BY <1>3
<1>5. Alive /\ Alive' /\ ~WorkerGone'
  BY DEF Alive, WorkerGone
<1>6. InTransit' = InTransit /\ InTransit \in Nat
  BY <1>2, <1>3 DEF InTransit
<1>7. \A i \in 1 .. Len(toSup') : ~Last(toSup'[i])
  <2> TAKE i \in 1 .. Len(toSup')
  <2>1. CASE i = Len(toSup) + 1
    BY <1>2, <2>1
  <2>2. CASE i # Len(toSup) + 1
    <3>1. i \in 1 .. Len(toSup)
      BY <1>2, <2>2
    <3> QED
      BY <1>2, <1>5, <3>1 DEF WireInv, Last
  <2> QED
    BY <2>1, <2>2
<1> QED
  BY <1>2, <1>3, <1>4, <1>5, <1>6, <1>7

LEMMA WirePrepares ==
    ASSUME ServiceTypeOK, WireInv, WorkerPrepares
    PROVE  WireInv'
<1>0. UNCHANGED <<sup, recorded, reqno, unsure>> /\ worker.phase = "new" /\ toWorker # <<>> /\ ~WorkerGone
  BY DEF WorkerPrepares, Hears, supVars
<1>1. CASE Exit("error", <<Fatal>>)
  BY <1>0, <1>1, ExitWire
<1>2. CASE /\ worker' = [worker EXCEPT !.phase = "prepared", !.digest = Head(toWorker).config]
           /\ Says(Report("prepared", 0, None, TRUE))
  <2> DEFINE rep == Report("prepared", 0, None, TRUE)
  <2>1. rep \in Reports /\ ~Last(rep) /\ rep.kind = "prepared"
    BY DEF Report, Reports, Last
  <2>2. /\ worker'.phase = "prepared" /\ worker'.digest = Head(toWorker).config
        /\ worker'.exit = worker.exit
    BY <1>2 DEF ServiceTypeOK
  <2> HIDE DEF rep
  <2>3. /\ Alive /\ Alive' /\ ~WorkerGone' /\ Len(toSup) \in Nat /\ Len(toWorker) \in Nat \ {0}
        /\ Len(toSup') = Len(toSup) + 1 /\ Len(toWorker') = Len(toWorker) - 1
        /\ toSup'[Len(toSup) + 1] = rep /\ Head(toWorker) = toWorker[1]
        /\ \A i \in 1 .. Len(toSup') : ~Last(toSup'[i])
    BY <1>0, <1>2, <2>1, <2>2, SaysShape DEF rep
  <2>4. sup.pc \notin {"start", "install", "commit", "awaitRunning"} /\ ~Reloading
    BY <1>0, <2>3, LenFacts DEF WireInv, StartingInv, ReloadInv
  <2>5. CASE sup.pc = "awaitPrepared"
    <3>1. /\ Len(toWorker) = 1 /\ toSup = <<>> /\ toWorker[1].config = recorded
      BY <1>0, <2>3, <2>5 DEF WireInv, StartingInv
    <3>2. Len(toSup) = 0
      BY <3>1
    <3>3. Len(toWorker') = 0 /\ Len(toSup') = 1 /\ toSup'[1] = rep /\ worker'.digest = recorded
      BY <2>2, <2>3, <3>1, <3>2
    <3>4. toWorker' = <<>>
      BY <1>0, <1>2, <3>3, TailFacts, LenFacts DEF Says, ServiceTypeOK
    <3>5. OnlyFirst("prepared")'
      BY <2>1, <3>3 DEF OnlyFirst
    <3>6. StartingInv'
      BY <1>0, <2>2, <2>5, <3>3, <3>4, <3>5 DEF WireInv, StartingInv, Starting
    <3>7. CalmInv' /\ AwaitInv' /\ ReloadInv'
      BY <1>0, <2>5 DEF CalmInv, AwaitInv, ReloadInv, Reloading, Serving
    <3> QED
      BY <1>0, <2>3, <3>6, <3>7 DEF WireInv, Last
  <2>6. CASE sup.pc # "awaitPrepared"
    <3>1. sup'.pc \notin Starting /\ ~Reloading'
      BY <1>0, <2>4, <2>6 DEF Starting, Reloading
    <3> QED
      BY <1>0, <2>3, <3>1, WireOut DEF WireInv
  <2> QED
    BY <2>5, <2>6
<1> QED
  BY <1>1, <1>2 DEF WorkerPrepares

LEMMA WireCommits ==
    ASSUME ServiceTypeOK, WireInv, WorkerCommits
    PROVE  WireInv'
<1>0. UNCHANGED <<sup, recorded, reqno, unsure>> /\ worker.phase = "prepared" /\ toWorker # <<>> /\ ~WorkerGone
  BY DEF WorkerCommits, Hears, supVars
<1>1. CASE Exit("error", <<Fatal>>)
  BY <1>0, <1>1, ExitWire
<1>2. CASE /\ worker' = [worker EXCEPT !.phase = "running"]
           /\ Says(Report("running", 0, worker.digest, TRUE))
  <2> DEFINE rep == Report("running", 0, worker.digest, TRUE)
  <2>1. rep \in Reports /\ ~Last(rep) /\ rep.kind = "running"
    BY DEF Report, Reports, Last, ServiceTypeOK
  <2>2. worker'.phase = "running" /\ worker'.digest = worker.digest /\ worker'.exit = worker.exit
    BY <1>2 DEF ServiceTypeOK
  <2> HIDE DEF rep
  <2>3. /\ Alive /\ Alive' /\ ~WorkerGone' /\ Len(toSup) \in Nat /\ Len(toWorker) \in Nat \ {0}
        /\ Len(toSup') = Len(toSup) + 1 /\ Len(toWorker') = Len(toWorker) - 1
        /\ toSup'[Len(toSup) + 1] = rep
        /\ \A i \in 1 .. Len(toSup') : ~Last(toSup'[i])
    BY <1>0, <1>2, <2>1, <2>2, SaysShape DEF rep
  <2>4. sup.pc \notin {"start", "awaitPrepared", "install", "commit"} /\ ~Reloading
    BY <1>0, <2>3, LenFacts DEF WireInv, StartingInv, ReloadInv
  <2>5. CASE sup.pc = "awaitRunning"
    <3>1. Len(toWorker) = 1 /\ toSup = <<>> /\ worker.digest = recorded
      BY <1>0, <2>3, <2>5 DEF WireInv, StartingInv
    <3>2. Len(toSup) = 0
      BY <3>1
    <3>3. Len(toWorker') = 0 /\ Len(toSup') = 1 /\ toSup'[1] = rep
      BY <2>3, <3>1, <3>2
    <3>4. toWorker' = <<>>
      BY <1>0, <1>2, <3>3, TailFacts, LenFacts DEF Says, ServiceTypeOK
    <3>5. OnlyFirst("running")'
      BY <2>1, <3>3 DEF OnlyFirst
    <3>6. StartingInv'
      BY <1>0, <2>2, <2>5, <3>1, <3>3, <3>4, <3>5 DEF WireInv, StartingInv, Starting
    <3>7. CalmInv' /\ AwaitInv' /\ ReloadInv'
      BY <1>0, <2>5 DEF CalmInv, AwaitInv, ReloadInv, Reloading, Serving
    <3> QED
      BY <1>0, <2>3, <3>6, <3>7 DEF WireInv, Last
  <2>6. CASE sup.pc # "awaitRunning"
    <3>1. sup'.pc \notin Starting /\ ~Reloading'
      BY <1>0, <2>4, <2>6 DEF Starting, Reloading
    <3> QED
      BY <1>0, <2>3, <3>1, WireOut DEF WireInv
  <2> QED
    BY <2>5, <2>6
<1> QED
  BY <1>1, <1>2 DEF WorkerCommits

\* The worker answers the oldest reload on the wire.
LEMMA WireReloads ==
    ASSUME ServiceTypeOK, WireInv, WorkerReloads
    PROVE  WireInv'
<1>0. UNCHANGED <<sup, recorded, reqno, unsure>> /\ worker.phase = "running" /\ toWorker # <<>> /\ ~WorkerGone
      /\ reqno \in Nat
  BY DEF WorkerReloads, Hears, supVars, ServiceTypeOK
<1> DEFINE m == Head(toWorker)
<1>1. PICK ok \in BOOLEAN :
        /\ Says(Report("result", m.id, IF ok THEN m.config ELSE None, ok))
        /\ worker'.digest = IF ok THEN m.config ELSE worker.digest
        /\ worker'.phase = worker.phase /\ worker'.exit = worker.exit
  BY DEF WorkerReloads, ServiceTypeOK
<1> DEFINE rep == Report("result", m.id, IF ok THEN m.config ELSE None, ok)
<1>2. m \in Message
  BY <1>0, TailFacts DEF ServiceTypeOK
<1>3. /\ rep \in Reports /\ ~Last(rep) /\ rep.kind = "result" /\ rep.id = m.id /\ rep.ok = ok
      /\ ok => rep.config = m.config
  <2>1. m.id \in Nat /\ m.config \in Configs \cup {None}
    BY <1>2 DEF Message
  <2> HIDE DEF m
  <2> QED
    BY <2>1 DEF Report, Reports, Last
<1>4. Says(rep)
  BY <1>1
<1> HIDE DEF rep
<1>5. /\ Alive /\ Alive' /\ ~WorkerGone' /\ Len(toSup) \in Nat /\ Len(toWorker) \in Nat \ {0}
      /\ Len(toSup') = Len(toSup) + 1 /\ Len(toWorker') = Len(toWorker) - 1 /\ Len(toWorker') \in Nat
      /\ \A i \in 1 .. Len(toSup) : toSup'[i] = toSup[i]
      /\ toSup'[Len(toSup) + 1] = rep
      /\ \A i \in 1 .. Len(toWorker') : i + 1 \in 1 .. Len(toWorker) /\ toWorker'[i] = toWorker[i + 1]
      /\ m = toWorker[1] /\ 1 \in 1 .. Len(toWorker)
      /\ InTransit' = InTransit /\ InTransit \in Nat
      /\ \A i \in 1 .. Len(toSup') : ~Last(toSup'[i])
  BY <1>0, <1>1, <1>3, <1>4, SaysShape
<1> HIDE DEF m
<1>6. sup.pc \notin Starting
  BY <1>0, <1>5, LenFacts DEF WireInv, StartingInv, Starting
<1>7. StartingInv'
  BY <1>0, <1>6 DEF StartingInv, Starting
<1>8. Reloading' <=> Reloading
  BY <1>0 DEF Reloading
<1>9. CASE ~Reloading
  BY <1>0, <1>5, <1>6, <1>8, <1>9, WireOut DEF WireInv
<1>10. CASE Reloading
  <2>1. /\ \A i \in 1 .. Len(toSup) : toSup[i].kind = "result" /\ toSup[i].id \in 1 .. reqno
        /\ \A i \in 1 .. Len(toWorker) :
             toWorker[i].kind = "reload" /\ toWorker[i].id = reqno - Len(toWorker) + i
        /\ \A i \in 1 .. Len(toSup) : toSup[i].id = reqno - InTransit + i
        /\ InTransit <= reqno
    BY <1>5, <1>10 DEF WireInv, ReloadInv
  <2>2. m.id = reqno - Len(toWorker) + 1 /\ InTransit = Len(toWorker) + Len(toSup)
    BY <1>5, <2>1 DEF InTransit
  <2>3. m.id = reqno - InTransit + (Len(toSup) + 1) /\ m.id \in 1 .. reqno
    BY <1>0, <1>5, <2>1, <2>2
  <2>4. \A i \in 1 .. Len(toSup') : /\ toSup'[i].kind = "result" /\ toSup'[i].id \in 1 .. reqno
                                    /\ toSup'[i].id = reqno - InTransit + i
    <3> TAKE i \in 1 .. Len(toSup')
    <3>1. CASE i = Len(toSup) + 1
      BY <1>3, <1>5, <2>3, <3>1
    <3>2. CASE i # Len(toSup) + 1
      <4>1. i \in 1 .. Len(toSup)
        BY <1>5, <3>2
      <4> QED
        BY <1>5, <2>1, <4>1
    <3> QED
      BY <3>1, <3>2
  <2>5. \A i \in 1 .. Len(toWorker') :
          /\ toWorker'[i].kind = "reload" /\ toWorker'[i].id = reqno - Len(toWorker') + i
          /\ i + 1 \in 1 .. Len(toWorker) /\ toWorker'[i] = toWorker[i + 1]
    <3> TAKE i \in 1 .. Len(toWorker')
    <3>1. toWorker[i + 1].kind = "reload" /\ toWorker[i + 1].id = reqno - Len(toWorker) + (i + 1)
      BY <1>5, <2>1
    <3> QED
      BY <1>0, <1>5, <3>1
  <2>6. ReloadInv'
    BY <1>0, <1>1, <1>5, <2>1, <2>4, <2>5 DEF ReloadInv, Last
  <2>7. ASSUME sup.pc \in {"loop", "load", "push", "reply", "persist"} PROVE unsure
    <3>1. InTransit # 0
      BY <1>5, <2>2
    <3> QED
      BY <1>5, <2>7, <3>1 DEF WireInv, CalmInv
  <2>8. CalmInv'
    BY <1>0, <1>5, <2>7 DEF WireInv, CalmInv
  <2>9. AwaitInv'
    <3> SUFFICES ASSUME sup.pc = "await" PROVE AwaitInv'
      BY <1>0 DEF AwaitInv
    <3>0. /\ \A i \in 1 .. Len(toWorker) : toWorker[i].id = reqno => toWorker[i].config = sup.next
          /\ ~unsure => InTransit = 1 /\ worker.digest = recorded
      BY <1>0, <1>5 DEF WireInv, AwaitInv
    <3>1. ASSUME NEW i \in 1 .. Len(toSup'), toSup'[i].id = reqno
          PROVE  /\ toSup'[i].ok => toSup'[i].config = sup.next
                 /\ toSup'[i].ok => worker'.digest = sup.next
                 /\ ~toSup'[i].ok /\ ~unsure => worker'.digest = recorded
      <4>1. i = Len(toSup) + 1
        BY <1>0, <1>5, <2>2, <2>4, <3>1
      <4>2. m.id = reqno /\ m.config = sup.next
        BY <1>3, <1>5, <3>0, <3>1, <4>1
      <4> QED
        BY <1>1, <1>3, <1>5, <3>0, <4>1, <4>2
    <3>2. \A i \in 1 .. Len(toWorker') : toWorker'[i].id = reqno => toWorker'[i].config = sup.next
      BY <2>5, <3>0
    <3>3. ~unsure => InTransit' = 1 /\ toWorker' = <<>>
      <4>1. SUFFICES ASSUME ~unsure PROVE InTransit' = 1 /\ toWorker' = <<>>
        OBVIOUS
      <4>2. InTransit' = 1 /\ Len(toWorker') = 0
        BY <1>5, <2>2, <3>0, <4>1
      <4> QED
        BY <1>0, <1>4, <4>2, TailFacts, LenFacts DEF Says, ServiceTypeOK
    <3> QED
      BY <1>0, <1>5, <3>1, <3>2, <3>3 DEF AwaitInv
  <2> QED
    BY <1>0, <1>5, <1>7, <2>6, <2>8, <2>9 DEF WireInv, Last
<1> QED
  BY <1>9, <1>10

----------------------------------------------------------------------------
(* The end of the service *)

Ending == {"awaitStop", "reap", "stopped"}
NoShutdown == \A i \in 1 .. Len(toWorker) : toWorker[i].kind # "shutdown"

\* What the clean-up has collected so far is kept, or a failed call is added to it.
FailuresKept ==
    /\ sup'.late = sup.late
    /\ \/ sup'.failed = sup.failed /\ sup'.broken = sup.broken
       \/ sup'.failed /\ sup'.broken

\* A step of a supervisor that is not asking the worker to stop.
LEMMA StopCalm ==
    ASSUME StopInv, sup.pc \notin Ending, sup'.pc \notin Ending \cup {"stop"},
           FailuresKept, UNCHANGED worker,
           Alive => NoShutdown'
    PROVE  StopInv'
<1>1. Alive' <=> Alive
  BY DEF Alive
<1> QED
  BY <1>1 DEF StopInv, Ending, NoShutdown, FailuresKept

LEMMA StopAside ==
    ASSUME StopInv, UNCHANGED <<sup, captured, reqno, toWorker, toSup, worker>>
    PROVE  StopInv'
BY DEF StopInv, Alive, Last

LEMMA SendsNoShutdown ==
    ASSUME ServiceTypeOK, NEW kind \in {"bootstrap", "commit", "reload"}, NEW id \in Nat,
           NEW c \in Configs \cup {None}, Send(kind, id, c), NoShutdown
    PROVE  NoShutdown'
<1> DEFINE m == [kind |-> kind, id |-> id, config |-> c]
<1>1. m \in Message /\ m.kind = kind
  BY DEF Message
<1>2. toWorker' = Append(toWorker, m)
  BY DEF Send
<1> HIDE DEF m
<1>3. /\ Len(toWorker') = Len(toWorker) + 1 /\ toWorker'[Len(toWorker) + 1] = m
      /\ \A i \in 1 .. Len(toWorker) : toWorker'[i] = toWorker[i]
      /\ Len(toWorker) \in Nat
  BY <1>1, <1>2, AppendFacts, LenFacts DEF ServiceTypeOK
<1>4. ASSUME NEW i \in 1 .. Len(toWorker') PROVE toWorker'[i].kind # "shutdown"
  <2>1. CASE i = Len(toWorker) + 1
    BY <1>1, <1>3, <2>1
  <2>2. CASE i # Len(toWorker) + 1
    <3>1. i \in 1 .. Len(toWorker)
      BY <1>3, <2>2
    <3> QED
      BY <1>3, <3>1 DEF NoShutdown
  <2> QED
    BY <2>1, <2>2
<1> QED
  BY <1>4 DEF NoShutdown

\* The supervisor's steps before the clean-up of host and worker.
LEMMA StopServing ==
    ASSUME ServiceTypeOK, WireInv, StopInv,
           \/ Bootstrap \/ AwaitPrepared \/ Install \/ Commit \/ AwaitRunning \/ SeeWorkerExit
           \/ LoadConfig \/ PushReload \/ AwaitResult \/ PersistDigest \/ Reply \/ CloseServer
           \/ TakeSignal \/ Tick \/ Stop \/ \E i \in Ids : TakeRequest(i)
    PROVE  StopInv'
<1>0. sup \in Supervisor /\ UNCHANGED worker
  BY DEF ServiceTypeOK, Bootstrap, AwaitPrepared, Install, Commit, AwaitRunning, SeeWorkerExit,
         LoadConfig, PushReload, AwaitResult, PersistDigest, Reply, CloseServer,
         TakeSignal, Tick, Stop, TakeRequest, linkVars
<1>1. /\ sup.pc \notin Ending /\ sup'.pc \notin Ending \cup {"stop"}
      /\ FailuresKept
  <2> DEFINE Goal == /\ sup.pc \notin Ending /\ sup'.pc \notin Ending \cup {"stop"}
                     /\ FailuresKept
  <2>1. CASE Bootstrap \/ AwaitPrepared \/ Install \/ Commit \/ Stop
    BY <2>1, GoSupFields DEF Bootstrap, AwaitPrepared, Install, Commit, Stop, Ending, FailuresKept
  <2>11. CASE CloseServer
    BY <2>11, GoSupFields, BreaksFields, SupTyped DEF CloseServer, Ending, FailuresKept
  <2>a. ASSUME NEW pc, NEW running, sup' = [sup EXCEPT !.pc = pc, !.running = running]
        PROVE  sup'.pc = pc /\ FailuresKept
    BY <1>0, <2>a DEF Supervisor, FailuresKept
  <2>2. CASE AwaitRunning
    <3>1. PICK pc \in {"loop", "close"} : \/ GoSup("close")
                                          \/ sup' = [sup EXCEPT !.pc = pc, !.running = TRUE]
      BY <2>2 DEF AwaitRunning
    <3>2. sup'.pc \in {"loop", "close"} /\ FailuresKept
      BY <2>a, <3>1, GoSupFields DEF FailuresKept
    <3> QED
      BY <2>2, <3>2 DEF AwaitRunning, Ending
  <2>3. CASE SeeWorkerExit
    BY <2>a, <2>3 DEF SeeWorkerExit, Ending
  <2>8. CASE TakeSignal
    BY <1>0, <2>8 DEF TakeSignal, Supervisor, Ending, FailuresKept
  <2>9. CASE Tick
    <3>1. CASE GoSup("close")
      BY <2>9, <3>1, GoSupFields DEF Tick, Ending, FailuresKept
    <3>2. CASE sup' = [sup EXCEPT !.pc = "push", !.source = "tick", !.next = recorded]
      BY <1>0, <2>9, <3>2 DEF Tick, Supervisor, Ending, FailuresKept
    <3> QED
      BY <2>9, <3>1, <3>2 DEF Tick
  <2>10. ASSUME NEW i \in Ids, TakeRequest(i) PROVE Goal
    BY <1>0, <2>10 DEF TakeRequest, Supervisor, Ending, FailuresKept
  <2>4. CASE LoadConfig
    BY <1>0, <2>4, AnswerFields DEF LoadConfig, Supervisor, Ending, FailuresKept
  <2>5. CASE PushReload \/ PersistDigest
    BY <2>5, AnswerFields, GoSupFields DEF PushReload, PersistDigest, Ending, FailuresKept
  <2>6. CASE AwaitResult
    BY <2>6, AnswerFields, GoSupFields DEF AwaitResult, Accepted, Ending, FailuresKept
  <2>7. CASE Reply
    <3>1. CASE GoSup("close")
      BY <2>7, <3>1, GoSupFields DEF Reply, Ending, FailuresKept
    <3>2. CASE BackToLoop
      BY <1>0, <2>7, <3>2 DEF Reply, BackToLoop, Supervisor, Ending, FailuresKept
    <3> QED
      BY <2>7, <3>1, <3>2 DEF Reply
  <2> QED
    BY <2>1, <2>2, <2>3, <2>4, <2>5, <2>6, <2>7, <2>8, <2>9, <2>10, <2>11
<1>2. Alive => NoShutdown
  BY <1>1 DEF StopInv, NoShutdown, Ending
<1>3. Alive => NoShutdown'
  <2>1. CASE UNCHANGED toWorker
    BY <1>2, <2>1 DEF NoShutdown
  <2>2. CASE Send("bootstrap", 0, recorded) \/ Send("commit", 0, recorded)
    BY <1>2, <2>2, SendsNoShutdown DEF ServiceTypeOK
  <2>3. CASE PushReload /\ Send("reload", reqno + 1, sup.next)
    <3>1. reqno + 1 \in Nat /\ sup.next \in Configs
      BY <2>3 DEF ServiceTypeOK, PushReload, WireInv, CalmInv
    <3> QED
      BY <1>2, <2>3, <3>1, SendsNoShutdown
  <2> QED
    BY <2>1, <2>2, <2>3
       DEF Bootstrap, AwaitPrepared, Install, Commit, AwaitRunning, SeeWorkerExit,
           LoadConfig, PushReload, AwaitResult, PersistDigest, Reply, CloseServer,
           TakeSignal, Tick, Stop, TakeRequest, linkVars
<1> QED
  BY <1>0, <1>1, <1>3, StopCalm

\* Requests are drained, the host is restored, deadlines pass, the process is reaped.
LEMMA StopFinish ==
    ASSUME ServiceTypeOK, StopInv, Drain \/ RestoreHost \/ CleanupExpires \/ Reap
    PROVE  StopInv'
<1>0. sup \in Supervisor /\ UNCHANGED <<reqno, toWorker, toSup, worker>>
  BY DEF ServiceTypeOK, Drain, RestoreHost, CleanupExpires, Reap, linkVars
<1>a. (Alive' <=> Alive) /\ (WorkerGone <=> ~Alive)
  BY <1>0 DEF Alive, WorkerGone
<1>1. CASE Drain
  <2>1. /\ sup.pc = "drain" /\ sup'.pc = "restore" /\ sup'.late = sup.late
        /\ sup'.failed => sup.failed \/ sup.late \/ sup'.broken
        /\ sup.broken => sup'.broken
        /\ sup'.broken => sup.broken \/ sup'.failed
        /\ sup.failed => sup'.failed
    BY <1>0, <1>1 DEF Drain, Breaks, GoSup, Supervisor
  <2> QED
    BY <1>0, <1>a, <2>1 DEF StopInv
<1>2. CASE RestoreHost
  <2>1. /\ sup.pc = "restore" /\ sup'.pc = "stop" /\ sup'.late = sup.late
        /\ sup'.failed => sup.failed \/ sup.late \/ sup'.broken
        /\ sup.broken => sup'.broken
        /\ sup'.broken => sup.broken \/ sup'.failed
        /\ sup.failed => sup'.failed
        /\ captured' => sup'.failed
    BY <1>0, <1>2 DEF RestoreHost, Breaks, GoSup, Supervisor
  <2> QED
    BY <1>0, <1>a, <2>1 DEF StopInv
<1>3. CASE CleanupExpires
  <2>1. /\ sup'.pc = sup.pc /\ sup'.late /\ sup'.failed = sup.failed /\ sup'.broken = sup.broken
        /\ sup'.running = sup.running
        /\ UNCHANGED captured
    BY <1>0, <1>3 DEF CleanupExpires, Supervisor
  <2> QED
    BY <1>0, <1>a, <2>1 DEF StopInv, Last
<1>4. CASE Reap
  <2>1. /\ sup.pc = "reap" /\ sup'.pc = "stopped" /\ sup'.late = sup.late /\ UNCHANGED captured
        /\ sup.failed => sup'.failed
        /\ sup'.failed => sup.failed \/ sup.late \/ sup'.broken \/ worker.exit = "error"
        /\ sup.broken => sup'.broken
        /\ sup'.broken => sup.broken \/ sup'.failed
    BY <1>0, <1>4 DEF Reap, Breaks, Supervisor
  <2> QED
    BY <1>0, <1>a, <2>1 DEF StopInv
<1> QED
  BY <1>1, <1>2, <1>3, <1>4

\* Where Kill leaves the worker.
LEMMA KillExit ==
    ASSUME ServiceTypeOK, Kill
    PROVE  ~Alive' /\ (Alive => worker'.exit = "error") /\ (~Alive => UNCHANGED <<worker, toSup, toWorker>>)
BY DEF ServiceTypeOK, Kill, WorkerGone, Alive, linkVars

LEMMA StopAsk ==
    ASSUME ServiceTypeOK, WireInv, StopInv, StopWorker
    PROVE  StopInv'
<1>0. sup \in Supervisor /\ UNCHANGED captured /\ sup.pc = "stop" /\ reqno \in Nat
      /\ worker.exit # "clean" /\ (WorkerGone <=> ~Alive)
  BY DEF ServiceTypeOK, StopWorker, StopInv, Alive, WorkerGone
<1>1. CASE ~sup.running
  <2>1. sup'.pc = "reap" /\ sup'.late = sup.late /\ sup'.failed = sup.failed /\ sup'.broken = sup.broken
    BY <1>1, GoSupFields DEF StopWorker
  <2>2. ~Alive' /\ worker'.exit # "clean"
    BY <1>0, <1>1, KillExit DEF StopWorker
  <2> QED
    BY <1>0, <2>1, <2>2 DEF StopInv, Alive
<1>2. CASE sup.running /\ WorkerGone
  <2>1. sup'.pc = "reap" /\ sup'.failed /\ UNCHANGED worker
    BY <1>0, <1>2 DEF StopWorker, Supervisor, linkVars
  <2> QED
    BY <1>0, <1>2, <2>1 DEF StopInv, Alive
<1>3. CASE sup.running /\ ~WorkerGone
  <2> DEFINE m == [kind |-> "shutdown", id |-> reqno + 1, config |-> None]
  <2>0. Alive /\ Alive' /\ UNCHANGED <<toSup, worker>> /\ reqno' = reqno + 1
    BY <1>0, <1>3 DEF StopWorker, Alive
  <2>1. /\ sup'.pc = "awaitStop" /\ sup'.late = sup.late /\ sup'.failed = sup.failed /\ sup'.running
        /\ sup'.broken = sup.broken
    BY <1>3, GoSupFields DEF StopWorker
  <2>2. toWorker' = Append(toWorker, m) /\ m \in Message /\ m.kind = "shutdown" /\ m.id = reqno + 1
    BY <1>0, <1>3 DEF StopWorker, Send, Message
  <2> HIDE DEF m
  <2>3. /\ Len(toWorker') = Len(toWorker) + 1 /\ toWorker'[Len(toWorker) + 1] = m
        /\ \A i \in 1 .. Len(toWorker) : toWorker'[i] = toWorker[i]
        /\ Len(toWorker) \in Nat /\ Len(toSup) \in Nat
    BY <2>2, AppendFacts, LenFacts DEF ServiceTypeOK
  <2>4. Reloading
    BY <1>0, <1>3 DEF Reloading
  <2>5. /\ \A i \in 1 .. Len(toSup) : toSup[i].kind = "result" /\ toSup[i].id \in 1 .. reqno
        /\ \A i \in 1 .. Len(toWorker) :
             toWorker[i].kind = "reload" /\ toWorker[i].id = reqno - Len(toWorker) + i
        /\ InTransit <= reqno
    BY <2>0, <2>4 DEF WireInv, ReloadInv
  <2>6. \A i \in 1 .. Len(toWorker') :
          \/ toWorker'[i].kind = "shutdown" /\ toWorker'[i].id = reqno'
          \/ toWorker'[i].kind = "reload" /\ toWorker'[i].id \in 1 .. reqno' - 1
    <3> TAKE i \in 1 .. Len(toWorker')
    <3>1. CASE i = Len(toWorker) + 1
      BY <2>0, <2>2, <2>3, <3>1
    <3>2. CASE i # Len(toWorker) + 1
      <4>1. i \in 1 .. Len(toWorker)
        BY <2>3, <3>2
      <4>2. toWorker[i].id \in 1 .. reqno
        BY <1>0, <2>3, <2>5, <4>1 DEF InTransit
      <4> QED
        BY <1>0, <2>0, <2>3, <2>5, <4>1, <4>2
    <3> QED
      BY <3>1, <3>2
  <2>7. \A i \in 1 .. Len(toSup') : toSup'[i].kind = "result" /\ toSup'[i].id \in 1 .. reqno' - 1
    BY <1>0, <2>0, <2>5
  <2> QED
    BY <1>0, <2>0, <2>1, <2>6, <2>7 DEF StopInv, Alive
<1> QED
  BY <1>1, <1>2, <1>3

\* A worker that acknowledged and left is never taken for one that failed.
LEMMA StopAnswered ==
    ASSUME ServiceTypeOK, WireInv, StopInv, AwaitStopped
    PROVE  StopInv'
<1>0. /\ sup \in Supervisor /\ UNCHANGED <<captured, reqno>> /\ sup.pc = "awaitStop" /\ reqno \in Nat
      /\ WorkerGone <=> ~Alive
      /\ sup.running
      /\ sup.failed => sup.late \/ sup.broken
      /\ sup.broken => sup.failed
      /\ captured => sup.failed
  BY DEF ServiceTypeOK, AwaitStopped, StopInv, Alive, WorkerGone
<1>r. ASSUME sup'.pc = "reap", sup.failed => sup'.failed, sup'.late = sup.late, sup'.broken = sup.broken,
             sup'.failed => sup'.late \/ sup'.broken \/ worker'.exit \notin {"none", "clean"}
      PROVE  StopInv'
  BY <1>0, <1>r DEF StopInv
<1>1. CASE /\ toSup # <<>>
           /\ IF StaleReloadResult(Head(toSup), reqno) THEN UNCHANGED sup
              ELSE sup' = [sup EXCEPT !.pc = "reap",
                             !.failed = @ \/ Head(toSup).kind # "stopped" \/ Head(toSup).id # reqno
                                          \/ ~Head(toSup).ok]
           /\ IF StaleReloadResult(Head(toSup), reqno)
                 \/ (Head(toSup).kind = "stopped" /\ Head(toSup).id = reqno /\ Head(toSup).ok)
                THEN toSup' = Tail(toSup) /\ UNCHANGED <<toWorker, worker>>
                ELSE Kill
  <2> DEFINE m == Head(toSup)
  <2>0. m = toSup[1] /\ Len(toSup) \in Nat \ {0} /\ m \in Reports
    BY <1>1, TailFacts DEF ServiceTypeOK
  <2>1. CASE StaleReloadResult(m, reqno)
    <3>1. UNCHANGED <<sup, toWorker, worker>> /\ toSup' = Tail(toSup) /\ m.kind = "result"
      BY <1>1, <2>1, Zenon DEF StaleReloadResult
    <3>2. /\ Len(toSup') = Len(toSup) - 1
          /\ \A i \in 1 .. Len(toSup') : i + 1 \in 1 .. Len(toSup) /\ toSup'[i] = toSup[i + 1]
      BY <1>1, <3>1, Taken
    <3>3. Alive' <=> Alive
      BY <3>1 DEF Alive
    <3>4. Alive => \A i \in 1 .. Len(toSup') : toSup'[i].kind = "result" /\ toSup'[i].id \in 1 .. reqno - 1
      <4>1. Alive => \A i \in 1 .. Len(toSup) : toSup[i].kind = "result" /\ toSup[i].id \in 1 .. reqno - 1
        BY <1>0 DEF StopInv
      <4> QED
        BY <3>2, <4>1
    <3>5. ASSUME worker.exit = "clean"
          PROVE  LET n == Len(toSup') IN
                 /\ n >= 2 /\ Last(toSup'[n])
                 /\ toSup'[n - 1].kind = "stopped" /\ toSup'[n - 1].id = reqno /\ toSup'[n - 1].ok
                 /\ \A i \in 1 .. n - 2 : toSup'[i].kind = "result" /\ toSup'[i].id \in 1 .. reqno - 1
      <4> DEFINE n == Len(toSup)
      <4>0. n \in Nat /\ Len(toSup') = n - 1
        BY <2>0, <3>2
      <4>1. /\ n >= 2 /\ Last(toSup[n])
            /\ toSup[n - 1].kind = "stopped" /\ toSup[n - 1].id = reqno /\ toSup[n - 1].ok
            /\ \A i \in 1 .. n - 2 : toSup[i].kind = "result" /\ toSup[i].id \in 1 .. reqno - 1
        BY <1>0, <3>5 DEF StopInv
      <4>2. n # 2
        BY <2>0, <3>1, <4>1
      <4>3. \A i \in 1 .. n - 1 : toSup'[i] = toSup[i + 1]
        BY <3>2, <4>0
      <4> HIDE DEF n
      <4>4. n - 1 \in 1 .. n - 1 /\ n - 2 \in 1 .. n - 1 /\ n - 1 >= 2 /\ (n - 1) + 1 = n /\ (n - 2) + 1 = n - 1
        BY <4>0, <4>1, <4>2
      <4>5. toSup'[n - 1] = toSup[n] /\ toSup'[n - 2] = toSup[n - 1]
        BY <4>3, <4>4
      <4>6. \A i \in 1 .. (n - 1) - 2 : i + 1 \in 1 .. n - 2 /\ toSup'[i] = toSup[i + 1]
        BY <4>0, <4>3
      <4>7. \A i \in 1 .. (n - 1) - 2 : toSup'[i].kind = "result" /\ toSup'[i].id \in 1 .. reqno - 1
        BY <4>1, <4>6
      <4>8. (n - 1) - 1 = n - 2
        BY <4>0
      <4> QED
        BY <4>0, <4>1, <4>4, <4>5, <4>7, <4>8 DEF Last
    <3> QED
      BY <1>0, <3>1, <3>3, <3>4, <3>5 DEF StopInv, Last
  <2>2. CASE ~StaleReloadResult(m, reqno)
    <3> DEFINE bad == m.kind # "stopped" \/ m.id # reqno \/ ~m.ok
    <3>1. sup'.pc = "reap" /\ sup'.late = sup.late /\ (sup.failed => sup'.failed) /\ sup'.broken = sup.broken
          /\ (sup'.failed => sup.failed \/ bad)
      BY <1>0, <1>1, <2>2 DEF Supervisor
    <3>2. ASSUME bad PROVE worker'.exit \notin {"none", "clean"}
      <4>1. Kill
        BY <1>1, <2>2, <3>2
      <4>2. worker.exit # "clean"
        <5> SUFFICES ASSUME worker.exit = "clean" PROVE FALSE
          OBVIOUS
        <5> DEFINE n == Len(toSup)
        <5>1. /\ n >= 2 /\ n \in Nat
              /\ toSup[n - 1].kind = "stopped" /\ toSup[n - 1].id = reqno /\ toSup[n - 1].ok
              /\ \A i \in 1 .. n - 2 : toSup[i].kind = "result" /\ toSup[i].id \in 1 .. reqno - 1
          BY <1>0, <2>0 DEF StopInv
        <5> HIDE DEF n
        <5>4. n >= 2 /\ n \in Nat
          BY <5>1
        <5>2. CASE n = 2
          <6>1. n - 1 = 1
            BY <5>2
          <6>2. m.kind = "stopped" /\ m.id = reqno /\ m.ok
            BY <2>0, <5>1, <6>1
          <6> QED
            BY <3>2, <6>2
        <5>3. CASE n # 2
          <6>1. 1 \in 1 .. n - 2
            BY <5>3, <5>4
          <6>2. m.kind = "result" /\ m.id \in 1 .. reqno - 1
            BY <2>0, <5>1, <6>1
          <6> QED
            BY <1>0, <2>2, <6>2 DEF StaleReloadResult
        <5> QED
          BY <5>2, <5>3
      <4> QED
        BY <4>1, <4>2, KillExit DEF Alive
    <3> QED
      BY <1>0, <1>r, <3>1, <3>2
  <2> QED
    BY <2>1, <2>2
<1>2. CASE /\ WorkerGone
           /\ sup' = [sup EXCEPT !.pc = "reap", !.failed = @ \/ worker.exit = "error"]
           /\ UNCHANGED linkVars
  <2>1. sup'.pc = "reap" /\ sup'.late = sup.late /\ (sup.failed => sup'.failed) /\ sup'.broken = sup.broken
        /\ (sup'.failed => sup.failed \/ worker'.exit = "error")
    BY <1>0, <1>2 DEF Supervisor, linkVars
  <2> QED
    BY <1>0, <1>r, <2>1
<1>3. CASE sup.late /\ sup' = [sup EXCEPT !.pc = "reap", !.failed = TRUE] /\ Kill
  <2>1. sup'.pc = "reap" /\ sup'.late = sup.late /\ sup'.failed /\ sup'.broken = sup.broken
    BY <1>0, <1>3 DEF Supervisor
  <2> QED
    BY <1>r, <1>3, <2>1
<1> QED
  BY <1>1, <1>2, <1>3 DEF AwaitStopped

LEMMA WorkerStopsGone ==
    ASSUME ServiceTypeOK, WorkerStops
    PROVE  toWorker' = <<>> /\ ~Alive'
BY DEF WorkerStops, Exit, ServiceTypeOK, Alive

LEMMA StopExit ==
    ASSUME ServiceTypeOK, StopInv, NEW how \in {"quiet", "error"}, NEW r \in Seq(Reports), Exit(how, r),
           UNCHANGED <<sup, captured, reqno>>
    PROVE  StopInv'
<1>1. ~Alive' /\ worker'.exit = how
  BY ExitShape
<1> QED
  BY <1>1 DEF StopInv

\* The worker acknowledges and leaves: the acknowledgement is the last thing it says.
LEMMA StopClean ==
    ASSUME ServiceTypeOK, WireInv, StopInv, WorkerStops
    PROVE  StopInv' /\ sup.pc \in Ending
<1> DEFINE m == Head(toWorker)
<1>0. /\ UNCHANGED <<sup, captured, reqno>> /\ toWorker # <<>> /\ m.kind = "shutdown" /\ Alive
      /\ \E ok \in BOOLEAN : Exit(IF ok THEN "clean" ELSE "error", <<Report("stopped", m.id, None, ok)>>)
  BY DEF WorkerStops, Hears, supVars, Alive, WorkerGone
<1>1. m = toWorker[1] /\ 1 \in 1 .. Len(toWorker) /\ m \in Message
  BY <1>0, TailFacts DEF ServiceTypeOK
<1>2. sup.pc \in Ending
  BY <1>0, <1>1 DEF StopInv, Ending
<1>3. PICK ok \in BOOLEAN : Exit(IF ok THEN "clean" ELSE "error", <<Report("stopped", m.id, None, ok)>>)
  BY <1>0
<1> DEFINE a == Report("stopped", m.id, None, ok)
<1>4. a \in Reports /\ a.kind = "stopped" /\ a.id = m.id /\ a.ok = ok
  <2>1. m.id \in Nat
    BY <1>1 DEF Message
  <2> HIDE DEF m
  <2> QED
    BY <2>1 DEF Report, Reports
<1> HIDE DEF a
<1>5. <<a>> \in Seq(Reports) /\ Len(<<a>>) = 1 /\ <<a>>[1] = a
  BY <1>4
<1>6. CASE ~ok
  <2>1. Exit("error", <<a>>)
    BY <1>3, <1>6 DEF a
  <2> QED
    BY <1>0, <1>2, <1>5, <2>1, StopExit
<1>7. CASE ok
  <2>1. Exit("clean", <<a>>)
    BY <1>3, <1>7 DEF a
  <2>2. /\ worker'.exit = "clean" /\ ~Alive' /\ Len(toSup) \in Nat
        /\ Len(toSup') = Len(toSup) + Len(<<a>>) + 1
        /\ \A i \in 1 .. Len(toSup) : toSup'[i] = toSup[i]
        /\ \A i \in 1 .. Len(<<a>>) : toSup'[Len(toSup) + i] = <<a>>[i]
        /\ toSup'[Len(toSup) + Len(<<a>>) + 1] = Eof
        /\ Eof.kind = "eof"
    BY <1>5, <2>1, ExitShape
  <2>3. /\ Len(toSup') = Len(toSup) + 2
        /\ toSup'[Len(toSup) + 1] = a /\ toSup'[Len(toSup) + 2].kind = "eof"
    BY <1>5, <2>2
  <2>4. ASSUME sup.pc = "awaitStop"
        PROVE  LET n == Len(toSup') IN
               /\ n >= 2 /\ Last(toSup'[n])
               /\ toSup'[n - 1].kind = "stopped" /\ toSup'[n - 1].id = reqno /\ toSup'[n - 1].ok
               /\ \A i \in 1 .. n - 2 : toSup'[i].kind = "result" /\ toSup'[i].id \in 1 .. reqno - 1
    <3>1. m.id = reqno
      BY <1>0, <1>1, <2>4 DEF StopInv
    <3>2. \A i \in 1 .. Len(toSup) : toSup[i].kind = "result" /\ toSup[i].id \in 1 .. reqno - 1
      BY <1>0, <2>4 DEF StopInv
    <3>3. /\ Len(toSup') >= 2 /\ Len(toSup') - 1 = Len(toSup) + 1 /\ Len(toSup') - 2 = Len(toSup)
      BY <2>2, <2>3
    <3>4. toSup'[Len(toSup') - 1] = a /\ toSup'[Len(toSup')].kind = "eof"
      BY <2>3, <3>3
    <3>5. a.kind = "stopped" /\ a.id = reqno /\ a.ok
      BY <1>4, <1>7, <3>1
    <3>6. \A i \in 1 .. Len(toSup') - 2 : toSup'[i].kind = "result" /\ toSup'[i].id \in 1 .. reqno - 1
      BY <2>2, <3>2, <3>3
    <3> QED
      BY <3>3, <3>4, <3>5, <3>6 DEF Last
  <2>5. sup.failed => sup.late \/ sup.broken
    BY <1>0, <2>2 DEF StopInv, Alive
  <2> QED
    BY <1>0, <1>2, <2>2, <2>4, <2>5 DEF StopInv, Ending, Last
<1> QED
  BY <1>6, <1>7

\* The worker answers anything but the shutdown.
LEMMA StopSays ==
    ASSUME ServiceTypeOK, WireInv, StopInv, toWorker # <<>>, ~WorkerGone, NEW rep \in Reports, Says(rep),
           worker'.exit = worker.exit, ~Last(rep), UNCHANGED <<sup, captured, reqno>>,
           \/ Head(toWorker).kind \in {"bootstrap", "commit"}
           \/ Head(toWorker).kind = "reload" /\ rep.kind = "result" /\ rep.id = Head(toWorker).id
    PROVE  StopInv'
<1>1. /\ Alive /\ Alive' /\ Len(toSup) \in Nat /\ Len(toWorker) \in Nat \ {0}
      /\ Len(toSup') = Len(toSup) + 1
      /\ \A i \in 1 .. Len(toSup) : toSup'[i] = toSup[i]
      /\ toSup'[Len(toSup) + 1] = rep
      /\ \A i \in 1 .. Len(toWorker') : i + 1 \in 1 .. Len(toWorker) /\ toWorker'[i] = toWorker[i + 1]
      /\ Head(toWorker) = toWorker[1] /\ 1 \in 1 .. Len(toWorker)
  BY SaysShape
<1>2. ASSUME sup.pc = "awaitStop"
      PROVE  /\ \A i \in 1 .. Len(toSup') : toSup'[i].kind = "result" /\ toSup'[i].id \in 1 .. reqno - 1
             /\ \A i \in 1 .. Len(toWorker') :
                  \/ toWorker'[i].kind = "shutdown" /\ toWorker'[i].id = reqno
                  \/ toWorker'[i].kind = "reload" /\ toWorker'[i].id \in 1 .. reqno - 1
  <2>1. rep.kind = "result" /\ rep.id \in 1 .. reqno - 1
    BY <1>1, <1>2 DEF StopInv
  <2>2. ASSUME NEW i \in 1 .. Len(toSup')
        PROVE  toSup'[i].kind = "result" /\ toSup'[i].id \in 1 .. reqno - 1
    <3>1. CASE i = Len(toSup) + 1
      BY <1>1, <2>1, <3>1
    <3>2. CASE i # Len(toSup) + 1
      <4>1. i \in 1 .. Len(toSup)
        BY <1>1, <3>2
      <4> QED
        BY <1>1, <1>2, <4>1 DEF StopInv
    <3> QED
      BY <3>1, <3>2
  <2>3. \A i \in 1 .. Len(toWorker') :
          \/ toWorker'[i].kind = "shutdown" /\ toWorker'[i].id = reqno
          \/ toWorker'[i].kind = "reload" /\ toWorker'[i].id \in 1 .. reqno - 1
    BY <1>1, <1>2 DEF StopInv
  <2> QED
    BY <2>2, <2>3
<1>3. sup.pc \notin Ending => \A i \in 1 .. Len(toWorker') : toWorker'[i].kind # "shutdown"
  BY <1>1 DEF StopInv, Ending
<1> QED
  BY <1>1, <1>2, <1>3 DEF StopInv, Ending, Alive

LEMMA StopWorkerStep ==
    ASSUME ServiceTypeOK, WireInv, StopInv, WorkerStep
    PROVE  StopInv'
<1>0. UNCHANGED <<sup, captured, reqno>>
  BY DEF WorkerStep, WorkerPrepares, WorkerCommits, WorkerReloads, WorkerStops, WorkerDies, supVars
<1>1. Fatal \in Reports /\ <<Fatal>> \in Seq(Reports) /\ <<>> \in Seq(Reports)
  BY DEF Fatal, Report, Reports
<1>2. CASE WorkerStops
  BY <1>2, StopClean
<1>3. CASE WorkerDies
  BY <1>0, <1>1, <1>3, StopExit DEF WorkerDies
<1>4. CASE WorkerPrepares
  <2>1. CASE Exit("error", <<Fatal>>)
    BY <1>0, <1>1, <2>1, StopExit
  <2>2. CASE /\ worker' = [worker EXCEPT !.phase = "prepared", !.digest = Head(toWorker).config]
             /\ Says(Report("prepared", 0, None, TRUE))
    <3>1. Report("prepared", 0, None, TRUE) \in Reports /\ ~Last(Report("prepared", 0, None, TRUE))
      BY DEF Report, Reports, Last
    <3>2. worker'.exit = worker.exit
      BY <2>2 DEF ServiceTypeOK
    <3> QED
      BY <1>0, <1>4, <2>2, <3>1, <3>2, StopSays DEF WorkerPrepares, Hears
  <2> QED
    BY <1>4, <2>1, <2>2 DEF WorkerPrepares
<1>5. CASE WorkerCommits
  <2>1. CASE Exit("error", <<Fatal>>)
    BY <1>0, <1>1, <2>1, StopExit
  <2>2. CASE /\ worker' = [worker EXCEPT !.phase = "running"]
             /\ Says(Report("running", 0, worker.digest, TRUE))
    <3>1. /\ Report("running", 0, worker.digest, TRUE) \in Reports
          /\ ~Last(Report("running", 0, worker.digest, TRUE))
      BY DEF Report, Reports, Last, ServiceTypeOK
    <3>2. worker'.exit = worker.exit
      BY <2>2 DEF ServiceTypeOK
    <3> QED
      BY <1>0, <1>5, <2>2, <3>1, <3>2, StopSays DEF WorkerCommits, Hears
  <2> QED
    BY <1>5, <2>1, <2>2 DEF WorkerCommits
<1>6. CASE WorkerReloads
  <2> DEFINE m == Head(toWorker)
  <2>0. toWorker # <<>> /\ m.kind = "reload" /\ ~WorkerGone /\ m \in Message
    BY <1>6, TailFacts DEF WorkerReloads, Hears, ServiceTypeOK
  <2>1. PICK ok \in BOOLEAN, c \in {m.config, None} : Says(Report("result", m.id, c, ok))
    BY <1>6 DEF WorkerReloads
  <2>2. worker'.exit = worker.exit
    BY <1>6 DEF WorkerReloads, ServiceTypeOK
  <2>3. m.id \in Nat /\ c \in Configs \cup {None}
    BY <2>0 DEF Message
  <2>4. /\ Report("result", m.id, c, ok) \in Reports /\ ~Last(Report("result", m.id, c, ok))
        /\ Report("result", m.id, c, ok).kind = "result" /\ Report("result", m.id, c, ok).id = m.id
    <3> HIDE DEF m
    <3> QED
      BY <2>3 DEF Report, Reports, Last
  <2> QED
    BY <1>0, <2>0, <2>1, <2>2, <2>4, StopSays
<1> QED
  BY <1>2, <1>3, <1>4, <1>5, <1>6 DEF WorkerStep

\* Every step keeps the two ends of the private protocol in step.
LEMMA WireStep ==
    ASSUME ServiceTypeOK, RequestInv, WireInv, StopInv, [ServiceNext]_vars
    PROVE  WireInv'
<1>1. CASE CliStep \/ (\E c \in Configs : BeginUpdate(c) \/ EditFile(c)) \/ BeginReload
           \/ Disconnect \/ KillCli \/ ActivateFails \/ RestoreFails \/ (\E i \in Ids : HandlerGivesUp(i))
           \/ UNCHANGED vars
  <2>1. UNCHANGED <<sup, toWorker, toSup, worker, recorded, reqno, unsure>>
    BY <1>1 DEF CliStep, Activate, RemoveFile, RestoreFile, ReceiveResponse, CliTimeout, ProcessReload,
         BeginUpdate, EditFile, BeginReload, Disconnect, KillCli, ActivateFails, RestoreFails,
         HandlerGivesUp, vars, supVars, linkVars
  <2> QED
    BY <2>1, WireAside
<1>2. CASE SupStep \/ TakeSignal \/ Tick \/ Stop \/ CleanupExpires
  BY <1>2, WireQuiet, WireBootstrap, WireAwaitPrepared, WireCommit, WireAwaitRunning, WirePush,
     WireAwaitResult, WirePersist, WireStop DEF SupStep
<1>3. CASE WorkerStops
  <2>1. sup.pc \in Ending /\ UNCHANGED sup
    BY <1>3, StopClean DEF WorkerStops, supVars
  <2>2. toWorker' = <<>> /\ ~Alive'
    BY <1>3, WorkerStopsGone
  <2> QED
    BY <2>1, <2>2, WireOut DEF WireInv, Ending, Starting, Reloading, Serving
<1>4. CASE WorkerDies
  <2>1. PICK how \in {"quiet", "error"}, r \in {<<>>, <<Fatal>>} : Exit(how, r)
    BY <1>4 DEF WorkerDies
  <2> QED
    BY <1>4, <2>1, ExitWire DEF WorkerDies, supVars
<1> QED
  BY <1>1, <1>2, <1>3, <1>4, WirePrepares, WireCommits, WireReloads
     DEF ServiceNext, CliStep, Operator, WorkerStep

LEMMA StopStep ==
    ASSUME ServiceTypeOK, WireInv, StopInv, [ServiceNext]_vars
    PROVE  StopInv'
<1>1. CASE CliStep \/ (\E c \in Configs : BeginUpdate(c) \/ EditFile(c)) \/ BeginReload
           \/ Disconnect \/ KillCli \/ ActivateFails \/ RestoreFails \/ (\E i \in Ids : HandlerGivesUp(i))
           \/ UNCHANGED vars
  <2>1. UNCHANGED <<sup, captured, reqno, toWorker, toSup, worker>>
    BY <1>1 DEF CliStep, Activate, RemoveFile, RestoreFile, ReceiveResponse, CliTimeout, ProcessReload,
         BeginUpdate, EditFile, BeginReload, Disconnect, KillCli, ActivateFails, RestoreFails,
         HandlerGivesUp, vars, supVars, linkVars
  <2> QED
    BY <2>1, StopAside
<1>2. CASE SupStep \/ TakeSignal \/ Tick \/ Stop \/ CleanupExpires
  BY <1>2, StopServing, StopFinish, StopAsk, StopAnswered DEF SupStep
<1>3. CASE WorkerStep
  BY <1>3, StopWorkerStep
<1> QED
  BY <1>1, <1>2, <1>3 DEF ServiceNext, CliStep, Operator

----------------------------------------------------------------------------
(* Confirmed configurations *)

LEMMA PromisedAside ==
    ASSUME NEW c, Promised(c), UNCHANGED <<file, recorded, sup, toWorker, worker>>
    PROVE  Promised(c)'
BY DEF Promised, Alive

\* A supervisor's step that puts nothing new on the wire.
LEMMA PromisedMove ==
    ASSUME NEW c, Promised(c), UNCHANGED <<file, toWorker, worker>>, recorded' = c,
           sup'.pc \in {"push", "await", "persist"} => sup'.next = c
    PROVE  Promised(c)'
BY DEF Promised, Alive

LEMMA PromisedSend ==
    ASSUME ServiceTypeOK, NEW c, Promised(c), UNCHANGED <<file, recorded, worker>>,
           NEW kind \in {"bootstrap", "commit", "reload", "shutdown"}, NEW id \in Nat,
           NEW d \in Configs \cup {None}, kind = "reload" => d = c, Send(kind, id, d),
           sup'.pc \in {"push", "await", "persist"} => sup'.next = c
    PROVE  Promised(c)'
<1> DEFINE m == [kind |-> kind, id |-> id, config |-> d]
<1>1. m \in Message /\ m.kind = kind /\ m.config = d
  BY DEF Message
<1>2. toWorker' = Append(toWorker, m)
  BY DEF Send
<1> HIDE DEF m
<1>3. /\ Len(toWorker') = Len(toWorker) + 1 /\ toWorker'[Len(toWorker) + 1] = m
      /\ \A i \in 1 .. Len(toWorker) : toWorker'[i] = toWorker[i]
      /\ Len(toWorker) \in Nat
  BY <1>1, <1>2, AppendFacts, LenFacts DEF ServiceTypeOK
<1>4. ASSUME Alive, NEW i \in 1 .. Len(toWorker'), toWorker'[i].kind = "reload" PROVE toWorker'[i].config = c
  <2>1. CASE i = Len(toWorker) + 1
    BY <1>1, <1>3, <1>4, <2>1
  <2>2. CASE i # Len(toWorker) + 1
    <3>1. i \in 1 .. Len(toWorker)
      BY <1>3, <2>2
    <3> QED
      BY <1>3, <1>4, <3>1 DEF Promised
  <2> QED
    BY <2>1, <2>2
<1> QED
  BY <1>4 DEF Promised, Alive

\* Whatever the supervisor does, it does not undo a confirmed configuration.
LEMMA PromisedSup ==
    ASSUME ServiceTypeOK, WireInv, NEW c, Promised(c), SupStep \/ TakeSignal \/ Tick \/ Stop \/ CleanupExpires
    PROVE  Promised(c)'
<1>0. file = c /\ recorded = c /\ sup \in Supervisor /\ UNCHANGED file /\ reqno \in Nat
  BY DEF Promised, ServiceTypeOK, SupStep, TakeSignal, Tick, Stop, CleanupExpires, Bootstrap, AwaitPrepared,
         Install, Commit, AwaitRunning, TakeRequest, SeeWorkerExit, LoadConfig, PushReload, AwaitResult,
         PersistDigest, Reply, CloseServer, Drain, RestoreHost, StopWorker, AwaitStopped, Reap, cliVars
<1>n. sup.pc \in {"push", "await", "persist"} => sup.next = c
  BY DEF Promised
<1>1. CASE Bootstrap \/ Commit
  <2>1. sup'.pc \notin {"push", "await", "persist"} /\ UNCHANGED <<recorded, worker>>
    BY <1>1, GoSupFields DEF Bootstrap, Commit
  <2>2. CASE UNCHANGED toWorker
    BY <1>0, <2>1, <2>2, PromisedMove
  <2>3. CASE Send("bootstrap", 0, recorded) \/ Send("commit", 0, recorded)
    BY <1>0, <2>1, <2>3, PromisedSend DEF ServiceTypeOK
  <2> QED
    BY <1>1, <2>2, <2>3 DEF Bootstrap, Commit
<1>2. CASE \/ AwaitPrepared \/ Install \/ AwaitRunning \/ SeeWorkerExit \/ CloseServer \/ Drain \/ RestoreHost
           \/ Reap \/ TakeSignal \/ Stop \/ Reply \/ CleanupExpires \/ \E i \in Ids : TakeRequest(i)
  <2>1. UNCHANGED <<recorded, worker, toWorker>>
    BY <1>2 DEF AwaitPrepared, Install, AwaitRunning, SeeWorkerExit, CloseServer, Drain, RestoreHost,
         Reap, TakeSignal, Stop, Reply, CleanupExpires, TakeRequest, linkVars
  <2>2. sup'.pc \notin {"push", "await", "persist"}
    <3>1. CASE AwaitPrepared \/ Install \/ CloseServer \/ Stop
      BY <3>1, GoSupFields, BreaksFields, SupTyped DEF AwaitPrepared, Install, CloseServer, Stop
    <3>2. CASE AwaitRunning
      <4>1. CASE GoSup("close")
        BY <4>1, GoSupFields
      <4>2. ASSUME NEW pc \in {"loop", "close"}, sup' = [sup EXCEPT !.pc = pc, !.running = TRUE]
            PROVE  sup'.pc = pc
        BY <1>0, <4>2 DEF Supervisor
      <4> QED
        BY <3>2, <4>1, <4>2 DEF AwaitRunning
    <3>3. CASE SeeWorkerExit \/ Drain \/ RestoreHost \/ Reap
      BY <1>0, <3>3 DEF SeeWorkerExit, Drain, RestoreHost, Reap, Breaks, GoSup, Supervisor
    <3>4. CASE TakeSignal \/ \E i \in Ids : TakeRequest(i)
      BY <1>0, <3>4 DEF TakeSignal, TakeRequest, Supervisor
    <3>5. CASE Reply
      BY <1>0, <3>5 DEF Reply, GoSup, BackToLoop, Supervisor
    <3>6. CASE CleanupExpires
      BY <1>0, <3>6 DEF CleanupExpires, Supervisor, Finishing
    <3> QED
      BY <1>2, <3>1, <3>2, <3>3, <3>4, <3>5, <3>6
  <2> QED
    BY <1>0, <2>1, <2>2, PromisedMove
<1>3. CASE Tick
  <2>1. CASE GoSup("close")
    <3>1. sup'.pc = "close"
      BY <2>1, GoSupFields
    <3> QED
      BY <1>0, <1>3, <3>1, PromisedMove DEF Tick, linkVars
  <2>2. CASE sup' = [sup EXCEPT !.pc = "push", !.source = "tick", !.next = recorded]
    <3>1. sup'.next = c
      BY <1>0, <2>2 DEF Supervisor
    <3> QED
      BY <1>0, <1>3, <3>1, PromisedMove DEF Tick, linkVars
  <2> QED
    BY <1>3, <2>1, <2>2 DEF Tick
<1>4. CASE LoadConfig
  <2>1. sup'.pc \in {"push", "reply"} /\ (sup'.pc = "push" => sup'.next = c)
    <3>1. CASE Answer("rejected")
      BY <3>1, AnswerFields
    <3>2. CASE sup' = [sup EXCEPT !.pc = "push", !.next = file]
      BY <1>0, <3>2 DEF Supervisor
    <3> QED
      BY <1>4, <3>1, <3>2 DEF LoadConfig
  <2> QED
    BY <1>0, <1>4, <2>1, PromisedMove DEF LoadConfig, linkVars
<1>5. CASE PushReload
  <2>0. sup.next = c /\ c \in Configs
    BY <1>0, <1>n, <1>5 DEF PushReload, ServiceTypeOK
  <2>1. CASE WorkerGone
    <3>1. sup'.pc = "reply" /\ UNCHANGED <<toWorker, worker, recorded>>
      BY <1>5, <2>1, AnswerFields DEF PushReload
    <3> QED
      BY <1>0, <3>1, PromisedMove
  <2>2. CASE ~WorkerGone
    <3>1. sup'.next = c /\ UNCHANGED <<worker, recorded>> /\ Send("reload", reqno + 1, sup.next)
      BY <1>5, <2>0, <2>2, GoSupFields DEF PushReload
    <3>2. reqno + 1 \in Nat
      BY <1>0
    <3> QED
      BY <1>0, <2>0, <3>1, <3>2, PromisedSend
  <2> QED
    BY <2>1, <2>2
<1>6. CASE AwaitResult
  <2>1. sup'.next = sup.next /\ sup.next = c
    BY <1>n, <1>6, GoSupFields, AnswerFields DEF AwaitResult, Accepted
  <2> QED
    BY <1>0, <1>6, <2>1, PromisedMove DEF AwaitResult
<1>7. CASE PersistDigest
  <2>1. sup'.pc = "reply" /\ recorded' = c
    BY <1>0, <1>n, <1>7, AnswerFields DEF PersistDigest
  <2> QED
    BY <1>0, <1>7, <2>1, PromisedMove DEF PersistDigest, linkVars
<1>8. CASE StopWorker \/ AwaitStopped
  <2>1. sup'.pc \in {"awaitStop", "reap"} /\ UNCHANGED recorded
    BY <1>8, StoppingFields
  <2>2. CASE Kill
    BY <1>0, <2>1, <2>2, KillWire DEF Promised
  <2>3. CASE UNCHANGED <<toWorker, worker>>
    BY <1>0, <2>1, <2>3, PromisedMove
  <2>4. CASE Send("shutdown", reqno + 1, None) /\ UNCHANGED worker
    <3>1. reqno + 1 \in Nat
      BY <1>0
    <3> QED
      BY <1>0, <2>1, <2>4, <3>1, PromisedSend
  <2> QED
    BY <1>8, <2>2, <2>3, <2>4 DEF StopWorker, AwaitStopped, linkVars
<1> QED
  BY <1>1, <1>2, <1>3, <1>4, <1>5, <1>6, <1>7, <1>8 DEF SupStep

LEMMA PromisedWorker ==
    ASSUME ServiceTypeOK, WireInv, NEW c, Promised(c), WorkerStep
    PROVE  Promised(c)'
<1>0. UNCHANGED <<file, recorded, sup>>
  BY DEF WorkerStep, WorkerPrepares, WorkerCommits, WorkerReloads, WorkerStops, WorkerDies, supVars, cliVars
<1>1. CASE ~Alive'
  BY <1>0, <1>1 DEF Promised
<1>2. CASE Alive'
  <2>1. /\ WorkerReloads
    <3>1. Alive => worker.phase = "running"
      BY DEF Promised
    <3>2. ASSUME NEW how \in {"clean", "quiet", "error"}, NEW r, Exit(how, r) PROVE ~Alive'
      BY <3>2 DEF Exit, Alive, ServiceTypeOK
    <3>3. ~WorkerDies /\ ~WorkerStops
      BY <1>2, <3>2 DEF WorkerDies, WorkerStops
    <3> QED
      BY <3>1, <3>3 DEF WorkerStep, WorkerPrepares, WorkerCommits, Hears, Alive, WorkerGone
  <2> DEFINE m == Head(toWorker)
  <2>2. /\ toWorker # <<>> /\ m.kind = "reload" /\ Alive /\ toWorker' = Tail(toWorker)
        /\ worker'.phase = worker.phase /\ worker'.digest \in {worker.digest, m.config}
    BY <2>1 DEF WorkerReloads, Hears, Says, ServiceTypeOK, Alive, WorkerGone
  <2>3. /\ m = toWorker[1] /\ Len(toWorker) \in Nat \ {0} /\ Len(toWorker') = Len(toWorker) - 1
        /\ \A i \in 1 .. Len(toWorker) - 1 : toWorker'[i] = toWorker[i + 1]
    BY <2>2, TailFacts DEF ServiceTypeOK
  <2>4. 1 \in 1 .. Len(toWorker) /\ \A i \in 1 .. Len(toWorker') :
          i + 1 \in 1 .. Len(toWorker) /\ toWorker'[i] = toWorker[i + 1]
    BY <2>3
  <2>5. m.config = c
    BY <2>2, <2>3, <2>4 DEF Promised
  <2> QED
    BY <1>0, <2>2, <2>4, <2>5 DEF Promised
<1> QED
  BY <1>1, <1>2

\* The command's success is only as good as the response, which is given when both halves agree.
LEMMA PromiseCli ==
    ASSUME ServiceTypeOK, RequestInv, WireInv, PromiseInv,
           \/ Activate \/ RemoveFile \/ RestoreFile \/ ReceiveResponse \/ CliTimeout
           \/ (\E c \in Configs : BeginUpdate(c) \/ EditFile(c))
           \/ BeginReload \/ Disconnect \/ KillCli \/ ActivateFails \/ RestoreFails
    PROVE  PromiseInv'
<1>0. UNCHANGED <<resp, exec, started, sup, recorded, toWorker, worker>> /\ cli \in CliType
      /\ issued \in Nat
  BY ServiceAssumption DEF Activate, RemoveFile, RestoreFile, ReceiveResponse, CliTimeout, BeginUpdate, EditFile,
     BeginReload, Disconnect, KillCli, ActivateFails, RestoreFails, serverVars, supVars, linkVars, ServiceTypeOK,
     CliType
<1>b. \A i \in Ids : i > issued => started[i] = 0 /\ resp[i] = Absent
  BY DEF RequestInv
<1>c. Absent \notin Configs
  BY NamesAssumption
<1>5. ASSUME \/ UNCHANGED want
             \/ issued + 1 \in Ids /\ \E c : want' = [want EXCEPT ![issued + 1] = c]
      PROVE  \/ sup'.pc \in {"push", "await", "persist"}
             \/ sup'.pc = "reply" /\ sup'.err = "none"
             => (sup'.source = "control" /\ exec'[sup'.id] = "wait" => sup'.next = want'[sup'.id])
  <2>1. sup.source = "control" => sup.id \in Ids /\ started[sup.id] = 1
    BY DEF RequestInv
  <2>2. issued + 1 \in Ids => started[issued + 1] = 0
    BY <1>0, <1>b
  <2>3. sup.source = "control" => want'[sup.id] = want[sup.id]
    BY <1>5, <2>1, <2>2 DEF ServiceTypeOK
  <2> QED
    BY <1>0, <2>3 DEF PromiseInv
<1>q. cli.pc # "idle" => last.result = "none" /\ sup.pc \notin Starting
  BY DEF PromiseInv
<1>1. ASSUME cli' = IdleCli, last' = NoOutcome, UNCHANGED want PROVE PromiseInv'
  <2>1. cli'.pc = "idle" /\ last'.result = "none"
    BY <1>1 DEF IdleCli, NoOutcome
  <2> QED
    BY <1>1, <1>5, <2>1 DEF PromiseInv
<1>2. ASSUME cli.pc # "idle", cli'.pc \in {"remove", "restore"}, UNCHANGED <<last, want>> PROVE PromiseInv'
  BY <1>0, <1>2, <1>5, <1>q DEF PromiseInv
<1>g. ASSUME cli.pc # "idle", GiveUp, UNCHANGED want PROVE PromiseInv'
  <2>1. CASE cli' = [cli EXCEPT !.pc = "remove"] /\ UNCHANGED last
    <3>1. cli'.pc = "remove"
      BY <1>0, <2>1 DEF CliType
    <3> QED
      BY <1>2, <1>g, <2>1, <3>1
  <2>2. CASE EndCli(NoOutcome)
    BY <1>1, <1>g, <2>2 DEF EndCli
  <2> QED
    BY <1>g, <2>1, <2>2 DEF GiveUp
<1>3. CASE KillCli \/ ActivateFails \/ RestoreFails
  BY <1>1, <1>3 DEF KillCli, ActivateFails, RestoreFails, EndCli, serverVars
<1>4. CASE CliTimeout
  BY <1>4, <1>g DEF CliTimeout, serverVars
<1>6. CASE RemoveFile
  <2>1. cli.pc # "idle" /\ cli'.pc = "restore" /\ UNCHANGED <<last, want>>
    BY <1>0, <1>6 DEF RemoveFile, serverVars, CliType
  <2> QED
    BY <1>2, <2>1
<1>7. CASE ReceiveResponse
  <2>0. cli.pc \in {"send", "await"} /\ UNCHANGED <<want, file>>
    BY <1>7 DEF ReceiveResponse, serverVars
  <2>1. CASE resp[cli.id] # cli.want
    BY <1>7, <1>g, <2>0, <2>1 DEF ReceiveResponse
  <2>2. CASE resp[cli.id] = cli.want
    <3>1. cli' = IdleCli /\ last'.config = cli.want
      BY <1>7, <2>2 DEF ReceiveResponse, EndCli, Outcome
    <3>2. Promised(cli.want)
      BY <2>0, <2>2 DEF PromiseInv
    <3>3. cli'.pc = "idle" /\ sup'.pc \notin Starting
      BY <1>0, <1>q, <2>0, <3>1 DEF IdleCli
    <3>4. Promised(last.config)'
      BY <1>0, <2>0, <3>1, <3>2 DEF Promised, Alive
    <3> QED
      BY <1>5, <2>0, <3>3, <3>4 DEF PromiseInv
  <2> QED
    BY <2>1, <2>2
<1>8. CASE Disconnect
  <2>1. /\ cli.pc = "await" /\ cli'.pc = "send" /\ cli'.id = cli.id /\ cli'.want = cli.want
        /\ UNCHANGED <<last, want, file>>
    BY <1>0, <1>8 DEF Disconnect, CliType, serverVars
  <2>2. resp[cli.id] = cli.want => Promised(cli.want)'
    BY <1>0, <2>1 DEF PromiseInv, Promised, Alive
  <2> QED
    BY <1>0, <1>5, <1>q, <2>1, <2>2 DEF PromiseInv
<1>9. CASE Activate
  <2>1. /\ cli.pc = "activate" /\ cli'.pc = "send" /\ cli'.id = cli.id /\ cli'.want = cli.want
        /\ UNCHANGED <<last, want>> /\ file' = cli.want
    BY <1>0, <1>9 DEF Activate, CliType, serverVars
  <2>2. resp'[cli'.id] # cli'.want
    BY <1>0, <1>c, <2>1 DEF RequestInv
  <2> QED
    BY <1>0, <1>5, <1>q, <2>1, <2>2 DEF PromiseInv
<1>10. CASE RestoreFile
  <2>1. /\ cli.pc = "restore" /\ cli'.pc = "send" /\ cli'.id = issued + 1 /\ cli'.want = cli.undo
        /\ UNCHANGED last /\ file' = cli.undo /\ want' = [want EXCEPT ![issued + 1] = cli.undo]
    BY <1>0, <1>10 DEF RestoreFile, CliType
  <2>2. issued + 1 \in Ids /\ cli.undo \in Configs
    BY <1>0, <2>1 DEF RequestInv, CliType
  <2>3. resp'[cli'.id] # cli'.want
    BY <1>0, <1>b, <1>c, <2>1, <2>2
  <2> QED
    BY <1>0, <1>5, <1>q, <2>1, <2>2, <2>3 DEF PromiseInv
<1>11. CASE BeginReload
  <2>1. /\ cli'.pc = "send" /\ cli'.id = issued + 1 /\ cli'.want = file /\ last'.result = "none"
        /\ UNCHANGED file /\ want' = [want EXCEPT ![issued + 1] = file] /\ sup.pc \in Serving
    BY <1>11 DEF BeginReload, NoOutcome
  <2>2. issued + 1 \in Ids /\ file \in Configs
    BY <1>0, <1>11, ServiceAssumption DEF BeginReload, ServiceTypeOK, Ids
  <2>3. resp'[cli'.id] # cli'.want
    BY <1>0, <1>b, <1>c, <2>1, <2>2
  <2> QED
    BY <1>0, <1>5, <2>1, <2>2, <2>3 DEF PromiseInv, Serving, Starting
<1>12. ASSUME NEW c \in Configs, BeginUpdate(c) PROVE PromiseInv'
  <2>1. /\ cli'.pc = "activate" /\ last'.result = "none"
        /\ want' = [want EXCEPT ![issued + 1] = c] /\ sup.pc \in Serving
    BY <1>12 DEF BeginUpdate, NoOutcome
  <2>2. issued + 1 \in Ids
    BY <1>0, <1>12, ServiceAssumption DEF BeginUpdate, Ids
  <2> QED
    BY <1>0, <1>5, <2>1, <2>2 DEF PromiseInv, Serving, Starting
<1>13. ASSUME NEW c \in Configs, EditFile(c) PROVE PromiseInv'
  <2>1. UNCHANGED <<cli, want>> /\ cli.pc = "idle" /\ last'.result = "none"
    BY <1>13 DEF EditFile, NoOutcome, serverVars
  <2> QED
    BY <1>0, <1>5, <2>1 DEF PromiseInv
<1> QED
  BY <1>3, <1>4, <1>6, <1>7, <1>8, <1>9, <1>10, <1>11, <1>12, <1>13

\* A request is accepted, refused or given up: none of that confirms anything.
LEMMA PromiseServer ==
    ASSUME ServiceTypeOK, RequestInv, PromiseInv, ProcessReload \/ \E i \in Ids : HandlerGivesUp(i)
    PROVE  PromiseInv'
<1>0. UNCHANGED <<file, sup, recorded, toWorker, worker>> /\ cli \in CliType
  BY DEF ProcessReload, HandlerGivesUp, cliVars, supVars, linkVars, ServiceTypeOK, CliType
<1>c. Absent \notin Configs /\ Running \notin Configs /\ Failed \notin Configs
  BY NamesAssumption
<1>1. ASSUME NEW i \in Ids, HandlerGivesUp(i) PROVE PromiseInv'
  <2>1. /\ UNCHANGED <<cli, last>>
        /\ resp' = [resp EXCEPT ![i] = Failed] /\ exec' = [exec EXCEPT ![i] = "none"]
        /\ want' = [want EXCEPT ![i] = None]
    BY <1>1 DEF HandlerGivesUp, Complete, cliVars
  <2>2. cli.pc \in {"send", "await"} => cli.id \in Ids /\ cli.want \in Configs
    BY DEF RequestInv
  <2>3. last.result # "none" => cli.pc = "idle" /\ Promised(last.config)'
    BY <1>0, <2>1 DEF PromiseInv, Promised, Alive
  <2>4. cli.pc \in {"send", "await"} /\ resp'[cli.id] = cli.want => Promised(cli.want)'
    <3>1. cli.pc \in {"send", "await"} /\ resp'[cli.id] = cli.want => resp[cli.id] = cli.want
      BY <1>c, <2>1, <2>2 DEF ServiceTypeOK
    <3> QED
      BY <1>0, <2>1, <3>1 DEF PromiseInv, Promised, Alive
  <2>5. \/ sup.pc \in {"push", "await", "persist"}
        \/ sup.pc = "reply" /\ sup.err = "none"
        => (sup.source = "control" /\ exec'[sup.id] = "wait" => sup.next = want'[sup.id])
    <3>1. sup.source = "control" => sup.id \in Ids
      BY DEF RequestInv
    <3>2. sup.source = "control" /\ exec'[sup.id] = "wait" => exec[sup.id] = "wait" /\ want'[sup.id] = want[sup.id]
      BY <2>1, <3>1 DEF ServiceTypeOK
    <3> QED
      BY <3>2 DEF PromiseInv
  <2> QED
    BY <1>0, <2>1, <2>3, <2>4, <2>5 DEF PromiseInv
<1>2. CASE ProcessReload
  <2>0. cli.pc = "send" /\ cli.id \in Ids /\ cli.want \in Configs /\ UNCHANGED want
        /\ last.result = "none" /\ sup.pc \notin Starting /\ file = cli.want
    BY <1>2 DEF ProcessReload, RequestInv, PromiseInv
  <2>1. \/ /\ GiveUp /\ UNCHANGED exec
        \/ /\ resp'[cli.id] = Running /\ exec' = [exec EXCEPT ![cli.id] = "offer"]
           /\ cli' = [cli EXCEPT !.pc = "await"] /\ UNCHANGED last
    BY <1>2, <2>0 DEF ProcessReload
  <2>2. \/ sup.pc \in {"push", "await", "persist"}
        \/ sup.pc = "reply" /\ sup.err = "none"
        => (sup.source = "control" /\ exec'[sup.id] = "wait" => sup.next = want'[sup.id])
    <3>1. sup.source = "control" => sup.id \in Ids
      BY DEF RequestInv
    <3>2. exec' = exec \/ exec' = [exec EXCEPT ![cli.id] = "offer"]
      BY <2>1
    <3>3. sup.source = "control" /\ exec'[sup.id] = "wait" => exec[sup.id] = "wait"
      BY <2>0, <3>1, <3>2 DEF ServiceTypeOK
    <3> QED
      BY <2>0, <3>3 DEF PromiseInv
  <2>3. CASE GiveUp
    <3>1. /\ cli'.pc \in {"idle", "remove"} /\ last'.result = "none"
      BY <1>0, <2>0, <2>3 DEF GiveUp, EndCli, IdleCli, NoOutcome, CliType
    <3> QED
      BY <1>0, <2>0, <2>2, <3>1 DEF PromiseInv
  <2>4. CASE resp'[cli.id] = Running /\ cli' = [cli EXCEPT !.pc = "await"] /\ UNCHANGED last
    <3>1. cli'.pc = "await" /\ cli'.id = cli.id /\ cli'.want = cli.want
      BY <1>0, <2>4 DEF CliType
    <3>2. resp'[cli'.id] # cli'.want
      BY <1>c, <2>0, <2>4, <3>1
    <3> QED
      BY <1>0, <2>0, <2>2, <2>4, <3>1, <3>2 DEF PromiseInv
  <2> QED
    BY <2>1, <2>3, <2>4
<1> QED
  BY <1>1, <1>2

\* A reply confirms a configuration only when the file, the record and the worker carry it.
LEMMA PromiseReply ==
    ASSUME ServiceTypeOK, RequestInv, WireInv, PromiseInv, Reply,
           cli.pc \in {"send", "await"}, resp'[cli.id] = cli.want
    PROVE  Promised(cli.want)'
<1>0. /\ UNCHANGED <<file, cli, recorded, toWorker, toSup, worker, unsure>> /\ sup.pc = "reply" /\ sup \in Supervisor
      /\ cli.id \in Ids /\ cli.want \in Configs /\ file = cli.want
      /\ SupStep
  BY DEF Reply, cliVars, linkVars, ServiceTypeOK, RequestInv, PromiseInv, SupStep
<1>1. CASE resp[cli.id] = cli.want
  <2>1. Promised(cli.want)
    BY <1>1 DEF PromiseInv
  <2>2. sup'.pc \notin {"push", "await", "persist"}
    BY <1>0 DEF Reply, GoSup, BackToLoop, Supervisor
  <2> QED
    BY <1>0, <2>1, <2>2 DEF Promised, Alive
<1>2. CASE resp[cli.id] # cli.want
  <2>0. Failed \notin Configs
    BY NamesAssumption
  <2>1. /\ sup.source = "control" /\ sup.id = cli.id
        /\ resp' = [resp EXCEPT ![sup.id] = IF sup.err = "none" THEN sup.next ELSE Failed]
    <3>1. \/ UNCHANGED resp
          \/ /\ sup.source = "control"
             /\ resp' = [resp EXCEPT ![sup.id] = IF sup.err = "none" THEN sup.next ELSE Failed]
      BY DEF Reply, Complete
    <3> QED
      BY <1>0, <1>2, <3>1 DEF ServiceTypeOK
  <2>2. cli.want = IF sup.err = "none" THEN sup.next ELSE Failed
    BY <1>0, <2>1 DEF ServiceTypeOK
  <2>3. sup.err = "none" /\ sup.next = cli.want
    BY <1>0, <2>0, <2>2
  <2>4. ~unsure /\ recorded = sup.next /\ (Alive => InTransit = 0 /\ worker.digest = recorded)
    BY <1>0, <2>3 DEF WireInv, CalmInv
  <2>5. Alive => worker.phase = "running"
    BY <1>0 DEF WireInv, ReloadInv, Reloading, Serving
  <2>6. Alive => Len(toWorker) = 0
    BY <2>4, LenFacts DEF InTransit, ServiceTypeOK
  <2>7. sup'.pc \notin {"push", "await", "persist"}
    BY <1>0 DEF Reply, GoSup, BackToLoop, Supervisor
  <2> QED
    BY <1>0, <2>3, <2>4, <2>5, <2>6, <2>7 DEF Promised, Alive
<1> QED
  BY <1>1, <1>2

LEMMA PromiseSup ==
    ASSUME ServiceTypeOK, RequestInv, WireInv, PromiseInv, SupStep \/ TakeSignal \/ Tick \/ Stop \/ CleanupExpires
    PROVE  PromiseInv'
<1>0. UNCHANGED <<file, cli, last>> /\ sup \in Supervisor
  BY DEF ServiceTypeOK, SupStep, TakeSignal, Tick, Stop, CleanupExpires, Bootstrap, AwaitPrepared,
         Install, Commit, AwaitRunning, TakeRequest, SeeWorkerExit, LoadConfig, PushReload, AwaitResult,
         PersistDigest, Reply, CloseServer, Drain, RestoreHost, StopWorker, AwaitStopped, Reap, cliVars
<1>1. last.result # "none" => cli.pc = "idle" /\ Promised(last.config)'
  <2> SUFFICES ASSUME last.result # "none" PROVE cli.pc = "idle" /\ Promised(last.config)'
    OBVIOUS
  <2> DEFINE c == last.config
  <2>1. Promised(c) /\ cli.pc = "idle"
    BY DEF PromiseInv
  <2>2. ASSUME NEW d, Promised(d) PROVE Promised(d)'
    BY <2>2, PromisedSup
  <2>3. PICK d : d = last.config
    OBVIOUS
  <2>4. Promised(d)'
    BY <2>1, <2>2, <2>3
  <2> QED
    BY <1>0, <2>1, <2>3, <2>4 DEF Promised
<1>2. cli.pc \in {"send", "await"} /\ resp'[cli.id] = cli.want => Promised(cli.want)'
  <2> SUFFICES ASSUME cli.pc \in {"send", "await"}, resp'[cli.id] = cli.want PROVE Promised(cli.want)'
    OBVIOUS
  <2>1. CASE Reply
    BY <2>1, PromiseReply
  <2>2. CASE ~Reply
    <3>1. UNCHANGED resp
      BY <2>2 DEF SupStep, TakeSignal, Tick, Stop, CleanupExpires, Bootstrap, AwaitPrepared,
         Install, Commit, AwaitRunning, TakeRequest, SeeWorkerExit, LoadConfig, PushReload, AwaitResult,
         PersistDigest, CloseServer, Drain, RestoreHost, StopWorker, AwaitStopped, Reap, serverVars
    <3>2. Promised(cli.want)
      BY <3>1 DEF PromiseInv
    <3>3. PICK d : d = cli.want
      OBVIOUS
    <3>4. Promised(d)'
      BY <3>2, <3>3, PromisedSup
    <3> QED
      BY <1>0, <3>3, <3>4 DEF Promised
  <2> QED
    BY <2>1, <2>2
<1>3. sup'.pc \in Starting => sup.pc \in Starting
  <2>1. CASE Bootstrap \/ AwaitPrepared \/ Install \/ Commit
    BY <2>1 DEF Bootstrap, AwaitPrepared, Install, Commit, Starting
  <2>2. CASE AwaitRunning
    BY <2>2 DEF AwaitRunning, Starting
  <2>3. CASE SeeWorkerExit \/ Drain \/ RestoreHost \/ Reap \/ TakeSignal \/ \E i \in Ids : TakeRequest(i)
    <3>1. CASE SeeWorkerExit \/ TakeSignal
      BY <1>0, <3>1 DEF SeeWorkerExit, TakeSignal, GoSup, Supervisor, Starting
    <3>2. CASE Drain
      BY <1>0, <3>2 DEF Drain, Breaks, GoSup, Supervisor, Starting
    <3>3. CASE RestoreHost
      BY <1>0, <3>3 DEF RestoreHost, Breaks, GoSup, Supervisor, Starting
    <3>4. CASE Reap
      BY <1>0, <3>4 DEF Reap, Breaks, Supervisor, Starting
    <3>5. CASE \E i \in Ids : TakeRequest(i)
      BY <1>0, <3>5 DEF TakeRequest, Supervisor, Starting
    <3> QED
      BY <2>3, <3>1, <3>2, <3>3, <3>4, <3>5
  <2>4. CASE Tick \/ LoadConfig \/ Reply
    BY <1>0, <2>4 DEF Tick, LoadConfig, Reply, GoSup, Answer, BackToLoop, Supervisor, Starting
  <2>5. CASE PushReload \/ PersistDigest \/ CloseServer \/ Stop
    BY <2>5, GoSupFields, AnswerFields, BreaksFields, SupTyped DEF PushReload, PersistDigest, CloseServer, Stop, Starting
  <2>6. CASE AwaitResult
    <3>1. sup'.pc \in {"await", "reply", "persist"}
      BY <2>6, GoSupFields, AnswerFields DEF AwaitResult, Accepted
    <3> QED
      BY <3>1 DEF Starting
  <2>7. CASE StopWorker \/ AwaitStopped
    <3>1. sup'.pc \in {"awaitStop", "reap"}
      BY <2>7, StoppingFields
    <3> QED
      BY <3>1 DEF Starting
  <2>8. CASE CleanupExpires
    BY <1>0, <2>8 DEF CleanupExpires, Supervisor
  <2> QED
    BY <2>1, <2>2, <2>3, <2>4, <2>5, <2>6, <2>7, <2>8 DEF SupStep
<1>4. ASSUME \/ sup'.pc \in {"push", "await", "persist"}
             \/ sup'.pc = "reply" /\ sup'.err = "none",
             sup'.source = "control", exec'[sup'.id] = "wait"
      PROVE  sup'.next = want'[sup'.id]
  <2>1. CASE LoadConfig
    <3>1. CASE Answer("rejected")
      BY <1>4, <3>1, AnswerFields
    <3>2. CASE (sup.source = "control" => want[sup.id] = file) /\ sup' = [sup EXCEPT !.pc = "push", !.next = file]
      <4>1. sup'.next = file /\ sup'.source = sup.source /\ sup'.id = sup.id
        BY <1>0, <3>2 DEF Supervisor
      <4> QED
        BY <1>4, <2>1, <3>2, <4>1 DEF LoadConfig, serverVars
    <3> QED
      BY <2>1, <3>1, <3>2 DEF LoadConfig
  <2>2. CASE PushReload \/ AwaitResult \/ PersistDigest
    <3>1. /\ sup'.source = sup.source /\ sup'.id = sup.id /\ sup'.next = sup.next
          /\ sup.pc \in {"push", "await", "persist"} /\ UNCHANGED <<want, exec>>
      BY <2>2, GoSupFields, AnswerFields DEF PushReload, AwaitResult, Accepted, PersistDigest, serverVars
    <3> QED
      BY <1>4, <3>1 DEF PromiseInv
  <2>3. CASE Tick
    <3>1. CASE GoSup("close")
      BY <1>4, <3>1, GoSupFields
    <3>2. CASE sup' = [sup EXCEPT !.pc = "push", !.source = "tick", !.next = recorded]
      BY <1>0, <1>4, <3>2 DEF Supervisor
    <3> QED
      BY <2>3, <3>1, <3>2 DEF Tick
  <2>4. CASE Bootstrap \/ AwaitPrepared \/ Install \/ Commit \/ Stop \/ CloseServer
    BY <1>4, <2>4, GoSupFields, BreaksFields, SupTyped DEF Bootstrap, AwaitPrepared, Install, Commit, Stop, CloseServer
  <2>5. CASE SeeWorkerExit \/ Drain \/ RestoreHost \/ Reap \/ TakeSignal \/ \E i \in Ids : TakeRequest(i)
    BY <1>0, <1>4, <2>5 DEF SeeWorkerExit, Drain, RestoreHost, Reap, Breaks, TakeSignal, TakeRequest, GoSup, Supervisor
  <2>6. CASE Reply
    BY <1>0, <1>4, <2>6 DEF Reply, GoSup, BackToLoop, Supervisor
  <2>7. CASE StopWorker \/ AwaitStopped
    <3>1. sup'.pc \in {"awaitStop", "reap"}
      BY <2>7, StoppingFields
    <3> QED
      BY <1>4, <3>1
  <2>8. CASE CleanupExpires
    BY <1>0, <1>4, <2>8 DEF CleanupExpires, Supervisor, Finishing
  <2>9. CASE AwaitRunning
    <3>1. CASE GoSup("close")
      BY <1>4, <3>1, GoSupFields
    <3>2. ASSUME NEW pc \in {"loop", "close"}, sup' = [sup EXCEPT !.pc = pc, !.running = TRUE]
          PROVE  sup'.pc = pc
      BY <1>0, <3>2 DEF Supervisor
    <3> QED
      BY <1>4, <2>9, <3>1, <3>2 DEF AwaitRunning
  <2> QED
    BY <2>1, <2>2, <2>3, <2>4, <2>5, <2>6, <2>7, <2>8, <2>9 DEF SupStep
<1> QED
  BY <1>0, <1>1, <1>2, <1>3, <1>4 DEF PromiseInv

LEMMA PromiseWorker ==
    ASSUME ServiceTypeOK, WireInv, PromiseInv, WorkerStep
    PROVE  PromiseInv'
<1>0. UNCHANGED <<cli, last, file, sup, resp, exec, want>>
  BY DEF WorkerStep, WorkerPrepares, WorkerCommits, WorkerReloads, WorkerStops, WorkerDies,
         cliVars, serverVars, supVars
<1>1. ASSUME NEW d, Promised(d) PROVE Promised(d)'
  BY <1>1, PromisedWorker
<1>2. ASSUME last.result # "none" PROVE Promised(last.config)'
  <2>1. PICK d : d = last.config
    OBVIOUS
  <2>2. Promised(d)'
    BY <1>1, <1>2, <2>1 DEF PromiseInv
  <2> QED
    BY <1>0, <2>1, <2>2 DEF Promised
<1>3. ASSUME cli.pc \in {"send", "await"}, resp[cli.id] = cli.want PROVE Promised(cli.want)'
  <2>1. PICK d : d = cli.want
    OBVIOUS
  <2>2. Promised(d)'
    BY <1>1, <1>3, <2>1 DEF PromiseInv
  <2> QED
    BY <1>0, <2>1, <2>2 DEF Promised
<1> QED
  BY <1>0, <1>2, <1>3 DEF PromiseInv

LEMMA PromiseStep ==
    ASSUME ServiceTypeOK, RequestInv, WireInv, PromiseInv, [ServiceNext]_vars
    PROVE  PromiseInv'
<1>1. CASE UNCHANGED vars
  BY <1>1 DEF PromiseInv, Promised, Alive, vars, cliVars, serverVars, supVars, linkVars
<1> QED
  BY <1>1, PromiseCli, PromiseServer, PromiseSup, PromiseWorker DEF ServiceNext, CliStep, Operator

----------------------------------------------------------------------------
(* The theorems *)

LEMMA ServiceInit ==
    Init => ServiceInv
<1> SUFFICES ASSUME Init PROVE ServiceInv
  OBVIOUS
<1>1. ServiceTypeOK
  <2>1. 0 \in 0 .. MaxRequests /\ 0 \in 0 .. MaxEvents
    BY ServiceAssumption
  <2>2. cli \in [pc : {"idle", "activate", "send", "await", "remove", "restore"},
                 id : 0 .. MaxRequests, want : Configs \cup {None},
                 undo : Configs \cup {None}, rolling : BOOLEAN]
    BY <2>1 DEF Init, IdleCli
  <2>3. sup \in Supervisor
    BY <2>1 DEF Init, Supervisor, Serving, Starting, Finishing, Errors
  <2>4. last \in [result : {"none", "ok", "rolledback"}, config : Configs \cup {None}]
    BY DEF Init, NoOutcome
  <2>5. toWorker \in Seq(Message) /\ toSup \in Seq(Reports) /\ completed \in Seq(Ids)
    BY DEF Init
  <2>6. /\ want \in [Ids -> Configs \cup {None}] /\ resp \in [Ids -> Configs \cup {Absent, Running, Failed}]
        /\ exec \in [Ids -> {"none", "offer", "wait"}] /\ started \in [Ids -> Nat]
    BY DEF Init
  <2> QED
    BY <2>1, <2>2, <2>3, <2>4, <2>5, <2>6, ServiceAssumption DEF Init, ServiceTypeOK
<1>2. RequestInv
  BY DEF Init, RequestInv, IdleCli
<1>3. Len(toWorker) = 0 /\ Len(toSup) = 0 /\ sup.pc = "start" /\ worker.exit = "none" /\ worker.phase = "new"
      /\ toWorker = <<>> /\ sup.err = "none" /\ ~sup.running /\ ~sup.failed /\ ~sup.broken
  BY DEF Init
<1>4. WireInv
  BY <1>3 DEF WireInv, WorkerGone, Alive, StartingInv, NothingHeard, Starting, ReloadInv, Reloading, Serving,
              AwaitInv, CalmInv
<1>5. StopInv
  BY <1>3 DEF StopInv
<1>6. PromiseInv
  BY <1>3 DEF Init, PromiseInv, IdleCli, NoOutcome
<1> QED
  BY <1>1, <1>2, <1>4, <1>5, <1>6 DEF ServiceInv

LEMMA ServiceInductive ==
    ServiceInv /\ [ServiceNext]_vars => ServiceInv'
BY TypeStep, RequestStep, WireStep, StopStep, PromiseStep DEF ServiceInv, WireInv

\* The inductive invariant holds, and with it the types.
THEOREM ServiceInvariant ==
    ServiceSpec => [](ServiceInv /\ ServiceTypeOK)
<1>1. ServiceInv => ServiceTypeOK
  BY DEF ServiceInv
<1> QED
  BY <1>1, ServiceInit, ServiceInductive, PTL DEF ServiceSpec

\* However often a command asks again with the same ID, over lost connections and a
\* cache that drops records, executeReload runs at most once for it.
THEOREM ReloadsAtMostOnce ==
    ServiceSpec => []AtMostOnce
<1>1. ServiceInv => AtMostOnce
  BY DEF ServiceInv, RequestInv, AtMostOnce
<1> QED
  BY <1>1, ServiceInit, ServiceInductive, PTL DEF ServiceSpec

\* An answer that arrives after its reload timed out is recognised by its number, however
\* many are late: awaiting the next answer never ends in a protocol error.
THEOREM SessionsStayInStep ==
    ServiceSpec => []SessionInStep
<1>1. ServiceInv => SessionInStep
  BY DEF ServiceInv, WireInv, SessionInStep
<1> QED
  BY <1>1, ServiceInit, ServiceInductive, PTL DEF ServiceSpec

\* Between requests the recovery record and the worker agree, and nothing is on the wire,
\* unless a reload timed out and none has succeeded since.
THEOREM RecordAndWorkerAgree ==
    ServiceSpec => []HalvesAgree
<1>1. ASSUME ServiceInv PROVE HalvesAgree
  <2> SUFFICES ASSUME sup.pc = "loop", ~unsure, ~WorkerGone
               PROVE  recorded = worker.digest /\ toWorker = <<>>
    BY DEF HalvesAgree
  <2>1. Alive
    BY DEF Alive, WorkerGone
  <2>2. InTransit = 0 /\ worker.digest = recorded
    BY <1>1, <2>1 DEF ServiceInv, WireInv, CalmInv
  <2>3. toWorker = <<>>
    BY <1>1, <2>2, LenFacts DEF ServiceInv, ServiceTypeOK, InTransit
  <2> QED
    BY <2>2, <2>3
<1> QED
  BY <1>1, ServiceInit, ServiceInductive, PTL DEF ServiceSpec

\* A stop is reported as failed only if a call of the clean-up failed, it ran out of time
\* or the worker did not stop cleanly, whatever was still in the channel when the worker
\* left; and a failed call is reported at the end.
THEOREM StopsCleanly ==
    ServiceSpec => []CleanStop
<1>1. ServiceInv => CleanStop
  BY DEF ServiceInv, StopInv, CleanStop
<1> QED
  BY <1>1, ServiceInit, ServiceInductive, PTL DEF ServiceSpec

\* The supervisor never ends with the host captured and nothing reported.
THEOREM HostReleasedOrRecorded ==
    ServiceSpec => []ReleasedOrRecorded
<1>1. ServiceInv => ReleasedOrRecorded
  BY DEF ServiceInv, StopInv, ReleasedOrRecorded
<1> QED
  BY <1>1, ServiceInit, ServiceInductive, PTL DEF ServiceSpec

\* What a command reported stays true until the next command or edit: the file, the
\* recovery record and the worker carry the configuration it named.
THEOREM OutcomesHold ==
    ServiceSpec => []OutcomeHolds
<1>1. ServiceInv => OutcomeHolds
  BY DEF ServiceInv, PromiseInv, Promised, OutcomeHolds, Alive, WorkerGone
<1> QED
  BY <1>1, ServiceInit, ServiceInductive, PTL DEF ServiceSpec
=============================================================================
