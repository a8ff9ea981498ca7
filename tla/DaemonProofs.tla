---------------------------- MODULE DaemonProofs ----------------------------
(***************************************************************************)
(* Proofs about the processes of the application: the Daemon, for stores,  *)
(* batches, jobs, signals and faults without bound, and the ModelWorker.   *)
(* The stores are released only when nothing can reach them any more, a    *)
(* clean exit has everything published, and an execution of a worker that  *)
(* has returned has left nothing running that it did not report.           *)
(*                                                                         *)
(* While the daemon lives, the phase it is in says what the store worker   *)
(* can still find in its queue; once it has ended, nothing moves. The      *)
(* phase of the worker's coroutine says which of the staging directory,    *)
(* the client of systemd and the unit exist, and the step of its cleanup   *)
(* which of them it has ended.                                             *)
(***************************************************************************)
EXTENDS Daemon, ModelWorker, TLAPS

Operations == {"accept", "process"}
Settled == \A t \in Tasks : tasks[t] \in {"none", "done"}

Queued ==
    /\ drive = "starting" => queue = <<"open">> /\ \A t \in Tasks : tasks[t] = "none"
    /\ drive = "running" \/ phase = "join" => queue \in Seq(Operations)
    /\ phase \in {"jobs", "flush"} => queue = <<>>
    /\ phase = "flushing" => queue = <<"process">>
    /\ phase \in {"over", "raised"} /\ drive = "closing" => queue = <<"close">>
    /\ phase \in {"over", "raised"} /\ drive # "closing" => queue = <<>>

Phased ==
    /\ drive \in {"starting", "running"} => phase = "none"
    /\ drive = "starting" => jobs = 0 /\ ~pulling
    /\ drive = "draining" => phase \in {"join", "jobs", "flush", "flushing", "over", "raised"}
    /\ drive = "closing" => phase \in {"over", "raised"}
    /\ drive \in {"starting", "running", "draining", "closing"}

Quiesced ==
    /\ phase \in {"jobs", "flush", "flushing", "over", "raised"} => ~pulling /\ Settled
    /\ phase \in {"flush", "flushing", "over", "raised"} => jobs = 0

Flushed ==
    /\ drive # "starting" /\ ~opened => broken
    /\ phase = "over" => Published(store) \/ broken

Living ==
    /\ jobs \in Nat
    /\ tasks \in [Tasks -> {"none", "idle", "waiting", "done"}]
    /\ ~released
    /\ Queued /\ Phased /\ Quiesced /\ Flushed

IInv == IF Alive THEN Living ELSE ReleasedWhenUnused /\ CleanExitIsComplete

-----------------------------------------------------------------------------
LEMMA InitHolds == DaemonInit => IInv
BY DEF DaemonInit, IInv, Alive, Living, Queued, Phased, Quiesced, Flushed, Tasks

(* Every step is one of a living daemon. *)
LEMMA OnlyTheLivingMove ==
    ASSUME DaemonNext PROVE Alive
BY DEF DaemonNext, SourceReceives, SourceEnds, Discover, BeginJob, EndJob, PipelineTurn, SyncTurn,
       PullEnds, Opened, Accepted, Processed, Closed, Works, Signal, BeginDrain, JoinTasks,
       DrainJobs, Flush, BeginClose, Forced, Expired, HardExit, DiskChanges, Ready

LEMMA NoOperation == <<>> \in Seq(Operations)
OBVIOUS

(* What the head of the queue tells of the phase. *)
LEMMA AtWork ==
    ASSUME Living, NEW operation, Works(operation)
    PROVE  /\ operation = "open" => drive = "starting" /\ queue' = <<>>
           /\ operation = "accept" =>
                 (drive = "running" \/ phase = "join") /\ queue' \in Seq(Operations)
           /\ operation = "process" =>
                 \/ (drive = "running" \/ phase = "join") /\ queue' \in Seq(Operations)
                 \/ phase = "flushing" /\ queue' = <<>>
           /\ operation = "close" => drive = "closing" /\ queue' = <<>>
<1>1. queue # <<>> /\ Head(queue) = operation /\ queue' = Tail(queue)
  BY DEF Works
<1>2. CASE drive = "starting"
  <2>1. queue = <<"open">> /\ Head(<<"open">>) = "open" /\ Tail(<<"open">>) = <<>>
    BY <1>2 DEF Living, Queued
  <2> QED BY <1>1, <1>2, <2>1
<1>3. CASE drive = "running" \/ phase = "join"
  <2>1. queue \in Seq(Operations)
    BY <1>3 DEF Living, Queued, Operations
  <2>2. operation \in Operations /\ queue' \in Seq(Operations)
    BY <1>1, <2>1
  <2> QED BY <1>3, <2>2 DEF Operations
<1>4. CASE phase \in {"flushing", "over", "raised"}
  <2>1. \/ phase = "flushing" /\ queue = <<"process">>
        \/ drive = "closing" /\ queue = <<"close">>
    <3>1. CASE drive = "closing"
      BY <1>4, <3>1 DEF Living, Queued, Phased
    <3>2. CASE drive # "closing"
      BY <1>1, <1>4, <3>2 DEF Living, Queued
    <3> QED BY <3>1, <3>2
  <2>2. Head(<<"process">>) = "process" /\ Tail(<<"process">>) = <<>>
        /\ Head(<<"close">>) = "close" /\ Tail(<<"close">>) = <<>>
    OBVIOUS
  <2> QED BY <1>1, <2>1, <2>2
<1>5. phase \in {"jobs", "flush"} => queue = <<>>
  BY DEF Living, Queued
<1>6. \/ drive \in {"starting", "running"}
      \/ phase \in {"join", "jobs", "flush", "flushing", "over", "raised"}
  BY DEF Living, Phased
<1> QED BY <1>1, <1>2, <1>3, <1>4, <1>5, <1>6

LEMMA SourceStep ==
    ASSUME Alive, Living, SourceReceives \/ SourceEnds \/ Discover
    PROVE  IInv'
BY DEF Living, Queued, Operations, Phased, Quiesced, Flushed, Settled, IInv, Alive, Tasks, Ready,
       SourceReceives, SourceEnds, Discover, lifecycle, services, workers, jobHost, stores,
       outside, FailServices, StopIntake

LEMMA TurnStep ==
    ASSUME Alive, Living, PipelineTurn \/ SyncTurn \/ PullEnds
    PROVE  IInv'
BY DEF Living, Queued, Operations, Phased, Quiesced, Flushed, Settled, IInv, Alive, Tasks, Ready,
       PipelineTurn, SyncTurn, PullEnds, lifecycle, services, workers, jobHost, stores,
       outside, FailServices, StopIntake

LEMMA JobStep ==
    ASSUME Alive, Living, BeginJob \/ EndJob \/ DiskChanges
    PROVE  IInv'
BY DEF Living, Queued, Phased, Quiesced, Flushed, Settled, IInv, Alive, Tasks, Ready,
       BeginJob, EndJob, DiskChanges, lifecycle, services, workers, jobHost, stores, outside

LEMMA OpenStep ==
    ASSUME Alive, Living, Opened
    PROVE  IInv'
<1>1. drive = "starting" /\ queue' = <<>>
  BY AtWork DEF Opened
<1>2. /\ drive' = "running" /\ phase' = phase /\ released' = released
      /\ pulling' = pulling /\ jobs' = jobs /\ outcome' = outcome
      /\ ~opened' => broken'
      /\ tasks' = [t \in Tasks |-> IF halted THEN "none" ELSE "idle"] \/ tasks' = tasks
  BY DEF Opened
<1>3. tasks' \in [Tasks -> {"none", "idle", "waiting", "done"}]
  BY <1>2 DEF Living
<1>4. phase = "none" /\ jobs \in Nat /\ ~released
  BY <1>1 DEF Living, Phased
<1>5. Queued' /\ Phased' /\ Quiesced' /\ Flushed'
  BY <1>1, <1>2, <1>4, NoOperation DEF Queued, Phased, Quiesced, Flushed
<1> QED BY <1>2, <1>3, <1>4, <1>5 DEF Living, IInv, Alive

LEMMA AcceptStep ==
    ASSUME Alive, Living, Accepted
    PROVE  IInv'
BY DEF Living, Queued, Phased, Quiesced, Flushed, Settled, IInv, Alive, Tasks,
       Accepted, Works, Done, lifecycle, FailServices, StopIntake

LEMMA ProcessStep ==
    ASSUME Alive, Living, Processed
    PROVE  IInv'
<1>1. \/ (drive = "running" \/ phase = "join") /\ queue' \in Seq(Operations)
      \/ phase = "flushing" /\ queue' = <<>>
  BY AtWork DEF Processed
<1>2. UNCHANGED <<drive, outcome, opened, released, pulling, jobs>>
  BY DEF Processed
<1>3. CASE phase # "flushing"
  <2>1. phase' = phase /\ broken' = broken
        /\ (tasks' = Done("pipeline") \/ tasks' = [tasks EXCEPT !["pipeline"] = "done"])
    BY <1>3 DEF Processed
  <2>2. tasks' \in [Tasks -> {"none", "idle", "waiting", "done"}]
    BY <2>1 DEF Living, Done, Tasks
  <2>3. Queued' /\ Phased' /\ Quiesced' /\ Flushed'
    BY <1>1, <1>2, <1>3, <2>1 DEF Living, Queued, Phased, Quiesced, Flushed
  <2> QED BY <1>2, <2>2, <2>3 DEF Living, IInv, Alive
<1>4. CASE phase = "flushing"
  <2>1. tasks' = tasks /\ queue' = <<>> /\ drive # "starting"
    BY <1>1, <1>4 DEF Living, Phased, Processed
  <2>2. \/ phase' = "over" /\ broken' = broken /\ Published(store')
        \/ phase' = "raised" /\ broken'
        \/ phase' = "flush" /\ broken' = broken
    <3>1. Published(Snapshot(Advanced)) = Published(Advanced)
      BY DEF Published, Snapshot
    <3>2. CASE store' = Advanced /\ FlushReturns(Snapshot(Advanced))
      <4>1. Settles(Snapshot(Advanced)) = "settled" => Published(store')
        BY <3>1, <3>2 DEF Settles
      <4> QED BY <3>2, <4>1 DEF FlushReturns, GiveUp
    <3>3. CASE GiveUp
      BY <3>3 DEF GiveUp
    <3> QED BY <1>4, <3>2, <3>3 DEF Processed
  <2>3. drive = "draining"
    BY <1>4 DEF Living, Phased
  <2>4. Queued' /\ Phased' /\ Quiesced' /\ Flushed'
    BY <1>2, <1>4, <2>1, <2>2, <2>3
       DEF Living, Queued, Phased, Quiesced, Flushed, Settled
  <2> QED BY <1>2, <2>1, <2>4 DEF Living, IInv, Alive
<1> QED BY <1>3, <1>4

LEMMA CloseStep ==
    ASSUME Alive, Living, Closed
    PROVE  IInv'
<1>1. drive = "closing" /\ queue' = <<>>
  BY AtWork DEF Closed
<1>2. phase \in {"over", "raised"} /\ ~pulling /\ jobs = 0 /\ Settled
  BY <1>1 DEF Living, Phased, Quiesced
<1>3. outcome' \in {"incomplete", "failed", "clean"}
  BY DEF Closed
<1>4. outcome' = "clean" => phase = "over" /\ ~broken
  BY <1>2 DEF Closed
<1>5. outcome' = "clean" => Published(store)
  BY <1>4 DEF Living, Flushed
<1>6. UNCHANGED <<pulling, jobs, tasks, store>>
  BY DEF Closed, jobHost, stores
<1>7. released'
  BY Zenon DEF Closed
<1> QED BY <1>1, <1>2, <1>3, <1>5, <1>6, <1>7
        DEF IInv, Alive, ReleasedWhenUnused, CleanExitIsComplete, Published, Settled

LEMMA SignalStep ==
    ASSUME Alive, Living, Signal
    PROVE  IInv'
<1>1. UNCHANGED <<drive, broken, outcome, phase, opened, released, tasks, queue, pulling,
                  jobs, store>>
  BY DEF Signal, workers, stores
<1> QED BY <1>1 DEF Living, Queued, Phased, Quiesced, Flushed, Settled, IInv, Alive, Published

LEMMA DrainBegins ==
    ASSUME Alive, Living, BeginDrain
    PROVE  IInv'
<1>1. /\ drive = "running" /\ drive' = "draining" /\ phase' = "join"
      /\ UNCHANGED <<outcome, opened, released, queue, pulling, jobs>>
      /\ broken => broken'
      /\ tasks' = [tasks EXCEPT !["source"] = IF @ = "none" THEN @ ELSE "done"]
  BY DEF BeginDrain, Ready
<1>2. tasks' \in [Tasks -> {"none", "idle", "waiting", "done"}]
  BY <1>1 DEF Living, Tasks
<1>3. Queued' /\ Phased' /\ Quiesced' /\ Flushed'
  BY <1>1 DEF Living, Queued, Phased, Quiesced, Flushed
<1> QED BY <1>1, <1>2, <1>3 DEF Living, IInv, Alive

LEMMA DrainStep ==
    ASSUME Alive, Living, JoinTasks \/ DrainJobs \/ Flush
    PROVE  IInv'
<1>1. /\ UNCHANGED <<drive, broken, outcome, opened, released, tasks, pulling, jobs, store>>
      /\ drive # "starting"
  BY DEF JoinTasks, DrainJobs, Flush, lifecycle, workers, jobHost, stores, Living, Phased
<1>2. CASE JoinTasks
  <2>1. phase = "join" /\ phase' = "jobs" /\ Settled /\ queue' = <<>> /\ ~pulling
    BY <1>2 DEF JoinTasks, Settled, workers
  <2> QED BY <1>1, <2>1 DEF Living, Queued, Phased, Quiesced, Flushed, Settled, IInv, Alive
<1>3. CASE DrainJobs
  <2>1. phase = "jobs" /\ phase' = "flush" /\ jobs = 0 /\ queue' = queue
    BY <1>3 DEF DrainJobs, workers
  <2> QED BY <1>1, <2>1 DEF Living, Queued, Phased, Quiesced, Flushed, Settled, IInv, Alive
<1>4. CASE Flush
  <2>1. phase = "flush" /\ queue = <<>>
    BY <1>4 DEF Flush, Living, Queued
  <2>2. drive = "draining"
    BY <1>1, <2>1 DEF Living, Phased
  <2>3. \/ opened /\ phase' = "flushing" /\ queue' = <<"process">>
        \/ ~opened /\ phase' = "over" /\ queue' = <<>>
    BY <1>4, <2>1 DEF Flush
  <2>4. ~opened => broken
    BY <1>1 DEF Living, Flushed
  <2> QED BY <1>1, <2>1, <2>2, <2>3, <2>4
          DEF Living, Queued, Phased, Quiesced, Flushed, Settled, IInv, Alive
<1> QED BY <1>2, <1>3, <1>4

LEMMA CloseBegins ==
    ASSUME Alive, Living, BeginClose
    PROVE  IInv'
<1>1. /\ drive = "draining" /\ phase \in {"over", "raised"}
      /\ UNCHANGED <<broken, phase, opened, released, tasks, pulling, jobs, store>>
  BY DEF BeginClose, services, jobHost, stores
<1>2. CASE drive' = "closing" /\ queue' = <<"close">> /\ outcome' = outcome
  BY <1>1, <1>2 DEF Living, Queued, Phased, Quiesced, Flushed, Settled, IInv, Alive, Published
<1>3. CASE outcome' = "incomplete"
  BY <1>1, <1>3 DEF Living, IInv, Alive, ReleasedWhenUnused, CleanExitIsComplete
<1> QED BY <1>2, <1>3 DEF BeginClose

LEMMA ExitStep ==
    ASSUME Alive, Living, Forced \/ Expired
    PROVE  IInv'
BY DEF Living, IInv, Alive, Forced, Expired, HardExit, services,
       ReleasedWhenUnused, CleanExitIsComplete

LEMMA StutterStep ==
    ASSUME IInv, UNCHANGED daemonVars
    PROVE  IInv'
BY DEF IInv, Alive, Living, Queued, Phased, Quiesced, Flushed, Settled, daemonVars, lifecycle,
       services, workers, jobHost, stores, outside, ReleasedWhenUnused, CleanExitIsComplete,
       Published

LEMMA NextStep ==
    ASSUME IInv, [DaemonNext]_daemonVars
    PROVE  IInv'
<1>1. CASE UNCHANGED daemonVars
  BY <1>1, StutterStep
<1>2. CASE DaemonNext
  <2>1. Alive /\ Living
    BY <1>2, OnlyTheLivingMove DEF IInv
  <2> QED BY <1>2, <2>1, SourceStep, TurnStep, JobStep, OpenStep, AcceptStep, ProcessStep,
             CloseStep, SignalStep, DrainBegins, DrainStep, CloseBegins, ExitStep DEF DaemonNext
<1> QED BY <1>1, <1>2

-----------------------------------------------------------------------------
(* The invariant holds.                                                    *)
THEOREM Invariance == DaemonSpec => []IInv
<1>1. DaemonInit => IInv
  BY InitHolds
<1>2. IInv /\ [DaemonNext]_daemonVars => IInv'
  BY NextStep
<1> QED BY <1>1, <1>2, PTL DEF DaemonSpec

(* However a stop, a signal or a fault interleaves with the workers: the     *)
(* stores are closed when no operation, job or pull is left that uses them   *)
(* (Services.close).                                                         *)
THEOREM ReleaseIsSafe == DaemonSpec => []ReleasedWhenUnused
<1>1. IInv => ReleasedWhenUnused
  BY DEF IInv, Alive, Living, ReleasedWhenUnused
<1> QED BY <1>1, Invariance, PTL

(* An exit that is reported clean leaves no record unpublished, those of     *)
(* cancelled tasks and of earlier processes included (drain, _finish).       *)
THEOREM CleanExitIsTrue == DaemonSpec => []CleanExitIsComplete
<1>1. IInv => CleanExitIsComplete
  BY DEF IInv, Alive, Living, CleanExitIsComplete
<1> QED BY <1>1, Invariance, PTL

(* An execution of a model worker: what exists in each phase of the        *)
(* coroutine, and what the cleanup has ended by the time it is at a step.  *)

WorkerPhases == {"verifying", "copying", "commanding", "spawning", "draining", "cleaning",
                 "returned"}
StopUnconfirmed == {"killing, unconfirmed", "discarding, unconfirmed"}
PastKilling == {"discarding", "discarding, unconfirmed", "done", "failed"}
CleanupPhases == {"none", "stopping", "killing"} \cup StopUnconfirmed \cup PastKilling

WorkerTypes ==
    /\ caller \in WorkerPhases /\ hit \in BOOLEAN
    /\ client \in {"none", "starting", "unborn", "running", "waiting", "exited", "killed"}
    /\ unit \in {"absent", "active", "gone"}
    /\ cleanup \in CleanupPhases

(* The staging directory and the thread that writes into it. *)
Staged ==
    /\ copying = "running" => caller = "copying"
    /\ caller = "returned" => directory # "present"

(* The client exists from the spawn on, the unit from its request on. *)
Launched ==
    /\ client \in {"none", "starting", "unborn", "running"} => unit = "absent"
    /\ caller \in {"verifying", "copying", "commanding"} => client = "none"
    /\ client \in {"starting", "unborn"} => caller \in {"spawning", "returned"}
    /\ caller = "spawning" => client # "none"
    /\ caller \in {"draining", "cleaning"} => client \notin {"none", "starting", "unborn"}

(* Only draining leaves pipes open, and only _cleanup ends what was spawned. *)
CleanedUp ==
    /\ cleanup # "none" <=> caller = "cleaning" \/ (caller = "returned" /\ client \notin {"none", "unborn"})
    /\ caller = "returned" => cleanup \in {"none", "done", "failed"}
    /\ reading = "open" => caller \in {"draining", "cleaning"} /\ cleanup \notin PastKilling
    /\ cleanup \in PastKilling => client \in {"exited", "killed"}

(* What may keep a unit alive behind the cleanup. *)
UnitExcused ==
    /\ cleanup \in StopUnconfirmed => excuse # "none"
    /\ cleanup \notin {"none", "stopping"} /\ unit = "active" => excuse # "none"

AnswerEarned ==
    answer = "response" =>
        /\ caller \in {"cleaning", "returned"} /\ pipe = "whole" /\ unit = "gone"
        /\ caller = "returned" => ~hit

WorkerInv == WorkerTypes /\ Staged /\ Launched /\ CleanedUp /\ UnitExcused /\ AnswerEarned

-----------------------------------------------------------------------------
LEMMA WorkerInitHolds == WorkerInit => WorkerInv
BY DEF WorkerInit, WorkerInv, WorkerTypes, Staged, Launched, CleanedUp,
   UnitExcused, AnswerEarned, WorkerPhases, CleanupPhases, StopUnconfirmed,
   PastKilling

(* systemd-run, the manager and the unit, and a cancellation. *)
LEMMA SystemdStep ==
    ASSUME WorkerInv,
           SubmitUnit \/ UnitWrites \/ UnitEnds \/ ClientFails \/ CancelWorker
    PROVE  WorkerInv'
<1>1. CASE SubmitUnit
  BY <1>1 DEF WorkerInv, WorkerTypes, Staged, Launched, CleanedUp, UnitExcused,
     AnswerEarned, WorkerPhases, CleanupPhases, StopUnconfirmed, PastKilling,
     systemd, SubmitUnit
<1>2. CASE UnitWrites
  BY <1>2 DEF WorkerInv, WorkerTypes, Staged, Launched, CleanedUp, UnitExcused,
     AnswerEarned, WorkerPhases, CleanupPhases, StopUnconfirmed, PastKilling,
     systemd, UnitWrites
<1>3. CASE UnitEnds
  BY <1>3 DEF WorkerInv, WorkerTypes, Staged, Launched, CleanedUp, UnitExcused,
     AnswerEarned, WorkerPhases, CleanupPhases, StopUnconfirmed, PastKilling,
     systemd, UnitEnds
<1>4. CASE ClientFails
  BY <1>4 DEF WorkerInv, WorkerTypes, Staged, Launched, CleanedUp, UnitExcused,
     AnswerEarned, WorkerPhases, CleanupPhases, StopUnconfirmed, PastKilling,
     systemd, ClientFails
<1>5. CASE CancelWorker
  BY <1>5 DEF WorkerInv, WorkerTypes, Staged, Launched, CleanedUp, UnitExcused,
     AnswerEarned, WorkerPhases, CleanupPhases, StopUnconfirmed, PastKilling,
     systemd, CancelWorker
<1> QED BY <1>1, <1>2, <1>3, <1>4, <1>5

(* The coroutine up to the launch, and the thread that copies the model. *)
LEMMA LaunchStep ==
    ASSUME WorkerInv,
           VerifyWorkload \/ SnapshotEnds \/ JoinSnapshot \/ BuildCommand \/ SpawnEnds \/ JoinSpawn
    PROVE  WorkerInv'
<1>1. CASE VerifyWorkload
  BY <1>1 DEF WorkerInv, WorkerTypes, Staged, Launched, CleanedUp, UnitExcused,
     AnswerEarned, WorkerPhases, CleanupPhases, StopUnconfirmed, PastKilling,
     systemd, VerifyWorkload, Leave
<1>2. CASE SnapshotEnds
  BY <1>2 DEF WorkerInv, WorkerTypes, Staged, Launched, CleanedUp, UnitExcused,
     AnswerEarned, WorkerPhases, CleanupPhases, StopUnconfirmed, PastKilling,
     systemd, SnapshotEnds
<1>3. CASE JoinSnapshot
  BY <1>3 DEF WorkerInv, WorkerTypes, Staged, Launched, CleanedUp, UnitExcused,
     AnswerEarned, WorkerPhases, CleanupPhases, StopUnconfirmed, PastKilling,
     systemd, JoinSnapshot, Leave
<1>4. CASE BuildCommand
  BY <1>4 DEF WorkerInv, WorkerTypes, Staged, Launched, CleanedUp, UnitExcused,
     AnswerEarned, WorkerPhases, CleanupPhases, StopUnconfirmed, PastKilling,
     systemd, BuildCommand, Leave
<1>5. CASE SpawnEnds
  BY <1>5 DEF WorkerInv, WorkerTypes, Staged, Launched, CleanedUp, UnitExcused,
     AnswerEarned, WorkerPhases, CleanupPhases, StopUnconfirmed, PastKilling,
     systemd, SpawnEnds
<1>6. CASE JoinSpawn
  BY <1>6 DEF WorkerInv, WorkerTypes, Staged, Launched, CleanedUp, UnitExcused,
     AnswerEarned, WorkerPhases, CleanupPhases, StopUnconfirmed, PastKilling,
     systemd, JoinSpawn, Leave
<1> QED BY <1>1, <1>2, <1>3, <1>4, <1>5, <1>6

(* The pipes are drained. *)
LEMMA DrainPhaseStep ==
    ASSUME WorkerInv,
           Respond \/ RejectAnswer \/ TimeOut \/ CancelDrain
    PROVE  WorkerInv'
<1>1. CASE Respond
  BY <1>1 DEF WorkerInv, WorkerTypes, Staged, Launched, CleanedUp, UnitExcused,
     AnswerEarned, WorkerPhases, CleanupPhases, StopUnconfirmed, PastKilling,
     systemd, Respond, EndDrain
<1>2. CASE RejectAnswer
  BY <1>2 DEF WorkerInv, WorkerTypes, Staged, Launched, CleanedUp, UnitExcused,
     AnswerEarned, WorkerPhases, CleanupPhases, StopUnconfirmed, PastKilling,
     systemd, RejectAnswer, EndDrain
<1>3. CASE TimeOut
  BY <1>3 DEF WorkerInv, WorkerTypes, Staged, Launched, CleanedUp, UnitExcused,
     AnswerEarned, WorkerPhases, CleanupPhases, StopUnconfirmed, PastKilling,
     systemd, TimeOut, EndDrain
<1>4. CASE CancelDrain
  BY <1>4 DEF WorkerInv, WorkerTypes, Staged, Launched, CleanedUp, UnitExcused,
     AnswerEarned, WorkerPhases, CleanupPhases, StopUnconfirmed, PastKilling,
     systemd, CancelDrain, EndDrain
<1> QED BY <1>1, <1>2, <1>3, <1>4

(* The cleanup, and the return. *)
LEMMA CleanupStep ==
    ASSUME WorkerInv,
           StopUnit \/ KillClient \/ DrainPipes \/ JoinCleanup
    PROVE  WorkerInv'
<1>1. CASE StopUnit
  BY <1>1 DEF WorkerInv, WorkerTypes, Staged, Launched, CleanedUp, UnitExcused,
     AnswerEarned, WorkerPhases, CleanupPhases, StopUnconfirmed, PastKilling,
     systemd, StopUnit
<1>2. CASE KillClient
  BY <1>2 DEF WorkerInv, WorkerTypes, Staged, Launched, CleanedUp, UnitExcused,
     AnswerEarned, WorkerPhases, CleanupPhases, StopUnconfirmed, PastKilling,
     systemd, KillClient
<1>3. CASE DrainPipes
  BY <1>3 DEF WorkerInv, WorkerTypes, Staged, Launched, CleanedUp, UnitExcused,
     AnswerEarned, WorkerPhases, CleanupPhases, StopUnconfirmed, PastKilling,
     systemd, DrainPipes
<1>4. CASE JoinCleanup
  BY <1>4 DEF WorkerInv, WorkerTypes, Staged, Launched, CleanedUp, UnitExcused,
     AnswerEarned, WorkerPhases, CleanupPhases, StopUnconfirmed, PastKilling,
     systemd, JoinCleanup, Leave
<1> QED BY <1>1, <1>2, <1>3, <1>4

LEMMA WorkerStep ==
    ASSUME WorkerInv, [WorkerNext]_workerVars
    PROVE  WorkerInv'
<1>1. CASE UNCHANGED workerVars
  BY <1>1 DEF WorkerInv, workerVars, systemd, WorkerTypes, Staged, Launched,
     CleanedUp, UnitExcused, AnswerEarned, WorkerPhases, CleanupPhases,
     StopUnconfirmed, PastKilling
<1>2. CASE WorkerNext
  BY <1>2, SystemdStep, LaunchStep, DrainPhaseStep, CleanupStep DEF WorkerNext, WorkerSteps
<1> QED BY <1>1, <1>2

-----------------------------------------------------------------------------
(* When an execution has returned, whatever the moment and the number of     *)
(* cancellations, nothing of it goes on, save a unit whose stop the manager  *)
(* did not confirm or that it started later (launcher.py, _run, _cleanup).   *)
THEOREM ReturnIsQuiet == WorkerSpec => []QuietAfterReturn
<1>1. WorkerInit => WorkerInv
  BY WorkerInitHolds
<1>2. WorkerInv /\ [WorkerNext]_workerVars => WorkerInv'
  BY WorkerStep
<1>3. WorkerInv => QuietAfterReturn
  BY DEF WorkerInv, QuietAfterReturn, WorkerTypes, Staged, Launched, CleanedUp,
     UnitExcused, AnswerEarned, WorkerPhases, CleanupPhases, StopUnconfirmed,
     PastKilling
<1> QED BY <1>1, <1>2, <1>3, PTL DEF WorkerSpec
=============================================================================
