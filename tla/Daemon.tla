------------------------------- MODULE Daemon -------------------------------
(***************************************************************************)
(* The collector's process: Daemon (daemon/runtime.py) drives Services     *)
(* (daemon/components.py) through start, run, drain and close under a      *)
(* shutdown deadline.  Services owns three tasks of the event loop (source, *)
(* pipeline, synchronization), one store worker that runs submitted         *)
(* operations in order, one synchronization worker, and a job host with its *)
(* own loop.  Cancelling a task does not stop the operation it waits for.   *)
(* Each action is what runs between two awaits, or one operation of a       *)
(* worker.  Initial states have whatever an earlier process left stored.    *)
(***************************************************************************)
EXTENDS Naturals, Sequences, FiniteSets

CONSTANTS
    MaxRecords,  \* bound: records in the stores
    Batch,       \* records one _process normalizes and publishes at most
    MaxJobs,     \* bound: jobs executing at once
    MaxSignals,  \* bound: signals, of the operator or of a finite host's timer
    MaxFaults,   \* bound: operations that fail
    MaxShifts    \* bound: changes of the free space of the disk

ASSUME DaemonAssumption ==
    /\ {MaxRecords, MaxJobs, MaxSignals, MaxFaults, MaxShifts} \subseteq Nat
    /\ Batch \in Nat \ {0}

VARIABLES
    drive,       \* Daemon._drive: starting, running, draining, closing or ended
    stopping,    \* Daemon._stop
    force,       \* Daemon._force
    broken,      \* Daemon._failed
    outcome,     \* ShutdownOutcome: none, clean, failed or incomplete
    halted,      \* Services._stop
    failed,      \* Services._state is FAILED
    tasks,       \* task -> none, idle, waiting or done
    queue,       \* operations submitted to the store worker, in order
    pulling,     \* the synchronization worker is in _pull_once
    phase,       \* Services.drain: none, join, jobs, flush, flushing, over or raised
    drained,     \* Services._drained
    opened,      \* _open got as far as the coordinator
    released,    \* _resources.close and the end of the job host
    jobs,        \* executions owned by the job host
    jobsClosed,  \* _JobHost._closing
    snapshot,    \* _store_snapshot
    store,       \* what is committed, normalized and published
    available,   \* external: free bytes of the state directory
    instruments, \* _instruments knows the configured instrument
    signals, faults

lifecycle  == <<drive, stopping, force, broken, outcome>>
services   == <<halted, failed, phase, drained, opened, released>>
workers    == <<tasks, queue, pulling>>
jobHost    == <<jobs, jobsClosed>>
stores     == <<snapshot, store>>
outside    == <<available, instruments, signals, faults>>
daemonVars == <<lifecycle, services, workers, jobHost, stores, outside>>

Tasks == {"source", "pipeline", "sync"}
Least(a, b) == IF a <= b THEN a ELSE b

Alive == outcome = "none"

Snapshot(s) == [committed |-> s.committed, normalized |-> s.normalized,
                published |-> s.published, available |-> available]

Published(s) == s.normalized = s.committed /\ s.published = s.normalized

Fault == faults < MaxFaults /\ faults' = faults + 1

-----------------------------------------------------------------------------
(* Services: intake *)

(* stop_intake and _fail *)
StopIntake == halted' = TRUE /\ jobsClosed' = TRUE
FailServices == failed' = TRUE /\ StopIntake

Ready == Alive /\ drive = "running"

(* _run_source: an envelope goes to the spool through the store worker. *)
SourceReceives ==
    /\ Ready /\ tasks["source"] = "idle" /\ ~halted /\ instruments
    /\ store.committed + Len(queue) < MaxRecords
    /\ queue' = Append(queue, "accept")
    /\ tasks' = [tasks EXCEPT !["source"] = "waiting"]
    /\ UNCHANGED <<lifecycle, services, pulling, jobHost, stores, outside>>

(* _run_source ends by itself: its history is complete, or its configuration *)
(* is refused, which isolates it and lets the rest go on; or an error in it  *)
(* fails the services.                                                       *)
SourceEnds ==
    /\ Ready /\ tasks["source"] = "idle" /\ ~halted
    /\ tasks' = [tasks EXCEPT !["source"] = "done"]
    /\ \/ UNCHANGED <<failed, halted, jobsClosed, faults>>
       \/ FailServices /\ Fault
    /\ UNCHANGED <<lifecycle, phase, drained, opened, released, queue, pulling, jobs,
                   stores, available, instruments, signals>>

Discover ==
    /\ Ready /\ tasks["source"] = "idle" /\ ~halted /\ ~instruments
    /\ instruments' = TRUE
    /\ UNCHANGED <<lifecycle, services, workers, jobHost, stores, available, signals, faults>>

(* _pipeline_loop *)
PipelineTurn ==
    /\ Alive /\ tasks["pipeline"] = "idle"
    /\ IF halted
       THEN tasks' = [tasks EXCEPT !["pipeline"] = "done"] /\ UNCHANGED queue
       ELSE /\ tasks' = [tasks EXCEPT !["pipeline"] = "waiting"]
            /\ queue' = Append(queue, "process")
    /\ UNCHANGED <<lifecycle, services, pulling, jobHost, stores, outside>>

(* _sync_loop *)
SyncTurn ==
    /\ Alive /\ tasks["sync"] = "idle"
    /\ IF halted
       THEN tasks' = [tasks EXCEPT !["sync"] = "done"] /\ UNCHANGED pulling
       ELSE /\ tasks' = [tasks EXCEPT !["sync"] = "waiting"]
            /\ pulling' = TRUE
    /\ UNCHANGED <<lifecycle, services, queue, jobHost, stores, outside>>

(* _pull_once ends: Fault.SYNC lets the loop go on, a storage fault does not. *)
PullEnds ==
    /\ Alive /\ pulling
    /\ pulling' = FALSE
    /\ \/ /\ tasks' = [tasks EXCEPT !["sync"] = "idle"]
          /\ UNCHANGED <<failed, halted, jobsClosed, faults>>
       \/ /\ tasks' = [tasks EXCEPT !["sync"] = "done"]
          /\ FailServices /\ Fault
    /\ UNCHANGED <<lifecycle, phase, drained, opened, released, queue, jobs, stores,
                   available, instruments, signals>>

(* submit_job, run_job through _JobHost._call *)
BeginJob ==
    /\ Ready /\ ~halted /\ ~jobsClosed
    /\ jobs < MaxJobs
    /\ jobs' = jobs + 1
    /\ UNCHANGED <<lifecycle, services, workers, jobsClosed, stores, outside>>

EndJob ==
    /\ Alive /\ jobs > 0
    /\ jobs' = jobs - 1
    /\ UNCHANGED <<lifecycle, services, workers, jobsClosed, stores, outside>>

-----------------------------------------------------------------------------
(* The store worker: _work, _open, _spool_accept, _process, _close_owner *)

Done(task) == [tasks EXCEPT ![task] = IF @ = "waiting" THEN "idle" ELSE @]
Works(operation) == Alive /\ queue # <<>> /\ Head(queue) = operation /\ queue' = Tail(queue)

(* start: tasks are created unless a stop came first. *)
Opened ==
    /\ Works("open")
    /\ drive' = "running"
    /\ \/ /\ opened' = TRUE
          /\ snapshot' = Snapshot(store)
          /\ tasks' = [t \in Tasks |-> IF halted THEN "none" ELSE "idle"]
          /\ UNCHANGED <<broken, failed, halted, jobsClosed, faults>>
       \/ /\ Fault /\ FailServices /\ broken' = TRUE
          /\ opened' \in BOOLEAN
          /\ UNCHANGED <<snapshot, tasks>>
    /\ UNCHANGED <<stopping, force, outcome, phase, drained, released, pulling, jobs,
                   store, available, instruments, signals>>

(* The record is committed even when the task that waited was cancelled; an *)
(* error then reaches nobody.                                               *)
Accepted ==
    /\ Works("accept")
    /\ \/ /\ store' = [store EXCEPT !.committed = @ + 1]
          /\ tasks' = Done("source")
          /\ UNCHANGED <<failed, halted, jobsClosed, faults>>
       \/ /\ Fault
          /\ IF tasks["source"] = "waiting"
             THEN FailServices /\ tasks' = [tasks EXCEPT !["source"] = "done"]
             ELSE UNCHANGED <<failed, halted, jobsClosed, tasks>>
          /\ UNCHANGED store
    /\ UNCHANGED <<lifecycle, phase, drained, opened, released, pulling, jobs, snapshot,
                   available, instruments, signals>>

(* One _process: without the instrument nothing is normalized, and what is   *)
(* not normalized is not published.                                          *)
Advanced ==
    LET normalized == IF instruments THEN Least(store.committed, store.normalized + Batch)
                      ELSE store.normalized
    IN  [store EXCEPT !.normalized = normalized,
                      !.published = Least(normalized, store.published + Batch)]

(* Mutant: the flush is over once all that is normalized is published. *)
SettlesOnPublished(next) ==
    IF next.published = next.normalized THEN "settled"
    ELSE IF next = snapshot THEN "stuck" ELSE "again"

(* Mutant: the flush goes on although nothing moves. *)
SettlesPatiently(next) == IF Published(next) THEN "settled" ELSE "again"

(* _flush_committed, after each _process: an error or no progress gives up. *)
Settles(next) ==
    IF Published(next) THEN "settled" ELSE IF next = snapshot THEN "stuck" ELSE "again"

GiveUp == phase' = "raised" /\ drained' = TRUE /\ FailServices /\ broken' = TRUE

FlushReturns(next) ==
    CASE Settles(next) = "settled" ->
           /\ phase' = "over" /\ drained' = TRUE
           /\ UNCHANGED <<failed, halted, jobsClosed, broken>>
      [] Settles(next) = "stuck" -> GiveUp
      [] OTHER ->
           /\ phase' = "flush"
           /\ UNCHANGED <<drained, failed, halted, jobsClosed, broken>>

Processed ==
    /\ Works("process")
    /\ \/ /\ store' = Advanced
          /\ snapshot' = Snapshot(Advanced)
          /\ IF phase = "flushing"
             THEN FlushReturns(Snapshot(Advanced)) /\ UNCHANGED tasks
             ELSE tasks' = Done("pipeline")
                  /\ UNCHANGED <<phase, drained, failed, halted, jobsClosed, broken>>
          /\ UNCHANGED faults
       \/ /\ Fault
          /\ IF phase = "flushing"
             THEN GiveUp /\ UNCHANGED tasks
             ELSE /\ FailServices
                  /\ tasks' = [tasks EXCEPT !["pipeline"] = "done"]
                  /\ UNCHANGED <<phase, drained, broken>>
          /\ UNCHANGED stores
    /\ UNCHANGED <<drive, stopping, force, outcome, opened, released, pulling, jobs,
                   available, instruments, signals>>

-----------------------------------------------------------------------------
(* Daemon: signals, phases, the outcome *)

RequestStop ==
    IF stopping
    THEN force' = TRUE /\ UNCHANGED <<stopping, halted, jobsClosed>>
    ELSE stopping' = TRUE /\ StopIntake /\ UNCHANGED force

Signal ==
    /\ Alive /\ signals < MaxSignals
    /\ signals' = signals + 1
    /\ RequestStop
    /\ UNCHANGED <<drive, broken, outcome, failed, phase, drained, opened, released, workers,
                   jobs, stores, available, instruments, faults>>

(* _drive leaves its loop when a stop is requested or health says FAILED;   *)
(* drain stops intake again and cancels the source task, which no longer    *)
(* waits for what it submitted.                                             *)
BeginDrain ==
    /\ Ready
    /\ stopping \/ failed
    /\ drive' = "draining"
    /\ stopping' = TRUE /\ StopIntake
    /\ broken' = (broken \/ failed)
    /\ tasks' = [tasks EXCEPT !["source"] = IF @ = "none" THEN @ ELSE "done"]
    /\ phase' = "join"
    /\ UNCHANGED <<force, outcome, failed, drained, opened, released, queue, pulling, jobs,
                   stores, outside>>

(* _join_tasks: the tasks, then every operation still with a worker *)
JoinTasks ==
    /\ Alive /\ phase = "join"
    /\ \A t \in Tasks : tasks[t] \in {"none", "done"}
    /\ queue = <<>> /\ ~pulling
    /\ phase' = "jobs"
    /\ UNCHANGED <<lifecycle, halted, failed, drained, opened, released, workers, jobHost,
                   stores, outside>>

(* Mutant: the job host does not wait for its owners. *)
DrainJobsAtOnce ==
    /\ Alive /\ phase = "jobs"
    /\ phase' = "flush"
    /\ UNCHANGED <<lifecycle, halted, failed, drained, opened, released, workers, jobHost,
                   stores, outside>>

(* _JobHost.drain: the owners settle. *)
DrainJobs ==
    /\ Alive /\ phase = "jobs"
    /\ jobs = 0
    /\ phase' = "flush"
    /\ UNCHANGED <<lifecycle, halted, failed, drained, opened, released, workers, jobHost,
                   stores, outside>>

Flush ==
    /\ Alive /\ phase = "flush"
    /\ IF opened
       THEN phase' = "flushing" /\ queue' = Append(queue, "process") /\ UNCHANGED drained
       ELSE phase' = "over" /\ drained' = TRUE /\ UNCHANGED queue
    /\ UNCHANGED <<lifecycle, halted, failed, opened, released, tasks, pulling,
                   jobHost, stores, outside>>

(* close refuses while anything is pending; it ends the source, the          *)
(* synchronization binding, the job host and the stores.                     *)
BeginClose ==
    /\ Alive /\ drive = "draining" /\ phase \in {"over", "raised"} /\ ~force
    /\ IF drained /\ queue = <<>> /\ ~pulling
       THEN drive' = "closing" /\ queue' = <<"close">> /\ UNCHANGED outcome
       ELSE drive' = "ended" /\ outcome' = "incomplete" /\ UNCHANGED queue
    /\ UNCHANGED <<stopping, force, broken, services, tasks, pulling, jobHost, stores, outside>>

(* _finish: complete only if neither phase raised; a fault fails the exit. *)
Closed ==
    /\ Works("close")
    /\ released' = TRUE
    /\ drive' = "ended"
    /\ broken' = (broken \/ failed)
    /\ outcome' = IF phase = "raised" THEN "incomplete"
                  ELSE IF broken' THEN "failed" ELSE "clean"
    /\ UNCHANGED <<stopping, force, halted, failed, phase, drained, opened, tasks, pulling,
                   jobHost, stores, outside>>

(* _phase returns None: a second signal or the deadline; the foreground host *)
(* then ends the process with whatever is still running.                     *)
HardExit ==
    /\ Alive
    /\ drive' = "ended" /\ outcome' = "incomplete"
    /\ UNCHANGED <<stopping, force, broken, services, workers, jobHost, stores,
                   available, instruments, signals>>

Forced  == force /\ drive # "running" /\ HardExit /\ UNCHANGED faults
Expired == (stopping \/ drive = "starting") /\ HardExit /\ Fault

-----------------------------------------------------------------------------
DiskChanges ==
    /\ Alive /\ available < MaxShifts
    /\ available' = available + 1
    /\ UNCHANGED <<lifecycle, services, workers, jobHost, stores, instruments, signals, faults>>

DaemonInit ==
    /\ drive = "starting" /\ stopping = FALSE /\ force = FALSE /\ broken = FALSE
    /\ outcome = "none"
    /\ halted = FALSE /\ failed = FALSE /\ phase = "none" /\ drained = FALSE
    /\ released = FALSE /\ opened = FALSE
    /\ tasks = [t \in Tasks |-> "none"] /\ queue = <<"open">> /\ pulling = FALSE
    /\ jobs = 0 /\ jobsClosed = FALSE
    /\ \E c, n, p \in 0 .. MaxRecords :
         /\ p <= n /\ n <= c
         /\ store = [committed |-> c, normalized |-> n, published |-> p]
    /\ snapshot = [committed |-> 0, normalized |-> 0, published |-> 0, available |-> 0]
    /\ available = 0 /\ instruments \in BOOLEAN
    /\ signals = 0 /\ faults = 0

DaemonNext ==
    \/ SourceReceives \/ SourceEnds \/ Discover \/ BeginJob \/ EndJob
    \/ PipelineTurn \/ SyncTurn \/ PullEnds
    \/ Opened \/ Accepted \/ Processed \/ Closed
    \/ Signal \/ BeginDrain \/ JoinTasks \/ DrainJobs \/ Flush \/ BeginClose
    \/ Forced \/ Expired \/ DiskChanges

DaemonSpec == DaemonInit /\ [][DaemonNext]_daemonVars

(* A worker runs what it is given, pulls and jobs end (each has its own      *)
(* deadline), the event loop runs the task that is ready.                    *)
DaemonFairness ==
    /\ WF_daemonVars(Opened \/ Accepted \/ Processed \/ Closed)
    /\ WF_daemonVars(PullEnds) /\ WF_daemonVars(EndJob)
    /\ WF_daemonVars(PipelineTurn) /\ WF_daemonVars(SyncTurn)
    /\ WF_daemonVars(BeginDrain \/ JoinTasks \/ DrainJobs \/ Flush \/ BeginClose \/ Forced)

DaemonFairSpec == DaemonSpec /\ DaemonFairness

-----------------------------------------------------------------------------
(* Properties *)

(* A clean exit means that all that was stored, by the task that was         *)
(* cancelled or by an earlier process, is normalized and published, and that *)
(* nothing the services own still runs.                                      *)
CleanExitIsComplete ==
    outcome = "clean" =>
        /\ Published(store)
        /\ released /\ queue = <<>> /\ ~pulling /\ jobs = 0
        /\ \A t \in Tasks : tasks[t] \in {"none", "done"}

(* The stores and the job host are released only when no operation, job or   *)
(* pull can reach them any more, however the daemon came to stop.            *)
ReleasedWhenUnused ==
    released => queue = <<>> /\ ~pulling /\ jobs = 0

(* A stop, or a failure, ends the daemon by itself: draining gets everything *)
(* published or finds that it cannot, without help from the deadline.        *)
StopEnds == (stopping \/ failed) ~> ~Alive
=============================================================================
