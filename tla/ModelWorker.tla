---------------------------- MODULE ModelWorker ----------------------------
(* One execution of a fixed workload in a transient systemd unit            *)
(* (model_worker/launcher.py, CPUWorker): the coroutine that prepares the    *)
(* staging directory, spawns systemd-run, drains its pipes and cleans up;    *)
(* the thread that copies the model into staging; and, as far as the         *)
(* launcher relies on them, the systemd-run client and the unit.  The        *)
(* operator may cancel the coroutine at any of its awaits, more than once.   *)
EXTENDS Integers

CONSTANTS
    HasModel,       \* whether a model must be copied into staging
    MaxCancels,     \* bound: cancellations of one execution
    MaxMishaps       \* bound: failures of the manager, the copy and the spawn

ASSUME WorkerAssumption ==
    HasModel \in BOOLEAN /\ MaxCancels \in Nat /\ MaxMishaps \in Nat

VARIABLES
    caller,         \* where the coroutine is
    cancels,        \* cancellations sent so far
    hit,            \* one of them has been delivered to the coroutine
    answer,         \* what it returns: none, response, failed or cancelled
    copying,        \* the snapshot thread
    directory,      \* the temporary staging directory
    client,         \* systemd-run
    unit,           \* the transient unit
    pipe,           \* what the unit has written so far
    reading,        \* the drain tasks
    cleanup,        \* the cleanup task
    mishaps, excuse \* bound; why the unit may outlive the cleanup

workerVars == <<caller, cancels, hit, answer, copying, directory, client, unit, pipe,
                reading, cleanup, mishaps, excuse>>

systemd == <<client, unit, pipe>>

WorkerInit ==
    /\ caller = "verifying" /\ cancels = 0 /\ hit = FALSE /\ answer = "none"
    /\ copying = "none" /\ directory = "absent"
    /\ client = "none" /\ unit = "absent" /\ pipe = "empty"
    /\ reading = "none" /\ cleanup = "none" /\ mishaps = 0 /\ excuse = "none"

Mishap == mishaps < MaxMishaps /\ mishaps' = mishaps + 1

-----------------------------------------------------------------------------
(* The client, the manager and the unit.                                     *)

(* systemd-run asks the manager for the unit; the manager starts it.         *)
SubmitUnit ==
    /\ client = "running" /\ unit = "absent"
    /\ client' = "waiting" /\ unit' = "active"
    /\ excuse' = IF cleanup \in {"none", "stopping"} THEN excuse ELSE "late"
    /\ UNCHANGED <<caller, cancels, hit, answer, copying, directory, pipe, reading,
                   cleanup, mishaps>>

(* The unit answers, answers too much, or is killed by a limit of its own    *)
(* (RuntimeMaxSec ends every unit in the end).                               *)
UnitWrites ==
    /\ unit = "active" /\ pipe = "empty" /\ pipe' \in {"whole", "malformed", "flood"}
    /\ UNCHANGED <<caller, cancels, hit, answer, copying, directory, client, unit,
                   reading, cleanup, mishaps, excuse>>

UnitEnds ==
    /\ unit = "active" /\ unit' = "gone"
    /\ client' = IF client = "waiting" THEN "exited" ELSE client
    /\ UNCHANGED <<caller, cancels, hit, answer, copying, directory, pipe, reading,
                   cleanup, mishaps, excuse>>

(* systemd-run fails before it gets to ask (no permission, no bus).          *)
ClientFails ==
    /\ client = "running" /\ Mishap /\ client' = "exited"
    /\ UNCHANGED <<caller, cancels, hit, answer, copying, directory, unit, pipe,
                   reading, cleanup, excuse>>

-----------------------------------------------------------------------------
(* Cancellation is delivered at the coroutine's next await.                  *)

CancelWorker ==
    /\ caller \notin {"returned", "verifying"} /\ cancels < MaxCancels
    /\ cancels' = cancels + 1 /\ hit' = TRUE
    /\ UNCHANGED <<caller, answer, copying, directory, systemd, reading, cleanup,
                   mishaps, excuse>>

(* _run's handlers and the end of TemporaryDirectory's block.                *)
Leave(outcome) ==
    /\ caller' = "returned" /\ answer' = outcome
    /\ directory' = IF directory = "present" THEN "removed" ELSE directory

-----------------------------------------------------------------------------
(* The coroutine up to the launch.                                           *)

(* The workload and the host are checked before anything is created.         *)
VerifyWorkload ==
    /\ caller = "verifying"
    /\ \/ /\ Mishap /\ Leave("failed") /\ UNCHANGED copying
       \/ /\ directory' = "present" /\ UNCHANGED <<mishaps, answer>>
          /\ IF HasModel THEN caller' = "copying" /\ copying' = "running"
             ELSE caller' = "commanding" /\ UNCHANGED copying
    /\ UNCHANGED <<cancels, hit, systemd, reading, cleanup, excuse>>

SnapshotEnds ==
    /\ copying = "running"
    /\ \/ copying' = "done" /\ UNCHANGED mishaps
       \/ copying' = "failed" /\ Mishap
    /\ UNCHANGED <<caller, cancels, hit, answer, directory, systemd, reading, cleanup,
                   excuse>>

(* Mutant: a cancelled caller leaves the thread behind. *)
LeaveSnapshot ==
    /\ caller = "copying"
    /\ IF hit THEN Leave("cancelled")
       ELSE /\ copying # "running"
            /\ IF copying = "failed" THEN Leave("failed")
               ELSE caller' = "commanding" /\ UNCHANGED <<answer, directory>>
    /\ UNCHANGED <<cancels, hit, copying, systemd, reading, cleanup, mishaps, excuse>>

(* _snapshot: a cancelled caller waits for the thread, then passes the       *)
(* cancellation on.                                                          *)
JoinSnapshot ==
    /\ caller = "copying" /\ copying # "running"
    /\ IF hit THEN Leave("cancelled")
       ELSE IF copying = "failed" THEN Leave("failed")
       ELSE caller' = "commanding" /\ UNCHANGED <<answer, directory>>
    /\ UNCHANGED <<cancels, hit, copying, systemd, reading, cleanup, mishaps, excuse>>

(* _command reads the manager's environment in a thread, which touches       *)
(* nothing; a cancelled caller does not wait for it.                         *)
BuildCommand ==
    /\ caller = "commanding"
    /\ IF hit THEN Leave("cancelled") /\ UNCHANGED <<client, mishaps>>
       ELSE \/ Mishap /\ Leave("failed") /\ UNCHANGED client
            \/ /\ caller' = "spawning" /\ client' = "starting"
               /\ UNCHANGED <<answer, directory, mishaps>>
    /\ UNCHANGED <<cancels, hit, copying, unit, pipe, reading, cleanup, excuse>>

SpawnEnds ==
    /\ client = "starting"
    /\ \/ client' = "running" /\ UNCHANGED mishaps
       \/ client' = "unborn" /\ Mishap
    /\ UNCHANGED <<caller, cancels, hit, answer, copying, directory, unit, pipe, reading,
                   cleanup, excuse>>

(* _launch: a cancelled caller waits for the spawn and cleans up; a spawn    *)
(* that failed is a failure even then.                                       *)
JoinSpawn ==
    /\ caller = "spawning" /\ client # "starting"
    /\ IF client = "unborn" THEN Leave("failed") /\ UNCHANGED <<reading, cleanup>>
       ELSE /\ UNCHANGED <<directory>>
            /\ IF hit THEN caller' = "cleaning" /\ cleanup' = "stopping"
                           /\ answer' = "cancelled" /\ UNCHANGED reading
               ELSE caller' = "draining" /\ reading' = "open" /\ UNCHANGED <<answer, cleanup>>
    /\ UNCHANGED <<cancels, hit, copying, systemd, mishaps, excuse>>

(* Both pipes are read to their end, within bounds and within the profile's  *)
(* wall time, and the client must have exited with success.  The pipe ends   *)
(* when the unit does.                                                       *)
EndDrain(outcome) ==
    /\ caller = "draining" /\ caller' = "cleaning" /\ cleanup' = "stopping"
    /\ reading' = IF outcome = "response" \/ unit = "gone" THEN "ended" ELSE reading
    /\ answer' = outcome
    /\ UNCHANGED <<cancels, hit, copying, directory, systemd, mishaps, excuse>>

Respond == client = "exited" /\ unit = "gone" /\ pipe = "whole" /\ ~hit /\ EndDrain("response")

RejectAnswer ==
    /\ ~hit /\ \/ pipe = "flood"
               \/ client = "exited" /\ (unit = "absent" \/ pipe # "whole")
    /\ EndDrain("failed")

(* Mutant: the wall time is left to the unit's own limit. *)
TimeOutWithUnit == unit = "active" /\ ~hit /\ EndDrain("failed")

TimeOut == ~hit /\ EndDrain("failed")

CancelDrain == hit /\ EndDrain("cancelled")

-----------------------------------------------------------------------------
(* _cleanup runs as a task of its own, which _join_cleanup awaits whatever   *)
(* the number of cancellations.                                              *)

(* _stop_unit: a unit that the manager does not know counts as stopped.      *)
StopUnit ==
    /\ cleanup = "stopping"
    /\ \/ /\ unit' = IF unit = "active" THEN "gone" ELSE unit
          /\ client' = IF unit = "active" /\ client = "waiting" THEN "exited" ELSE client
          /\ cleanup' = "killing" /\ UNCHANGED <<mishaps, excuse>>
       \/ /\ Mishap /\ excuse' = "unconfirmed" /\ cleanup' = "killing, unconfirmed"
          /\ UNCHANGED <<unit, client>>
    /\ UNCHANGED <<caller, cancels, hit, answer, copying, directory, pipe, reading>>

(* The client is killed and the drain tasks are cancelled.                   *)
KillClient ==
    /\ cleanup \in {"killing", "killing, unconfirmed"}
    /\ client' = IF client = "exited" THEN client ELSE "killed"
    /\ reading' = IF reading = "open" THEN "cancelled" ELSE reading
    /\ cleanup' = IF cleanup = "killing" THEN "discarding" ELSE "discarding, unconfirmed"
    /\ UNCHANGED <<caller, cancels, hit, answer, copying, directory, unit, pipe, mishaps,
                   excuse>>

(* The pipes are read to their end, which an active unit keeps open until    *)
(* the five seconds are over.                                                *)
DrainPipes ==
    /\ cleanup \in {"discarding", "discarding, unconfirmed"}
    /\ cleanup' = IF cleanup = "discarding" /\ unit # "active" THEN "done" ELSE "failed"
    /\ UNCHANGED <<caller, cancels, hit, answer, copying, directory, systemd, reading,
                   mishaps, excuse>>

(* _join_cleanup: a failed cleanup is the answer; else a cancellation during *)
(* the cleanup is; else what was known before.                               *)
JoinCleanup ==
    /\ caller = "cleaning" /\ cleanup \in {"done", "failed"}
    /\ Leave(IF cleanup = "failed" THEN "failed" ELSE IF hit THEN "cancelled" ELSE answer)
    /\ UNCHANGED <<cancels, hit, copying, systemd, reading, cleanup, mishaps, excuse>>

WorkerSteps ==
    \/ VerifyWorkload \/ SnapshotEnds \/ JoinSnapshot \/ BuildCommand \/ SpawnEnds
    \/ JoinSpawn \/ Respond \/ RejectAnswer \/ TimeOut \/ CancelDrain
    \/ StopUnit \/ KillClient \/ DrainPipes \/ JoinCleanup

WorkerNext ==
    \/ SubmitUnit \/ UnitWrites \/ UnitEnds \/ ClientFails \/ CancelWorker \/ WorkerSteps

WorkerSpec == WorkerInit /\ [][WorkerNext]_workerVars

(* Threads, subprocesses and timeouts end; of the unit only that the manager *)
(* ends it after RuntimeMaxSec.                                              *)
WorkerFairSpec == WorkerSpec /\ WF_workerVars(WorkerSteps) /\ WF_workerVars(UnitEnds)

-----------------------------------------------------------------------------
(* When the execution has returned, whatever the moment and the number of    *)
(* cancellations, nothing of it goes on: no thread that could write into the *)
(* removed staging directory, no client, no drain task, and no unit, unless  *)
(* the manager did not confirm the stop or started the unit after it.        *)
QuietAfterReturn ==
    caller = "returned" =>
        /\ copying # "running" /\ directory # "present"
        /\ client \notin {"starting", "running", "waiting"}
        /\ reading # "open"
        /\ unit = "active" => excuse # "none"
        /\ answer = "response" => ~hit /\ pipe = "whole" /\ unit = "gone"

(* Every execution returns, and its unit ends, whatever was cancelled.       *)
WorkerReturns == directory = "present" ~> (caller = "returned" /\ unit # "active")

(* The comment in launcher.py:503-504: creation is joined and cleaned up     *)
(* instead of orphaning a unit.                                              *)
NoOrphanUnit == caller = "returned" /\ excuse # "unconfirmed" => unit # "active"
=============================================================================
