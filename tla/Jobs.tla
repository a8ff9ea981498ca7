-------------------------------- MODULE Jobs --------------------------------
(***************************************************************************)
(* Durable provider jobs: the journal DurableJobStore (jobs/store.py), the  *)
(* runner DurableRunner (jobs/runner.py) with JobService (jobs/service.py)  *)
(* on one event loop, and the trial journal of an active ResearchLedger     *)
(* that every committed transaction is reconciled with.                     *)
(*                                                                         *)
(* One thread owns the store: between two awaits a coroutine is alone, and  *)
(* `call` says which one is inside such a stretch and how far it is.  Every *)
(* step of a call is one transaction of the store or one audit, so the      *)
(* process can die, and the clock can move, between any two of them.        *)
(***************************************************************************)
EXTENDS Integers, FiniteSets

CONSTANTS
    N,              \* jobs, in the order of their request_id
    Deadline,       \* deadline_ns of each job
    MaxAttempts,    \* MAX_ATTEMPTS
    MaxActive,      \* max_active
    TrialBudget,    \* trials of a phase the research journal registers
    MaxTime,        \* bound: readings of the UTC clock
    MaxTroubles     \* bound: times the UTC clock steps back, the process is killed
                    \* or the research journal is busy or unwritable

Jobs == 1..N

ASSUME JobsAssumption ==
    /\ {N, MaxAttempts, MaxActive, TrialBudget} \subseteq Nat \ {0}
    /\ {MaxTime, MaxTroubles} \subseteq Nat
    /\ Deadline \in [Jobs -> 1..MaxTime]

VARIABLES
    jobs,           \* the table jobs, by request_id; Absent before INSERT
    artifacts,      \* jobs with an installed forecast artifact
    journal,        \* trial events of the research ledger
    journalError,   \* an audit of this owner's transactions has raised
    up,             \* the store is open
    closing,        \* _closing
    active,         \* _active: the attempt, its task and its owner
    call,           \* the stretch of code that runs, None while the loop is idle
    now,            \* external: the UTC clock
    troubles        \* how many of them there have been

ledger == <<journal, journalError>>
loop == <<up, closing, active>>
vars == <<jobs, artifacts, ledger, loop, call, now, troubles>>

Terminal == {"succeeded", "failed", "cancelled", "deadline_expired"}
JobState == {"queued", "running", "interrupted"} \cup Terminal
Record == [state: JobState, attempt: 0..MaxAttempts, updated: 0..MaxTime]
Absent == [state |-> "absent", attempt |-> 0, updated |-> 0]
NoTask == [attempt |-> 0, task |-> "none", owner |-> FALSE]
At(step, j, n) == [at |-> step, job |-> j, attempt |-> n, rest |-> {}, raises |-> FALSE]
None == At("none", 0, 0)
Known == {j \in Jobs : jobs[j] # Absent}
IsIdle == up /\ call = None

(* The statements of the store, on the record of one job.                  *)

Later(r, t) == IF t < r.updated THEN r.updated ELSE t
Move(r, state) == [state |-> state, attempt |-> r.attempt, updated |-> Later(r, now)]

Expire(j, r) ==
    IF r = Absent \/ r.state \in Terminal THEN r
    ELSE IF now < r.updated THEN Move(r, "failed")
    ELSE IF now >= Deadline[j] THEN Move(r, "deadline_expired")
    ELSE r

Claim(j, r, resume) ==
    LET seen == Expire(j, r) IN
    IF seen.state # (IF resume THEN "interrupted" ELSE "queued") THEN seen
    ELSE IF seen.attempt >= MaxAttempts THEN Move(seen, "failed")
    ELSE [state |-> "running", attempt |-> seen.attempt + 1, updated |-> now]

Cancelled(j, r) ==
    LET seen == Expire(j, r) IN
    IF seen.state \in Terminal THEN seen ELSE Move(seen, "cancelled")

(* Mutant: a finish that trusts the timer with the deadline. *)
FinishedUnexpired(j, r, n, state) ==
    IF r.state = "running" /\ r.attempt = n THEN Move(r, state) ELSE r

\* finish() of the attempt `n`: nothing changes unless it is the running one.
Finished(j, r, n, state) ==
    LET seen == Expire(j, r) IN
    IF seen.state = "running" /\ seen.attempt = n THEN Move(seen, state) ELSE seen

(* Mutant: a recovery that leaves running jobs to their deadline. *)
RecoveredRunning(j, r) == Expire(j, r)

Recovered(j, r) ==
    LET seen == Expire(j, r) IN
    IF seen.state = "running" THEN Move(seen, "interrupted") ELSE seen

(* The research journal: what a job owes it, and the budget of trials.      *)

Trial(j, phase, n) == [job |-> j, phase |-> phase, attempt |-> n]

(* Mutant: an audit that journals a start only while the job runs. *)
PhasesNow(j, r) ==
    {Trial(j, "registered", 0)} \cup
    {Trial(j, phase, r.attempt) :
        phase \in IF r.state = "running" THEN {"started"} ELSE {r.state} \ {"queued"}}

Phases(j, r) ==
    {Trial(j, "registered", 0)}
    \cup {Trial(j, phase, r.attempt) :
            phase \in (IF r.attempt > 0 THEN {"started"} ELSE {})
                      \cup ({r.state} \ {"queued", "running"})}

Owed(table) ==
    (UNION {Phases(j, table[j]) : j \in {i \in Jobs : table[i] # Absent}}) \ journal

\* The order in which the audit registers them.
Rank(phase) == IF phase = "registered" THEN 0 ELSE IF phase = "started" THEN 1 ELSE 2
Precedes(e, f) == e.job < f.job \/ (e.job = f.job /\ Rank(e.phase) < Rank(f.phase))

Fits(events) ==
    \A phase \in {"registered", "started"} :
        \/ {e \in events : e.phase = phase} = {}
        \/ Cardinality({e \in journal \cup events : e.phase = phase}) <= TrialBudget

Trouble ==
    /\ troubles < MaxTroubles
    /\ troubles' = troubles + 1

\* The audit appends what is missing; a full budget, a lock another process
\* holds or a failed write stops it behind some of it.
Audited(owed) ==
    /\ Fits(owed)
    /\ journal' = journal \cup owed
    /\ UNCHANGED troubles

AuditFails(owed) ==
    \/ Fits(owed) /\ journal' = journal \cup owed /\ Trouble
    \/ \E e \in owed :
          LET some == {f \in owed : Precedes(f, e)} IN
          /\ Fits(some)
          /\ journal' = journal \cup some
          /\ Trouble \/ (~Fits(some \cup {e}) /\ UNCHANGED troubles)

\* _transaction: the new table is committed, then audited; the call goes on with
\* `then`, or with `raised` when the audit has raised after the commit.
Transaction(table, then, raised) ==
    /\ jobs' = table
    /\ \/ Audited(Owed(table)) /\ call' = then /\ UNCHANGED journalError
       \/ AuditFails(Owed(table)) /\ call' = raised /\ journalError' = TRUE

With(j, r) == [jobs EXCEPT ![j] = r]

Init ==
    /\ jobs = [j \in Jobs |-> Absent]
    /\ artifacts = {}
    /\ journal = {}
    /\ journalError = FALSE
    /\ up = TRUE
    /\ closing = FALSE
    /\ active = [j \in Jobs |-> NoTask]
    /\ call = None
    /\ now = 0
    /\ troubles = 0

\* The stretch that runs goes on with its next step.
Onward(step) == [At(step, call.job, call.attempt) EXCEPT !.raises = call.raises]

(* Calls from outside: submission, reading, dispatch, cancellation, closing. *)

\* submit_job validates, registers the trial, and only then inserts the job;
\* the request carries the reading of the clock it was built with.
Submit(j) ==
    /\ IsIdle /\ ~closing
    /\ now < Deadline[j]
    /\ call' = At("register", j, now)
    /\ UNCHANGED <<jobs, artifacts, ledger, loop, now, troubles>>

Register ==
    /\ call.at = "register"
    /\ LET owed == {Trial(call.job, "registered", 0)} \ journal IN
       \/ Audited(owed) /\ call' = Onward("insert")
       \/ AuditFails(owed) /\ call' = None
    /\ UNCHANGED <<jobs, artifacts, journalError, loop, now>>

Insert ==
    /\ call.at = "insert"
    /\ LET j == call.job IN
       IF jobs[j] # Absent THEN Transaction(With(j, Expire(j, jobs[j])), None, None)
       ELSE IF call.attempt <= now /\ now < Deadline[j]
            THEN Transaction(With(j, [state |-> "queued", attempt |-> 0, updated |-> now]),
                             None, None)
            ELSE call' = None /\ UNCHANGED <<jobs, ledger, troubles>>
    /\ UNCHANGED <<artifacts, loop, now>>

\* get() and find() of one job; list() and summary() of all.
Read ==
    /\ IsIdle
    /\ \E some \in {{j} : j \in Known} \cup {Known} :
          Transaction([j \in Jobs |-> IF j \in some THEN Expire(j, jobs[j]) ELSE jobs[j]],
                      None, None)
    /\ UNCHANGED <<artifacts, loop, now>>

\* run() looks at the job first, and the look is a transaction of its own.
Run(j) ==
    /\ IsIdle /\ ~closing
    /\ j \in Known
    /\ \E dispatch \in {"claim", "resume"} :
          Transaction(With(j, Expire(j, jobs[j])), At(dispatch, j, 0), None)
    /\ UNCHANGED <<artifacts, loop, now>>

Busy(j) ==
    \/ active[j] # NoTask
    \/ Cardinality({i \in Jobs : active[i] # NoTask}) >= MaxActive

Refuse ==
    /\ call.at \in {"claim", "resume"}
    /\ Busy(call.job) \/ (jobs[call.job].state \in Terminal /\ call.at = "claim")
    /\ call' = None
    /\ UNCHANGED <<jobs, artifacts, ledger, loop, now, troubles>>

\* claim(): when its audit raises, run() raises too, outside of its try.
Claims ==
    /\ call.at \in {"claim", "resume"}
    /\ ~Busy(call.job)
    /\ jobs[call.job].state \in Terminal => call.at = "resume"
    /\ LET j == call.job
           before == jobs[j]
           after == Claim(j, before, call.at = "resume")
           won == after.attempt > before.attempt
       IN  Transaction(With(j, after), IF won THEN At("start", j, after.attempt) ELSE None,
                       None)
    /\ UNCHANGED <<artifacts, loop, now>>

\* The audit of the start, the admission of the job and the task; either may raise.
Start ==
    /\ call.at = "start"
    /\ \/ /\ active' = [active EXCEPT ![call.job] =
                            [attempt |-> call.attempt, task |-> "working", owner |-> FALSE]]
          /\ call' = None
          /\ UNCHANGED troubles
       \/ /\ Trouble \/ UNCHANGED troubles
          /\ call' = Onward("failed")
          /\ UNCHANGED active
    /\ UNCHANGED <<jobs, artifacts, ledger, up, closing, now>>

(* What happens to a task while the loop is free.                           *)

TaskBecomes(j, task) ==
    /\ IsIdle
    /\ active' = [active EXCEPT ![j].task = task]
    /\ UNCHANGED <<jobs, artifacts, ledger, up, closing, call, now, troubles>>

\* The provider returns its forecast, or raises.
Answer(j) ==
    /\ active[j].task = "working"
    /\ \E task \in {"answered", "raised"} : TaskBecomes(j, task)

\* asyncio.timeout: its clock is monotonic and knows nothing of the UTC clock's
\* steps, and it beats an answer the runner has not resumed with yet.
Timer(j) ==
    /\ active[j].task \in {"working", "answered", "raised", "cancelled"}
    /\ ~active[j].owner
    /\ TaskBecomes(j, "expired")

\* The task that awaits run() is cancelled, by its caller.
OwnerCancel(j) ==
    /\ active[j] # NoTask
    /\ IsIdle
    /\ active' = [active EXCEPT ![j].owner = TRUE, ![j].task = "cancelled"]
    /\ UNCHANGED <<jobs, artifacts, ledger, up, closing, call, now, troubles>>

\* run() resumes behind `await task`, in the handler of what it finds, and _execute
\* drops the task from _active.
Handler == [answered |-> "accept", raised |-> "failed", expired |-> "deadline",
            cancelled |-> "cancelled"]

Wake(j) ==
    /\ IsIdle
    /\ active[j].task \in DOMAIN Handler
    /\ active' = [active EXCEPT ![j] = NoTask]
    /\ call' = [At(Handler[active[j].task], j, active[j].attempt) EXCEPT
                   !.raises = active[j].owner]
    /\ UNCHANGED <<jobs, artifacts, ledger, up, closing, now, troubles>>

(* The rest of run(), of cancel() and of aclose(): one disjunct per step.   *)

Ends(j, n, state) == With(j, Finished(j, jobs[j], n, state))

\* _accept() stores the forecast only while the job is still running.
Accept ==
    /\ call.at = "accept"
    /\ LET j == call.job
           seen == Expire(j, jobs[j])
       IN  Transaction(With(j, seen),
                       Onward(IF seen.state = "running" THEN "write" ELSE "final"),
                       Onward("failed"))
    /\ UNCHANGED <<artifacts, loop, now>>

\* The artifact is installed, or its store refuses it.
Write ==
    /\ call.at = "write"
    /\ \/ artifacts' = artifacts \cup {call.job} /\ call' = Onward("succeeded")
       \/ artifacts' = artifacts /\ call' = Onward("failed")
    /\ UNCHANGED <<jobs, ledger, loop, now, troubles>>

\* finish() with the state the run has come to; only run()'s own handler, which
\* records the failure, has nothing above it that catches.
Finish ==
    /\ call.at \in {"succeeded", "deadline", "failed"}
    /\ LET state == IF call.at = "deadline" THEN "deadline_expired" ELSE call.at IN
       Transaction(Ends(call.job, call.attempt, state), Onward("final"),
                   IF call.at = "failed" THEN None ELSE Onward("failed"))
    /\ UNCHANGED <<artifacts, loop, now>>

\* The audit of an intervention: nothing reads it; when it raises, cancel() and
\* _cancelled() go on all the same, and the latter raises at its end.
Intervene ==
    /\ \/ /\ call.at = "intervene"
          /\ call' = Onward("cancel")
          /\ Trouble \/ UNCHANGED troubles
       \/ /\ call.at = "cancelled"
          /\ \/ call' = Onward("release") /\ UNCHANGED troubles
             \/ call' = [Onward("release") EXCEPT !.raises = TRUE] /\ Trouble
    /\ UNCHANGED <<jobs, artifacts, ledger, loop, now>>

(* Mutant: a cancelled run that does not ask why. *)
ReleaseCancelling ==
    /\ call.at = "release"
    /\ Transaction(With(call.job, Cancelled(call.job, jobs[call.job])),
                   IF call.raises THEN None ELSE Onward("final"), None)
    /\ UNCHANGED <<artifacts, loop, now>>

\* _cancelled(): a shutdown interrupts, anything else cancels for good.
Release ==
    /\ call.at = "release"
    /\ LET j == call.job
           table == IF closing THEN Ends(j, call.attempt, "interrupted")
                    ELSE With(j, Cancelled(j, jobs[j]))
       IN  Transaction(table, IF call.raises THEN None ELSE Onward("final"), None)
    /\ UNCHANGED <<artifacts, loop, now>>

\* run() returns the job as it then is.
Final ==
    /\ call.at = "final"
    /\ Transaction(With(call.job, Expire(call.job, jobs[call.job])), None, None)
    /\ UNCHANGED <<artifacts, loop, now>>

\* cancel(): whatever raises, the task is told to stop.
Stopped(task) == IF task.task = "working" THEN [task EXCEPT !.task = "cancelled"] ELSE task

CancelJob(j) ==
    /\ IsIdle
    /\ j \in Known
    /\ Transaction(With(j, Expire(j, jobs[j])), At("intervene", j, 0), None)
    /\ active' = [active EXCEPT ![j] = IF call' = None THEN Stopped(@) ELSE @]
    /\ UNCHANGED <<artifacts, up, closing, now>>

CancelRecord ==
    /\ call.at = "cancel"
    /\ Transaction(With(call.job, Cancelled(call.job, jobs[call.job])), None, None)
    /\ active' = [active EXCEPT ![call.job] = Stopped(@)]
    /\ UNCHANGED <<artifacts, up, closing, now>>

\* aclose(): every active job is interrupted in the store, one by one, errors
\* kept for the end; then every task is told to stop.
ClosingAt(step, j, n, rest) ==
    [at |-> step, job |-> j, attempt |-> n, rest |-> rest, raises |-> FALSE]
Closing(rest) == ClosingAt("close", 0, 0, rest)

Close ==
    /\ IsIdle
    /\ closing' = TRUE
    /\ call' = Closing({j \in Jobs : active[j] # NoTask})
    /\ UNCHANGED <<jobs, artifacts, ledger, up, active, now, troubles>>

CloseLook ==
    /\ call.at = "close"
    /\ \E j \in call.rest :
          LET seen == Expire(j, jobs[j])
              rest == call.rest \ {j}
          IN  Transaction(With(j, seen), ClosingAt("interrupt", j, seen.attempt, rest),
                          Closing(rest))
    /\ UNCHANGED <<artifacts, loop, now>>

CloseInterrupt ==
    /\ call.at = "interrupt"
    /\ Transaction(Ends(call.job, call.attempt, "interrupted"),
                   Closing(call.rest), Closing(call.rest))
    /\ UNCHANGED <<artifacts, loop, now>>

CloseStop ==
    /\ call.at = "close"
    /\ call.rest = {}
    /\ active' = [j \in Jobs |-> Stopped(active[j])]
    /\ call' = None
    /\ UNCHANGED <<jobs, artifacts, ledger, up, closing, now, troubles>>

(* The life of the process.                                                 *)

Gone ==
    /\ up' = FALSE
    /\ closing' = FALSE
    /\ active' = [j \in Jobs |-> NoTask]
    /\ call' = None
    /\ journalError' = FALSE
    /\ UNCHANGED <<jobs, artifacts, journal, now>>

\* The owner closes the store once aclose() has seen the providers' tasks off, not
\* necessarily the coroutines that awaited them.
Exit ==
    /\ IsIdle /\ closing
    /\ \A j \in Jobs : active[j].task # "working"
    /\ Gone
    /\ UNCHANGED troubles

Crash ==
    /\ up
    /\ Gone
    /\ Trouble

\* Opening the store recovers it in one transaction; when the audit raises, what
\* has been committed stays and the store does not open.
Open ==
    /\ ~up
    /\ jobs' = [j \in Jobs |-> Recovered(j, jobs[j])]
    /\ \/ Audited(Owed(jobs')) /\ up' = TRUE
       \/ AuditFails(Owed(jobs')) /\ up' = FALSE
    /\ UNCHANGED <<artifacts, journalError, closing, active, call, now>>

Tick ==
    /\ now < MaxTime
    /\ now' = now + 1
    /\ UNCHANGED <<jobs, artifacts, ledger, loop, call, troubles>>

StepBack ==
    /\ now > 0
    /\ now' = now - 1
    /\ Trouble
    /\ UNCHANGED <<jobs, artifacts, ledger, loop, call>>

Runs == Start \/ Accept \/ Write \/ Finish \/ Intervene \/ Release \/ Final
Calls == Register \/ Insert \/ Refuse \/ Claims \/ CancelRecord
Shutdown == Close \/ CloseLook \/ CloseInterrupt \/ CloseStop \/ Exit
World == Crash \/ Open \/ Tick \/ StepBack
Loop == \E j \in Jobs :
    Submit(j) \/ Run(j) \/ CancelJob(j) \/ Answer(j) \/ Timer(j) \/ OwnerCancel(j) \/ Wake(j)

Next == Read \/ Loop \/ Calls \/ Runs \/ Shutdown \/ World

Spec == Init /\ [][Next]_vars

-----------------------------------------------------------------------------
(* Properties.                                                             *)

\* The table obeys its CHECKs, and a task belongs to an attempt that was claimed.
TypeOK ==
    /\ \A j \in Jobs : jobs[j] = Absent \/ jobs[j] \in Record
    /\ \A j \in Jobs : jobs[j].state \in {"running", "succeeded", "interrupted"}
                          => jobs[j].attempt > 0
    /\ \A j \in Jobs : active[j].attempt \in 0..jobs[j].attempt
    /\ artifacts \subseteq Jobs
    /\ \A e \in journal : e.phase \in {"registered", "started"} \cup JobState
    /\ {up, closing, journalError} \subseteq BOOLEAN

\* An accepted success has its artifact installed and was registered before the
\* deadline, whatever the timer, the clock and late answers did (_accept, finish).
SucceededIsEarned ==
    \A j \in Jobs : jobs[j].state = "succeeded" =>
        /\ j \in artifacts
        /\ jobs[j].updated < Deadline[j]

\* A terminal job is never dispatched, cancelled, expired or finished again, also
\* by the rest of a run whose own completion raised after its commit.
TerminalIsFinal ==
    [][\A j \in Jobs : jobs[j].state \in Terminal => jobs'[j] = jobs[j]]_vars

\* While no audit of this owner has raised, a running job is one that somebody
\* works on: its task is active, or the stretch that runs is about it.
RunningIsHeld ==
    up /\ ~journalError =>
        \A j \in Jobs : jobs[j].state = "running" =>
            \/ active[j].attempt = jobs[j].attempt
            \/ call.job = j /\ call.attempt = jobs[j].attempt

\* Closing the service interrupts what it runs: a job is cancelled for good only
\* by a cancel() that asked for it, never by the tasks aclose() tells to stop.
ShutdownNeverCancels ==
    [][closing => \A j \in Jobs :
          jobs[j].state # "cancelled" /\ jobs'[j].state = "cancelled" =>
             call.at = "cancel"]_vars

\* The trial journal has no holes: an attempt is in it only with the start and the
\* interruption of the one before, though audits raise and processes die (run looks
\* at the job, and thereby audits it, before it claims).
JournalHasNoHoles ==
    \A e \in journal : e.attempt > 1 =>
        \A n \in 1..(e.attempt - 1) :
            {Trial(e.job, "started", n), Trial(e.job, "interrupted", n)} \subseteq journal

\* A comment of _audit_states: a journal error closes this owner to further work.
JournalErrorCloses ==
    [][journalError => jobs' = jobs]_vars

\* The same comment: reopening retries the audit.  For the retry to be able to
\* succeed, what the table owes must fit the journal.
ReopeningCanAudit ==
    Fits(Owed(jobs))
=============================================================================
