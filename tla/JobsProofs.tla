---------------------------- MODULE JobsProofs ----------------------------
(***************************************************************************)
(* Proofs about Jobs, for any number of jobs, deadlines, attempts, trials  *)
(* and bounds: a terminal state is final, a success is earned, a running   *)
(* job has someone who works on it, the trial journal has no holes, and a  *)
(* shutdown cancels nothing for good.                                      *)
(*                                                                         *)
(* Every statement of the store replaces the record of a job by one that   *)
(* is Allowed after it; so does every step of the system, and the first    *)
(* two properties follow. Every statement but claim() also Keeps the       *)
(* attempt of the record and starts nothing. The second invariant says,    *)
(* beside the types, that a claim finds no task of its job, that a         *)
(* dispatch finds what the table says of its job in the journal, that a    *)
(* running attempt has its task or the stretch of run() it is in, and that *)
(* the attempts before the present one are journalled.                     *)
(***************************************************************************)
EXTENDS Jobs, TLAPS

\* Records as the table holds them, without the bounds of the instances.
Rows == [state : JobState \cup {"absent"}, attempt : Nat, updated : Nat]

\* What may become of the row r of the job j while `installed` are the artifacts.
Allowed(j, r, s, installed) ==
    /\ s \in Rows
    /\ r.state \in Terminal => s = r
    /\ s.state = "succeeded" => s = r \/ (j \in installed /\ s.updated < Deadline[j])

Installed == call.at = "succeeded" => call.job \in artifacts

IInv ==
    /\ jobs \in [Jobs -> Rows]
    /\ now \in Nat
    /\ SucceededIsEarned
    /\ Installed

\* The step the table takes.
TableStep ==
    /\ jobs' \in [Jobs -> Rows]
    /\ \A j \in Jobs : Allowed(j, jobs[j], jobs'[j], artifacts)

-----------------------------------------------------------------------------
(* The statements of the store.                                            *)

LEMMA JobFacts ==
    /\ Absent \in Rows
    /\ Jobs \subseteq Nat
    /\ \A j \in Jobs : Deadline[j] \in Nat
    /\ \A e \in Terminal : e \in JobState
BY JobsAssumption DEF Absent, Rows, Jobs, Terminal, JobState

\* Moving a live row to a state other than success is allowed.
LEMMA MoveAllowed ==
    ASSUME NEW j \in Jobs, NEW r \in Rows, r.state \notin Terminal, now \in Nat,
           NEW state \in JobState, state # "succeeded", NEW installed
    PROVE  Allowed(j, r, Move(r, state), installed)
BY DEF Allowed, Move, Later, Rows, Terminal

LEMMA ExpireAllowed ==
    ASSUME NEW j \in Jobs, NEW r \in Rows, now \in Nat, NEW installed
    PROVE  /\ Allowed(j, r, Expire(j, r), installed)
           /\ Expire(j, r).state \notin Terminal =>
                 /\ Expire(j, r) = r
                 /\ r = Absent \/ (r.updated <= now /\ now < Deadline[j])
<1>1. CASE r = Absent \/ r.state \in Terminal
  BY <1>1 DEF Expire, Allowed, Absent, Rows, Terminal
<1>2. CASE r # Absent /\ r.state \notin Terminal
  <2>1. CASE now < r.updated
    <3>1. Expire(j, r) = Move(r, "failed")
      BY <1>2, <2>1 DEF Expire
    <3>2. Move(r, "failed").state = "failed"
      BY DEF Move, Rows
    <3>3. Allowed(j, r, Move(r, "failed"), installed)
      BY <1>2, MoveAllowed DEF JobState, Terminal
    <3> QED BY <3>1, <3>2, <3>3 DEF Terminal
  <2>2. CASE ~(now < r.updated) /\ now >= Deadline[j]
    <3>1. Expire(j, r) = Move(r, "deadline_expired")
      BY <1>2, <2>2 DEF Expire
    <3>2. Move(r, "deadline_expired").state = "deadline_expired"
      BY DEF Move, Rows
    <3>3. Allowed(j, r, Move(r, "deadline_expired"), installed)
      BY <1>2, MoveAllowed DEF JobState, Terminal
    <3> QED BY <3>1, <3>2, <3>3 DEF Terminal
  <2>3. CASE ~(now < r.updated) /\ ~(now >= Deadline[j])
    <3>1. Expire(j, r) = r
      BY <1>2, <2>3 DEF Expire
    <3>2. r.updated <= now /\ now < Deadline[j]
      BY <2>3, JobFacts DEF Rows
    <3> QED BY <1>2, <3>1, <3>2 DEF Allowed
  <2> QED BY <2>1, <2>2, <2>3
<1> QED BY <1>1, <1>2

LEMMA ClaimAllowed ==
    ASSUME NEW j \in Jobs, NEW r \in Rows, now \in Nat, NEW resume \in BOOLEAN, NEW installed
    PROVE  Allowed(j, r, Claim(j, r, resume), installed)
<1> DEFINE seen == Expire(j, r)
           required == IF resume THEN "interrupted" ELSE "queued"
<1>1. Allowed(j, r, seen, installed) /\ (seen.state \notin Terminal => seen = r)
  BY ExpireAllowed
<1>2. CASE seen.state # required
  BY <1>1, <1>2 DEF Claim
<1>3. CASE seen.state = required
  <2>1. r.state = required /\ required \notin Terminal
    BY <1>1, <1>3 DEF Terminal
  <2>2. CASE r.attempt >= MaxAttempts
    <3>1. Claim(j, r, resume) = Move(r, "failed")
      BY <1>1, <1>3, <2>1, <2>2 DEF Claim
    <3> QED BY <3>1, <2>1, MoveAllowed DEF JobState, Terminal
  <2>3. CASE ~(r.attempt >= MaxAttempts)
    <3>1. Claim(j, r, resume) =
             [state |-> "running", attempt |-> r.attempt + 1, updated |-> now]
      BY <1>1, <1>3, <2>1, <2>3 DEF Claim
    <3> QED BY <3>1, <2>1 DEF Allowed, Rows, JobState
  <2> QED BY <2>2, <2>3
<1> QED BY <1>2, <1>3

LEMMA CancelledAllowed ==
    ASSUME NEW j \in Jobs, NEW r \in Rows, now \in Nat, NEW installed
    PROVE  Allowed(j, r, Cancelled(j, r), installed)
<1> DEFINE seen == Expire(j, r)
<1>1. Allowed(j, r, seen, installed) /\ (seen.state \notin Terminal => seen = r)
  BY ExpireAllowed
<1>2. CASE seen.state \in Terminal
  BY <1>1, <1>2 DEF Cancelled
<1>3. CASE seen.state \notin Terminal
  <2>1. Cancelled(j, r) = Move(r, "cancelled")
    BY <1>1, <1>3 DEF Cancelled
  <2> QED BY <1>1, <1>3, <2>1, MoveAllowed DEF JobState, Terminal
<1> QED BY <1>2, <1>3

LEMMA RecoveredAllowed ==
    ASSUME NEW j \in Jobs, NEW r \in Rows, now \in Nat, NEW installed
    PROVE  Allowed(j, r, Recovered(j, r), installed)
<1> DEFINE seen == Expire(j, r)
<1>1. Allowed(j, r, seen, installed) /\ (seen.state \notin Terminal => seen = r)
  BY ExpireAllowed
<1>2. CASE seen.state # "running"
  BY <1>1, <1>2 DEF Recovered
<1>3. CASE seen.state = "running"
  <2>1. Recovered(j, r) = Move(r, "interrupted")
    BY <1>1, <1>3 DEF Recovered, Terminal
  <2> QED BY <1>1, <1>3, <2>1, MoveAllowed DEF JobState, Terminal
<1> QED BY <1>2, <1>3

\* A success is registered only while the artifact is installed; the expiry in the
\* same transaction keeps it before the deadline.
LEMMA FinishedAllowed ==
    ASSUME NEW j \in Jobs, NEW r \in Rows, now \in Nat, NEW n, NEW state \in JobState,
           NEW installed, state = "succeeded" => j \in installed
    PROVE  Allowed(j, r, Finished(j, r, n, state), installed)
<1> DEFINE seen == Expire(j, r)
<1>1. /\ Allowed(j, r, seen, installed)
      /\ seen.state \notin Terminal =>
            seen = r /\ (r = Absent \/ (r.updated <= now /\ now < Deadline[j]))
  BY ExpireAllowed
<1>2. CASE ~(seen.state = "running" /\ seen.attempt = n)
  BY <1>1, <1>2 DEF Finished
<1>3. CASE seen.state = "running" /\ seen.attempt = n
  <2>1. seen = r /\ r.state = "running" /\ r.updated <= now /\ now < Deadline[j]
    BY <1>1, <1>3 DEF Terminal, Absent
  <2>2. Finished(j, r, n, state) = Move(r, state)
    BY <1>3, <2>1 DEF Finished
  <2>3. CASE state # "succeeded"
    BY <2>1, <2>2, <2>3, MoveAllowed DEF Terminal
  <2>4. CASE state = "succeeded"
    <3>1. Move(r, state) = [state |-> state, attempt |-> r.attempt, updated |-> now]
      BY <2>1 DEF Move, Later, Rows
    <3> QED BY <2>1, <2>2, <2>4, <3>1 DEF Allowed, Rows, Terminal
  <2> QED BY <2>3, <2>4
<1> QED BY <1>2, <1>3

-----------------------------------------------------------------------------
(* The steps.                                                              *)

\* A transaction on one job.
LEMMA OneJob ==
    ASSUME IInv, NEW j, NEW r, jobs' = With(j, r),
           j \in Jobs => Allowed(j, jobs[j], r, artifacts)
    PROVE  TableStep
<1>1. \A i \in Jobs : jobs'[i] = IF i = j THEN r ELSE jobs[i]
  BY DEF IInv, With
<1>2. \A i \in Jobs : Allowed(i, jobs[i], jobs[i], artifacts)
  BY DEF IInv, Allowed
<1>3. \A i \in Jobs : Allowed(i, jobs[i], jobs'[i], artifacts)
  BY <1>1, <1>2
<1>4. jobs' \in [Jobs -> Rows]
  <2>1. j \in Jobs => r \in Rows
    BY DEF Allowed
  <2> QED BY <2>1 DEF IInv, With
<1> QED BY <1>3, <1>4 DEF TableStep

LEMMA SameTable ==
    ASSUME IInv, UNCHANGED jobs
    PROVE  TableStep
BY DEF IInv, TableStep, Allowed

\* Reading one job, the transaction most calls start with.
LEMMA LookStep ==
    ASSUME IInv, NEW j, jobs' = With(j, Expire(j, jobs[j]))
    PROVE  TableStep
<1>1. j \in Jobs => Allowed(j, jobs[j], Expire(j, jobs[j]), artifacts)
  BY ExpireAllowed DEF IInv
<1> QED BY <1>1, OneJob

LEMMA CancelStep ==
    ASSUME IInv, NEW j, jobs' = With(j, Cancelled(j, jobs[j]))
    PROVE  TableStep
<1>1. j \in Jobs => Allowed(j, jobs[j], Cancelled(j, jobs[j]), artifacts)
  BY CancelledAllowed DEF IInv
<1> QED BY <1>1, OneJob

LEMMA EndStep ==
    ASSUME IInv, NEW j, NEW n, NEW state \in JobState, jobs' = Ends(j, n, state),
           state = "succeeded" => j \in artifacts
    PROVE  TableStep
<1>1. j \in Jobs => Allowed(j, jobs[j], Finished(j, jobs[j], n, state), artifacts)
  BY FinishedAllowed DEF IInv
<1> QED BY <1>1, OneJob DEF Ends

\* No call but the one that has just written the artifact is about to succeed.
LEMMA NotSucceeding ==
    /\ None.at # "succeeded"
    /\ \A step, j, n : At(step, j, n).at = step
    /\ \A step : Onward(step).at = step /\ Onward(step).job = call.job
    /\ \A rest : Closing(rest).at = "close"
BY DEF None, At, Onward, Closing, ClosingAt

\* The steps of the runner's calls.
LEMMA RunsStep ==
    ASSUME IInv, Runs
    PROVE  TableStep /\ now' = now /\ Installed'
<1>1. CASE Start
  <2>1. UNCHANGED jobs /\ now' = now /\ call'.at # "succeeded"
    BY <1>1, NotSucceeding DEF Start, None, Onward
  <2> QED BY <2>1, SameTable DEF Installed
<1>2. CASE Accept
  <2>1. jobs' = With(call.job, Expire(call.job, jobs[call.job])) /\ now' = now
    BY <1>2 DEF Accept, Transaction
  <2>2. call'.at # "succeeded"
    BY <1>2, NotSucceeding DEF Accept, Transaction
  <2> QED BY <2>1, <2>2, LookStep DEF Installed
<1>3. CASE Write
  <2>1. UNCHANGED jobs /\ now' = now
    BY <1>3 DEF Write
  <2>2. Installed'
    BY <1>3, NotSucceeding DEF Write, Installed
  <2> QED BY <2>1, <2>2, SameTable
<1>4. CASE Finish
  <2> DEFINE state == IF call.at = "deadline" THEN "deadline_expired" ELSE call.at
  <2>1. jobs' = Ends(call.job, call.attempt, state) /\ now' = now
    BY <1>4 DEF Finish, Transaction
  <2>2. state \in JobState /\ (state = "succeeded" => call.job \in artifacts)
    BY <1>4 DEF Finish, JobState, Terminal, IInv, Installed
  <2>3. call'.at # "succeeded"
    BY <1>4, NotSucceeding DEF Finish, Transaction
  <2>4. TableStep
    BY <2>1, <2>2, EndStep
  <2> QED BY <2>1, <2>3, <2>4 DEF Installed
<1>5. CASE Intervene
  <2>1. UNCHANGED jobs /\ now' = now
    BY <1>5 DEF Intervene
  <2>2. call'.at # "succeeded"
    BY <1>5 DEF Intervene, Onward, At
  <2> QED BY <2>1, <2>2, SameTable DEF Installed
<1>6. CASE Release
  <2>1. /\ \/ jobs' = Ends(call.job, call.attempt, "interrupted")
           \/ jobs' = With(call.job, Cancelled(call.job, jobs[call.job]))
        /\ now' = now
    BY <1>6 DEF Release, Transaction
  <2>2. call'.at # "succeeded"
    BY <1>6, NotSucceeding DEF Release, Transaction
  <2>3. TableStep
    BY <2>1, EndStep, CancelStep DEF JobState
  <2> QED BY <2>1, <2>2, <2>3 DEF Installed
<1>7. CASE Final
  <2>1. jobs' = With(call.job, Expire(call.job, jobs[call.job])) /\ now' = now
    BY <1>7 DEF Final, Transaction
  <2>2. call'.at # "succeeded"
    BY <1>7, NotSucceeding DEF Final, Transaction
  <2> QED BY <2>1, <2>2, LookStep DEF Installed
<1> QED BY <1>1, <1>2, <1>3, <1>4, <1>5, <1>6, <1>7 DEF Runs

\* Submission, the claim and the cancellation.
LEMMA CallsStep ==
    ASSUME IInv, Calls
    PROVE  TableStep /\ now' = now /\ Installed'
<1>1. CASE Register
  <2>1. UNCHANGED jobs /\ now' = now /\ call'.at # "succeeded"
    BY <1>1, NotSucceeding DEF Register
  <2> QED BY <2>1, SameTable DEF Installed
<1>2. CASE Insert
  <2> DEFINE j == call.job
             row == [state |-> "queued", attempt |-> 0, updated |-> now]
  <2>1. now' = now /\ call' = None
    BY <1>2 DEF Insert, Transaction
  <2>2. \/ jobs' = With(j, Expire(j, jobs[j]))
        \/ jobs[j] = Absent /\ jobs' = With(j, row)
        \/ UNCHANGED jobs
    BY <1>2 DEF Insert, Transaction
  <2>3. CASE jobs[j] = Absent /\ jobs' = With(j, row)
    <3>1. j \in Jobs => Allowed(j, jobs[j], row, artifacts)
      BY <2>3 DEF IInv, Allowed, Rows, JobState, Terminal, Absent
    <3> QED BY <2>1, <2>3, <3>1, OneJob, NotSucceeding DEF Installed
  <2> QED BY <2>1, <2>2, <2>3, LookStep, SameTable, NotSucceeding DEF Installed
<1>3. CASE Refuse
  BY <1>3, SameTable, NotSucceeding DEF Refuse, Installed
<1>4. CASE Claims
  <2> DEFINE j == call.job
             resume == call.at = "resume"
  <2>1. jobs' = With(j, Claim(j, jobs[j], resume)) /\ now' = now
    BY <1>4 DEF Claims, Transaction
  <2>2. call'.at # "succeeded"
    BY <1>4, NotSucceeding DEF Claims, Transaction
  <2>3. j \in Jobs => Allowed(j, jobs[j], Claim(j, jobs[j], resume), artifacts)
    BY ClaimAllowed DEF IInv
  <2>4. TableStep
    BY <2>1, <2>3, OneJob
  <2> QED BY <2>1, <2>2, <2>4 DEF Installed
<1>5. CASE CancelRecord
  <2>1. /\ jobs' = With(call.job, Cancelled(call.job, jobs[call.job]))
        /\ now' = now
        /\ call' = None
    BY <1>5 DEF CancelRecord, Transaction
  <2> QED BY <2>1, CancelStep, NotSucceeding DEF Installed
<1> QED BY <1>1, <1>2, <1>3, <1>4, <1>5 DEF Calls

LEMMA ShutdownStep ==
    ASSUME IInv, Shutdown
    PROVE  TableStep /\ now' = now /\ Installed'
<1>1. CASE Close \/ CloseStop
  <2>1. UNCHANGED jobs /\ now' = now /\ call'.at # "succeeded"
    BY <1>1, NotSucceeding DEF Close, CloseStop
  <2> QED BY <2>1, SameTable DEF Installed
<1>2. CASE CloseLook
  <2>1. PICK j \in call.rest :
           LET seen == Expire(j, jobs[j])
               rest == call.rest \ {j}
           IN  Transaction(With(j, seen), ClosingAt("interrupt", j, seen.attempt, rest),
                           Closing(rest))
    BY <1>2 DEF CloseLook
  <2>2. jobs' = With(j, Expire(j, jobs[j])) /\ now' = now
    BY <1>2, <2>1 DEF CloseLook, Transaction
  <2>3. call'.at # "succeeded"
    BY <2>1 DEF Transaction, Closing, ClosingAt
  <2> QED BY <2>2, <2>3, LookStep DEF Installed
<1>3. CASE CloseInterrupt
  <2>1. jobs' = Ends(call.job, call.attempt, "interrupted") /\ now' = now
    BY <1>3 DEF CloseInterrupt, Transaction
  <2>2. call'.at # "succeeded"
    BY <1>3, NotSucceeding DEF CloseInterrupt, Transaction
  <2>3. TableStep
    BY <2>1, EndStep DEF JobState
  <2> QED BY <2>1, <2>2, <2>3 DEF Installed
<1>4. CASE Exit
  BY <1>4, SameTable, NotSucceeding DEF Exit, Gone, Installed
<1> QED BY <1>1, <1>2, <1>3, <1>4 DEF Shutdown

LEMMA WorldStep ==
    ASSUME IInv, World
    PROVE  TableStep /\ now' \in Nat /\ Installed'
<1>1. CASE Crash
  BY <1>1, SameTable, NotSucceeding DEF Crash, Gone, Installed, IInv
<1>2. CASE Open
  <2>1. jobs' = [j \in Jobs |-> Recovered(j, jobs[j])]
    BY <1>2 DEF Open
  <2>2. \A j \in Jobs : Allowed(j, jobs[j], Recovered(j, jobs[j]), artifacts)
    BY RecoveredAllowed DEF IInv
  <2>3. TableStep
    BY <2>1, <2>2 DEF TableStep, Allowed
  <2> QED BY <1>2, <2>3 DEF Open, Installed, IInv
<1>3. CASE Tick \/ StepBack
  <2>1. UNCHANGED <<jobs, artifacts, call>>
    BY <1>3 DEF Tick, StepBack
  <2>2. now' \in Nat
    BY <1>3 DEF Tick, StepBack, IInv
  <2> QED BY <2>1, <2>2, SameTable DEF Installed, IInv
<1> QED BY <1>1, <1>2, <1>3 DEF World

LEMMA LoopStep ==
    ASSUME IInv, Loop
    PROVE  TableStep /\ now' = now /\ Installed'
<1>1. PICK j \in Jobs :
         Submit(j) \/ Run(j) \/ CancelJob(j) \/ Answer(j) \/ Timer(j) \/ OwnerCancel(j)
         \/ Wake(j)
  BY DEF Loop
<1>2. CASE Submit(j)
  <2>1. UNCHANGED jobs /\ now' = now /\ call'.at # "succeeded"
    BY <1>2, NotSucceeding DEF Submit
  <2> QED BY <2>1, SameTable DEF Installed
<1>3. CASE Run(j)
  <2>1. jobs' = With(j, Expire(j, jobs[j])) /\ now' = now
    BY <1>3 DEF Run, Transaction
  <2>2. call'.at # "succeeded"
    BY <1>3, NotSucceeding DEF Run, Transaction
  <2> QED BY <2>1, <2>2, LookStep DEF Installed
<1>4. CASE CancelJob(j)
  <2>1. jobs' = With(j, Expire(j, jobs[j])) /\ now' = now
    BY <1>4 DEF CancelJob, Transaction
  <2>2. call'.at # "succeeded"
    BY <1>4, NotSucceeding DEF CancelJob, Transaction
  <2> QED BY <2>1, <2>2, LookStep DEF Installed
<1>5. CASE Answer(j) \/ Timer(j) \/ OwnerCancel(j)
  <2>1. UNCHANGED <<jobs, artifacts, call, now>>
    BY <1>5 DEF Answer, Timer, OwnerCancel, TaskBecomes
  <2> QED BY <2>1, SameTable DEF Installed, IInv
<1>6. CASE Wake(j)
  <2>1. UNCHANGED jobs /\ now' = now
    BY <1>6 DEF Wake
  <2>2. \A task \in DOMAIN Handler : Handler[task] # "succeeded"
    BY DEF Handler
  <2>3. call'.at = Handler[active[j].task] /\ active[j].task \in DOMAIN Handler
    BY <1>6 DEF Wake, At
  <2> QED BY <2>1, <2>2, <2>3, SameTable DEF Installed
<1> QED BY <1>1, <1>2, <1>3, <1>4, <1>5, <1>6

LEMMA ReadStep ==
    ASSUME IInv, Read
    PROVE  TableStep /\ now' = now /\ Installed'
<1>1. PICK some \in {{j} : j \in Known} \cup {Known} :
         Transaction([j \in Jobs |-> IF j \in some THEN Expire(j, jobs[j]) ELSE jobs[j]],
                     None, None)
  BY DEF Read
<1>2. jobs' = [j \in Jobs |-> IF j \in some THEN Expire(j, jobs[j]) ELSE jobs[j]]
  BY <1>1 DEF Transaction
<1>3. \A j \in Jobs : /\ Allowed(j, jobs[j], Expire(j, jobs[j]), artifacts)
                     /\ Allowed(j, jobs[j], jobs[j], artifacts)
  BY ExpireAllowed DEF IInv, Allowed
<1>4. TableStep
  BY <1>2, <1>3 DEF TableStep, Allowed
<1>5. now' = now /\ call' = None
  BY <1>1 DEF Read, Transaction
<1> QED BY <1>4, <1>5, NotSucceeding DEF Installed

\* Artifacts are never taken away.
LEMMA ArtifactsStay ==
    ASSUME Next
    PROVE  artifacts \subseteq artifacts'
BY DEF Next, Read, Loop, Submit, Run, CancelJob, Answer, Timer, OwnerCancel, TaskBecomes,
       Wake, Calls, Register, Insert, Refuse, Claims, CancelRecord, Runs, Start, Accept,
       Write, Finish, Intervene, Release, Final, Shutdown, Close, CloseLook,
       CloseInterrupt, CloseStop, Exit, World, Crash, Open, Tick, StepBack, Gone

-----------------------------------------------------------------------------
(* The theorems.                                                           *)

LEMMA NextStep ==
    ASSUME IInv, [Next]_vars
    PROVE  TableStep /\ IInv'
<1>1. CASE Next
  <2>1. TableStep /\ now' \in Nat /\ Installed'
    BY <1>1, ReadStep, LoopStep, CallsStep, RunsStep, ShutdownStep, WorldStep
       DEF Next, IInv
  <2>2. SucceededIsEarned'
    <3> SUFFICES ASSUME NEW j \in Jobs, jobs'[j].state = "succeeded"
                 PROVE  j \in artifacts' /\ jobs'[j].updated < Deadline[j]
      BY DEF SucceededIsEarned
    <3>1. CASE jobs'[j] = jobs[j]
      BY <1>1, <3>1, ArtifactsStay DEF IInv, SucceededIsEarned
    <3>2. CASE j \in artifacts /\ jobs'[j].updated < Deadline[j]
      BY <1>1, <3>2, ArtifactsStay
    <3> QED BY <2>1, <3>1, <3>2 DEF TableStep, Allowed
  <2> QED BY <2>1, <2>2 DEF IInv, TableStep
<1>2. CASE UNCHANGED vars
  <2>1. IInv'
    BY <1>2 DEF vars, IInv, SucceededIsEarned, Installed
  <2> QED BY <1>2, <2>1, SameTable DEF vars
<1> QED BY <1>1, <1>2

LEMMA InitHolds == Init => IInv
BY JobFacts, NotSucceeding DEF Init, IInv, SucceededIsEarned, Installed, Absent

\* A job that is reported as succeeded has its artifact in the store and was
\* registered before its deadline (_accept and finish of store.py).
THEOREM SuccessIsEarned == Spec => []SucceededIsEarned
<1>1. Init => IInv
  BY InitHolds
<1>2. IInv /\ [Next]_vars => IInv'
  BY NextStep
<1>3. IInv => SucceededIsEarned
  BY DEF IInv
<1> QED BY <1>1, <1>2, <1>3, PTL DEF Spec

\* No operation of the store and no end of a run changes a terminal job again.
THEOREM TerminalStaysFinal == Spec => TerminalIsFinal
<1>1. Init => IInv
  BY InitHolds
<1>2. IInv /\ [Next]_vars => IInv'
  BY NextStep
<1>3. IInv /\ [Next]_vars =>
         [\A j \in Jobs : jobs[j].state \in Terminal => jobs'[j] = jobs[j]]_vars
  BY NextStep DEF TableStep, Allowed
<1> QED BY <1>1, <1>2, <1>3, PTL DEF Spec, TerminalIsFinal

-----------------------------------------------------------------------------
Keeps(r, s) ==
    /\ s.attempt = r.attempt
    /\ s.state = "running" => r.state = "running"
    /\ s = Absent => r = Absent

\* Nothing here cancels for good.
Spares(r, s) == s.state = "cancelled" => r.state = "cancelled"

GoodRow(r) ==
    /\ r = Absent \/ r \in Record
    /\ r.state \in {"running", "succeeded", "interrupted"} => r.attempt > 0
    /\ r.state = "queued" => r.attempt = 0

TableOK == now \in 0 .. MaxTime /\ \A j \in Jobs : GoodRow(jobs[j])

\* What the runner knows of its tasks.
Tasks == [attempt : Nat, owner : BOOLEAN,
          task : {"none", "working", "answered", "raised", "expired", "cancelled"}]
TasksOK ==
    /\ active \in [Jobs -> Tasks]
    /\ \A j \in Jobs : active[j].attempt <= jobs[j].attempt

\* The steps of a call that works on an attempt, that are about to claim one, and
\* the others.
RunSteps == {"start", "accept", "write", "succeeded", "deadline", "failed", "cancelled",
             "release"}
LookSteps == {"claim", "resume"}
Steps == RunSteps \cup LookSteps \cup
         {"none", "register", "insert", "final", "intervene", "cancel", "close", "interrupt"}

CallRecord == [at : Steps, job : Jobs \cup {0}, attempt : Nat, rest : SUBSET Jobs,
               raises : BOOLEAN]
CallTyped ==
    /\ call \in CallRecord
    /\ call.at \notin {"none", "close"} => call.job \in Jobs
    /\ up \/ call = None

Claimed ==
    call.at = "start" =>
        active[call.job] = NoTask /\ call.attempt = jobs[call.job].attempt

Journalled ==
    call.at \in LookSteps =>
        jobs[call.job] # Absent /\ Phases(call.job, jobs[call.job]) \subseteq journal

\* The attempts before the present one of a job.
Past(j, attempt, events) ==
    \A n \in 1 .. attempt - 1 :
        Trial(j, "started", n) \in events /\ Trial(j, "interrupted", n) \in events

Trail == \A j \in Jobs : Past(j, jobs[j].attempt, journal)

Held ==
    up /\ ~journalError =>
        \A j \in Jobs : jobs[j].state = "running" =>
            \/ active[j].attempt = jobs[j].attempt
            \/ call.at \in RunSteps /\ call.job = j /\ call.attempt = jobs[j].attempt

Stored ==
    /\ artifacts \subseteq Jobs
    /\ \A e \in journal : e.phase \in {"registered", "started"} \cup JobState
    /\ up \in BOOLEAN /\ closing \in BOOLEAN /\ journalError \in BOOLEAN

JInv ==
    /\ IInv /\ TableOK /\ TasksOK /\ CallTyped /\ Claimed /\ Journalled /\ Held
    /\ Trail /\ JournalHasNoHoles /\ Stored

-----------------------------------------------------------------------------
(* The statements of the store.                                            *)

LEMMA GoodFields ==
    ASSUME NEW r, GoodRow(r)
    PROVE  /\ r.state \in JobState \cup {"absent"} /\ r.attempt \in 0 .. MaxAttempts
           /\ r.updated \in 0 .. MaxTime
           /\ r = Absent <=> r.state = "absent"
BY JobsAssumption DEF GoodRow, Record, Absent, JobState, Terminal

LEMMA MoveKeeps ==
    ASSUME NEW r, GoodRow(r), now \in 0 .. MaxTime,
           NEW state \in JobState \ {"running", "queued"},
           state \in {"succeeded", "interrupted"} => r.attempt > 0
    PROVE  /\ GoodRow(Move(r, state)) /\ Keeps(r, Move(r, state))
           /\ Move(r, state).state = state
<1>1. Later(r, now) \in 0 .. MaxTime
  BY GoodFields DEF Later
<1>2. /\ Move(r, state) = [state |-> state, attempt |-> r.attempt, updated |-> Later(r, now)]
      /\ Move(r, state) \in Record
  BY <1>1, GoodFields DEF Move, Record
<1> QED BY <1>2 DEF GoodRow, Keeps, Absent, JobState, Terminal

LEMMA ExpireKeeps ==
    ASSUME NEW j \in Jobs, NEW r, GoodRow(r), now \in 0 .. MaxTime
    PROVE  /\ GoodRow(Expire(j, r)) /\ Keeps(r, Expire(j, r)) /\ Spares(r, Expire(j, r))
           /\ Expire(j, r).state \notin Terminal => Expire(j, r) = r
<1>1. GoodRow(r) /\ Keeps(r, r) /\ Spares(r, r)
  BY DEF Keeps, Spares
<1>2. \A state \in {"failed", "deadline_expired"} :
        /\ GoodRow(Move(r, state)) /\ Keeps(r, Move(r, state)) /\ Spares(r, Move(r, state))
        /\ Move(r, state).state \in Terminal
  BY MoveKeeps DEF JobState, Terminal, Spares
<1> QED BY <1>1, <1>2 DEF Expire

LEMMA CancelledKeeps ==
    ASSUME NEW j \in Jobs, NEW r, GoodRow(r), now \in 0 .. MaxTime
    PROVE  /\ GoodRow(Cancelled(j, r)) /\ Keeps(r, Cancelled(j, r))
           /\ Cancelled(j, r).state # "running"
<1> DEFINE seen == Expire(j, r)
<1>1. GoodRow(seen) /\ Keeps(r, seen) /\ (seen.state \notin Terminal => seen = r)
  BY ExpireKeeps
<1>2. CASE seen.state \in Terminal
  BY <1>1, <1>2 DEF Cancelled, Terminal
<1>3. CASE seen.state \notin Terminal
  <2>1. Cancelled(j, r) = Move(r, "cancelled")
    BY <1>1, <1>3 DEF Cancelled
  <2> QED BY <2>1, MoveKeeps DEF JobState, Terminal
<1> QED BY <1>2, <1>3

LEMMA RecoveredKeeps ==
    ASSUME NEW j \in Jobs, NEW r, GoodRow(r), now \in 0 .. MaxTime
    PROVE  /\ GoodRow(Recovered(j, r)) /\ Keeps(r, Recovered(j, r))
           /\ Spares(r, Recovered(j, r)) /\ Recovered(j, r).state # "running"
<1> DEFINE seen == Expire(j, r)
<1>1. /\ GoodRow(seen) /\ Keeps(r, seen) /\ Spares(r, seen)
      /\ seen.state \notin Terminal => seen = r
  BY ExpireKeeps
<1>2. CASE seen.state # "running"
  BY <1>1, <1>2 DEF Recovered
<1>3. CASE seen.state = "running"
  <2>1. seen = r /\ r.attempt > 0
    BY <1>1, <1>3 DEF Terminal, GoodRow
  <2>2. Recovered(j, r) = Move(r, "interrupted")
    BY <2>1, <1>3 DEF Recovered
  <2> QED BY <2>1, <2>2, MoveKeeps DEF JobState, Terminal, Spares
<1> QED BY <1>2, <1>3

\* finish() leaves nothing of the attempt running.
Ended == {"succeeded", "failed", "deadline_expired", "interrupted"}

LEMMA FinishedKeeps ==
    ASSUME NEW j \in Jobs, NEW r, GoodRow(r), now \in 0 .. MaxTime, NEW n, NEW state \in Ended
    PROVE  /\ GoodRow(Finished(j, r, n, state)) /\ Keeps(r, Finished(j, r, n, state))
           /\ Spares(r, Finished(j, r, n, state))
           /\ ~(Finished(j, r, n, state).state = "running"
                /\ Finished(j, r, n, state).attempt = n)
<1> DEFINE seen == Expire(j, r)
<1>1. /\ GoodRow(seen) /\ Keeps(r, seen) /\ Spares(r, seen)
      /\ seen.state \notin Terminal => seen = r
  BY ExpireKeeps
<1>2. CASE ~(seen.state = "running" /\ seen.attempt = n)
  BY <1>1, <1>2 DEF Finished
<1>3. CASE seen.state = "running" /\ seen.attempt = n
  <2>1. seen = r /\ r.attempt > 0
    BY <1>1, <1>3 DEF Terminal, GoodRow
  <2>2. Finished(j, r, n, state) = Move(r, state)
    BY <2>1, <1>3 DEF Finished
  <2>3. state \in JobState \ {"running", "queued"} /\ state # "cancelled"
    BY DEF Ended, JobState, Terminal
  <2> QED BY <2>1, <2>2, <2>3, MoveKeeps DEF Spares
<1> QED BY <1>2, <1>3

\* claim() begins the next attempt, of a job that is queued or interrupted, or it
\* leaves the attempt alone.
LEMMA ClaimCounts ==
    ASSUME NEW j \in Jobs, NEW r, GoodRow(r), now \in 0 .. MaxTime, NEW resume \in BOOLEAN
    PROVE  /\ GoodRow(Claim(j, r, resume)) /\ Spares(r, Claim(j, r, resume))
           /\ Claim(j, r, resume) = Absent => r = Absent
           /\ \/ Keeps(r, Claim(j, r, resume))
              \/ /\ r.state \in {"queued", "interrupted"}
                 /\ Claim(j, r, resume) =
                       [state |-> "running", attempt |-> r.attempt + 1, updated |-> now]
<1> DEFINE seen == Expire(j, r)
           required == IF resume THEN "interrupted" ELSE "queued"
<1>1. /\ GoodRow(seen) /\ Keeps(r, seen) /\ Spares(r, seen)
      /\ seen.state \notin Terminal => seen = r
  BY ExpireKeeps
<1>2. CASE seen.state # required
  BY <1>1, <1>2 DEF Claim, Keeps
<1>3. CASE seen.state = required
  <2>1. seen = r /\ r.state = required /\ r.state \in {"queued", "interrupted"}
    BY <1>1, <1>3 DEF Terminal
  <2>2. CASE r.attempt >= MaxAttempts
    <3>1. Claim(j, r, resume) = Move(r, "failed")
      BY <1>3, <2>1, <2>2 DEF Claim
    <3> QED BY <3>1, <2>1, MoveKeeps DEF JobState, Terminal, Spares, Keeps
  <2>3. CASE ~(r.attempt >= MaxAttempts)
    <3>1. Claim(j, r, resume) =
             [state |-> "running", attempt |-> r.attempt + 1, updated |-> now]
      BY <1>3, <2>1, <2>3 DEF Claim
    <3>2. r.attempt + 1 \in 1 .. MaxAttempts
      BY <2>3, GoodFields, JobsAssumption
    <3> QED BY <3>1, <3>2, <2>1 DEF GoodRow, Record, JobState, Spares, Absent
  <2> QED BY <2>2, <2>3
<1> QED BY <1>2, <1>3

-----------------------------------------------------------------------------
(* The table.                                                              *)

\* A row that a step leaves to the job j; nobody is cancelled for good but by
\* `intends`.
Follows(j, s, intends) ==
    /\ GoodRow(s) /\ Keeps(jobs[j], s)
    /\ intends \/ Spares(jobs[j], s)

RowsFollow(intends) ==
    /\ DOMAIN jobs' = Jobs
    /\ \A j \in Jobs : Follows(j, jobs'[j], intends)

LEMMA OneFollows ==
    ASSUME JInv, NEW j, NEW r, NEW intends \in BOOLEAN, jobs' = With(j, r),
           j \in Jobs => Follows(j, r, intends)
    PROVE  RowsFollow(intends)
<1>1. DOMAIN jobs = Jobs
  BY DEF JInv, IInv
<1>2. \A i \in Jobs : jobs'[i] = IF i = j THEN r ELSE jobs[i]
  BY <1>1 DEF With
<1>3. \A i \in Jobs : Follows(i, jobs[i], intends)
  BY DEF JInv, TableOK, Follows, Keeps, Spares
<1> QED BY <1>1, <1>2, <1>3 DEF RowsFollow, With

LEMMA NoneFollows ==
    ASSUME JInv, UNCHANGED jobs
    PROVE  RowsFollow(FALSE)
BY DEF JInv, IInv, TableOK, RowsFollow, Follows, Keeps, Spares

LEMMA LookFollows ==
    ASSUME JInv, NEW j, jobs' = With(j, Expire(j, jobs[j]))
    PROVE  RowsFollow(FALSE)
<1>1. j \in Jobs => Follows(j, Expire(j, jobs[j]), FALSE)
  BY ExpireKeeps DEF JInv, TableOK, Follows
<1> QED BY <1>1, OneFollows

LEMMA EndFollows ==
    ASSUME JInv, NEW j \in Jobs, NEW n, NEW state \in Ended, jobs' = Ends(j, n, state)
    PROVE  /\ RowsFollow(FALSE)
           /\ ~(jobs'[j].state = "running" /\ jobs'[j].attempt = n)
<1>1. /\ Follows(j, Finished(j, jobs[j], n, state), FALSE)
      /\ ~(Finished(j, jobs[j], n, state).state = "running"
           /\ Finished(j, jobs[j], n, state).attempt = n)
  BY FinishedKeeps DEF JInv, TableOK, Follows
<1>2. jobs'[j] = Finished(j, jobs[j], n, state)
  BY DEF JInv, IInv, Ends, With
<1> QED BY <1>1, <1>2, OneFollows DEF Ends

LEMMA CancelFollows ==
    ASSUME JInv, NEW j \in Jobs, jobs' = With(j, Cancelled(j, jobs[j]))
    PROVE  RowsFollow(TRUE) /\ jobs'[j].state # "running"
<1>1. /\ Follows(j, Cancelled(j, jobs[j]), TRUE)
      /\ Cancelled(j, jobs[j]).state # "running"
  BY CancelledKeeps DEF JInv, TableOK, Follows
<1>2. jobs'[j] = Cancelled(j, jobs[j])
  BY DEF JInv, IInv, With
<1> QED BY <1>1, <1>2, OneFollows

-----------------------------------------------------------------------------
(* The audit and the transaction.                                          *)

LEMMA PhasesAre ==
    ASSUME NEW j, NEW r, NEW e \in Phases(j, r)
    PROVE  /\ e.job = j
           /\ e.attempt = 0 \/ e.attempt = r.attempt
           /\ e.phase \in {"registered", "started", r.state}
BY DEF Phases, Trial

LEMMA Transacted ==
    ASSUME NEW table, NEW then, NEW raised, Transaction(table, then, raised)
    PROVE  /\ jobs' = table
           /\ journal \subseteq journal' /\ journal' \subseteq journal \cup Owed(table)
           /\ \/ /\ call' = then /\ journalError' = journalError
                 /\ Owed(table) \subseteq journal'
              \/ call' = raised /\ journalError' = TRUE
BY DEF Transaction, Audited, AuditFails

\* An audit leaves no hole before the attempts of the table if there is none.
LEMMA AuditLeavesNoHole ==
    ASSUME JInv, Trail', \A j \in Jobs : GoodRow(jobs'[j]), NEW j0,
           journal \subseteq journal',
           journal' \subseteq journal \cup Owed(jobs') \cup {Trial(j0, "registered", 0)}
    PROVE  /\ JournalHasNoHoles'
           /\ \A e \in journal' : e.phase \in {"registered", "started"} \cup JobState
<1>1. \A e \in Owed(jobs') : /\ e.job \in Jobs
                             /\ e.attempt = 0 \/ e.attempt = jobs'[e.job].attempt
                             /\ e.phase \in {"registered", "started"} \cup JobState
  <2> TAKE e \in Owed(jobs')
  <2>1. PICK j \in Jobs : jobs'[j] # Absent /\ e \in Phases(j, jobs'[j])
    BY DEF Owed
  <2>2. jobs'[j].state \in JobState
    BY <2>1, GoodFields DEF GoodRow, Record
  <2> QED BY <2>1, <2>2, PhasesAre
<1>2. Trial(j0, "registered", 0).attempt = 0 /\ Trial(j0, "registered", 0).phase = "registered"
  BY DEF Trial
<1>3. JournalHasNoHoles'
  <2> SUFFICES ASSUME NEW e \in journal', e.attempt > 1, NEW n \in 1 .. (e.attempt - 1)
               PROVE  {Trial(e.job, "started", n), Trial(e.job, "interrupted", n)}
                          \subseteq journal'
    BY DEF JournalHasNoHoles
  <2>1. CASE e \in journal
    BY <2>1 DEF JInv, JournalHasNoHoles
  <2>2. CASE e \in Owed(jobs')
    <3>1. e.job \in Jobs /\ e.attempt = jobs'[e.job].attempt
      BY <1>1, <2>2
    <3> QED BY <3>1 DEF Trail, Past
  <2>3. CASE e = Trial(j0, "registered", 0)
    BY <2>3, <1>2
  <2> QED BY <2>1, <2>2, <2>3
<1> QED BY <1>1, <1>2, <1>3 DEF JInv, Stored

\* What the journal has of every job once the attempts of the table are as before.
LEMMA JournalGrows ==
    ASSUME JInv, NEW intends \in BOOLEAN, RowsFollow(intends), journal \subseteq journal',
           NEW j0, journal' \subseteq journal \cup Owed(jobs') \cup {Trial(j0, "registered", 0)}
    PROVE  Trail' /\ JournalHasNoHoles'
           /\ \A e \in journal' : e.phase \in {"registered", "started"} \cup JobState
<1>1. \A j \in Jobs : jobs'[j].attempt = jobs[j].attempt /\ GoodRow(jobs'[j])
  BY DEF RowsFollow, Follows, Keeps
<1>2. \A j \in Jobs : Past(j, jobs[j].attempt, journal')
  BY DEF JInv, Trail, Past
<1>3. Trail'
  BY <1>1, <1>2 DEF Trail
<1> QED BY <1>1, <1>3, AuditLeavesNoHole

-----------------------------------------------------------------------------
(* The steps.                                                              *)

Goes == /\ TableOK' /\ TasksOK' /\ CallTyped' /\ Claimed' /\ Journalled' /\ Held'
        /\ Trail' /\ JournalHasNoHoles' /\ Stored'

\* A call that a transaction can lead to.
Calm(c) ==
    /\ c \in CallRecord /\ c.at # "start"
    /\ c.at \notin {"none", "close"} => c.job \in Jobs

\* The call c still works on the attempt that this call does, unless that has ended.
Continues(c) ==
    call.at \in RunSteps =>
        \/ c.at \in RunSteps /\ c.job = call.job /\ c.attempt = call.attempt
        \/ ~(jobs'[call.job].state = "running" /\ jobs'[call.job].attempt = call.attempt)

LEMMA HeldStays ==
    ASSUME JInv, NEW intends \in BOOLEAN, RowsFollow(intends),
           up' /\ ~journalError' => up /\ ~journalError,
           \A j \in Jobs : active'[j].attempt = active[j].attempt,
           ~journalError' => Continues(call')
    PROVE  Held'
<1> SUFFICES ASSUME up', ~journalError', NEW j \in Jobs, jobs'[j].state = "running"
             PROVE  \/ active'[j].attempt = jobs'[j].attempt
                    \/ /\ call'.at \in RunSteps
                       /\ call'.job = j /\ call'.attempt = jobs'[j].attempt
  BY DEF Held
<1>1. jobs[j].state = "running" /\ jobs[j].attempt = jobs'[j].attempt
  BY DEF RowsFollow, Follows, Keeps
<1>2. \/ active[j].attempt = jobs[j].attempt
      \/ call.at \in RunSteps /\ call.job = j /\ call.attempt = jobs[j].attempt
  BY <1>1 DEF JInv, Held
<1>3. CASE active[j].attempt = jobs[j].attempt
  BY <1>1, <1>3
<1>4. CASE call.at \in RunSteps /\ call.job = j /\ call.attempt = jobs[j].attempt
  BY <1>1, <1>4 DEF Continues
<1> QED BY <1>2, <1>3, <1>4

\* A step that is one transaction, of which `then` or `raised` is left to do.
LEMMA TransactionStep ==
    ASSUME JInv, up, NEW intends \in BOOLEAN, RowsFollow(intends),
           NEW then, NEW raised, Transaction(jobs', then, raised),
           UNCHANGED <<artifacts, up, now>>, closing' = closing,
           active' \in [Jobs -> Tasks],
           \A j \in Jobs : active'[j].attempt = active[j].attempt,
           Calm(then), Calm(raised), Continues(then), raised.at \notin LookSteps,
           then.at \in LookSteps => jobs'[then.job] # Absent
    PROVE  Goes
<1>1. /\ journal \subseteq journal' /\ journal' \subseteq journal \cup Owed(jobs')
      /\ \/ /\ call' = then /\ journalError' = journalError
            /\ Owed(jobs') \subseteq journal'
         \/ call' = raised /\ journalError' = TRUE
  BY Transacted
<1>2. /\ Trail' /\ JournalHasNoHoles'
      /\ \A e \in journal' : e.phase \in {"registered", "started"} \cup JobState
  BY <1>1, JournalGrows
<1>3. TableOK'
  BY DEF RowsFollow, Follows, TableOK, JInv
<1>4. TasksOK'
  BY DEF RowsFollow, Follows, Keeps, TasksOK, JInv
<1>5. CallTyped' /\ Claimed'
  BY <1>1 DEF Calm, CallTyped, Claimed
<1>6. Journalled'
  <2> SUFFICES ASSUME call'.at \in LookSteps
               PROVE  /\ jobs'[call'.job] # Absent
                      /\ Phases(call'.job, jobs'[call'.job]) \subseteq journal'
    BY DEF Journalled
  <2>1. call' = then /\ then.job \in Jobs /\ jobs'[then.job] # Absent
    BY <1>1 DEF Calm, LookSteps
  <2>2. Phases(then.job, jobs'[then.job]) \subseteq journal \cup Owed(jobs')
    BY <2>1 DEF Owed
  <2> QED BY <1>1, <2>1, <2>2
<1>7. Held'
  BY <1>1, HeldStays
<1>8. Stored'
  BY <1>1, <1>2 DEF Stored, JInv
<1> QED BY <1>2, <1>3, <1>4, <1>5, <1>6, <1>7, <1>8 DEF Goes

\* A step that leaves the table and the journal alone.
LEMMA OtherStep ==
    ASSUME JInv, UNCHANGED <<jobs, journal>>,
           up' => up, up' \in BOOLEAN, up' \/ call' = None,
           now' \in 0 .. MaxTime, artifacts' \subseteq Jobs,
           closing' \in BOOLEAN, journalError' = journalError,
           active' \in [Jobs -> Tasks],
           \A j \in Jobs : active'[j].attempt = active[j].attempt,
           \/ call' = call /\ (call.at = "start" => active' = active)
           \/ Calm(call') /\ Continues(call') /\ call'.at \notin LookSteps
    PROVE  Goes
<1>1. RowsFollow(FALSE)
  BY NoneFollows
<1>2. TableOK' /\ Trail' /\ JournalHasNoHoles' /\ Stored'
  BY DEF JInv, TableOK, Trail, JournalHasNoHoles, Stored
<1>3. TasksOK'
  BY DEF TasksOK, JInv
<1>4. CallTyped' /\ Claimed' /\ Journalled'
  BY DEF JInv, Calm, CallTyped, Claimed, Journalled
<1>5. Continues(call')
  BY DEF Continues
<1>6. Held'
  BY <1>1, <1>5, HeldStays
<1> QED BY <1>2, <1>3, <1>4, <1>6 DEF Goes

LEMMA CallForms ==
    /\ Calm(None) /\ None.at = "none"
    /\ \A step \in Steps \ {"start"}, j \in Jobs, n \in Nat :
          /\ Calm(At(step, j, n)) /\ At(step, j, n).at = step
          /\ At(step, j, n).job = j /\ At(step, j, n).attempt = n
    /\ \A rest \in SUBSET Jobs : Calm(Closing(rest)) /\ Closing(rest).at = "close"
    /\ JInv /\ call.at \notin {"none", "close"} =>
          \A step \in Steps \ {"start"} :
             /\ Calm(Onward(step)) /\ Onward(step).at = step
             /\ Onward(step).job = call.job /\ Onward(step).attempt = call.attempt
<1>1. \A step, j, n, rest, raises :
         step \in Steps \ {"start"} /\ j \in Jobs \cup {0} /\ n \in Nat
         /\ rest \in SUBSET Jobs /\ raises \in BOOLEAN
         /\ (step \notin {"none", "close"} => j \in Jobs) =>
            Calm([at |-> step, job |-> j, attempt |-> n, rest |-> rest, raises |-> raises])
  BY DEF Calm, CallRecord
<1>2. {"none", "close"} \subseteq Steps \ {"start"}
  BY DEF Steps, RunSteps, LookSteps
<1>3. Calm(None) /\ None.at = "none"
  BY <1>1, <1>2 DEF None, At
<1>4. \A step \in Steps \ {"start"}, j \in Jobs, n \in Nat :
         /\ Calm(At(step, j, n)) /\ At(step, j, n).at = step
         /\ At(step, j, n).job = j /\ At(step, j, n).attempt = n
  BY <1>1 DEF At
<1>5. ASSUME NEW rest \in SUBSET Jobs
      PROVE  Calm(Closing(rest)) /\ Closing(rest).at = "close"
  <2>1. Closing(rest) = [at |-> "close", job |-> 0, attempt |-> 0, rest |-> rest,
                         raises |-> FALSE]
    BY DEF Closing, ClosingAt
  <2>2. Closing(rest) \in CallRecord
    BY <1>2, <2>1 DEF CallRecord
  <2>3. Closing(rest).at = "close"
    BY <2>1
  <2> QED BY <2>2, <2>3 DEF Calm
<1>6. ASSUME JInv, call.at \notin {"none", "close"}, NEW step \in Steps \ {"start"}
      PROVE  /\ Calm(Onward(step)) /\ Onward(step).at = step
             /\ Onward(step).job = call.job /\ Onward(step).attempt = call.attempt
  <2>1. Onward(step) = [at |-> step, job |-> call.job, attempt |-> call.attempt,
                        rest |-> {}, raises |-> call.raises]
    BY DEF Onward, At
  <2>2. call.job \in Jobs /\ call.attempt \in Nat /\ call.raises \in BOOLEAN
    BY <1>6 DEF JInv, CallTyped, CallRecord
  <2> QED BY <1>1, <2>1, <2>2
<1> QED BY <1>3, <1>4, <1>5, <1>6

LEMMA InACall ==
    ASSUME JInv, call.at # "none"
    PROVE  up /\ (call.at # "close" => call.job \in Jobs) /\ call.attempt \in Nat
BY DEF JInv, CallTyped, CallRecord, None, At

LEMMA SameTasks ==
    ASSUME JInv, UNCHANGED active
    PROVE  active' \in [Jobs -> Tasks] /\ \A j \in Jobs : active'[j].attempt = active[j].attempt
BY DEF JInv, TasksOK

\* A transaction of a call that leaves the tasks alone.
LEMMA QuietTransaction ==
    ASSUME JInv, up, NEW intends \in BOOLEAN, RowsFollow(intends),
           NEW then, NEW raised, Transaction(jobs', then, raised),
           UNCHANGED <<artifacts, loop, now>>,
           Calm(then), Calm(raised), Continues(then), raised.at \notin LookSteps,
           then.at \in LookSteps => jobs'[then.job] # Absent
    PROVE  Goes
<1>1. UNCHANGED <<artifacts, up, now>> /\ closing' = closing /\ UNCHANGED active
  BY DEF loop
<1> QED BY <1>1, SameTasks, TransactionStep

LEMMA ReadGoes == ASSUME JInv, Read PROVE Goes /\ RowsFollow(FALSE)
<1>1. PICK some \in {{j} : j \in Known} \cup {Known} :
         Transaction([j \in Jobs |-> IF j \in some THEN Expire(j, jobs[j]) ELSE jobs[j]],
                     None, None)
  BY DEF Read
<1>2. /\ jobs' = [j \in Jobs |-> IF j \in some THEN Expire(j, jobs[j]) ELSE jobs[j]]
      /\ Transaction(jobs', None, None)
  BY <1>1 DEF Transaction
<1>3. \A j \in Jobs : /\ Follows(j, Expire(j, jobs[j]), FALSE)
                     /\ Follows(j, jobs[j], FALSE)
  BY ExpireKeeps DEF JInv, TableOK, Follows, Keeps, Spares
<1>4. RowsFollow(FALSE)
  BY <1>2, <1>3 DEF RowsFollow
<1>5. up /\ UNCHANGED <<artifacts, loop, now>> /\ Continues(None) /\ None.at \notin LookSteps
  BY CallForms DEF Read, IsIdle, Continues, RunSteps, LookSteps
<1> QED BY <1>2, <1>4, <1>5, CallForms, QuietTransaction

LEMMA RunGoes == ASSUME JInv, NEW j \in Jobs, Run(j) PROVE Goes /\ RowsFollow(FALSE)
<1>1. PICK dispatch \in {"claim", "resume"} :
         Transaction(With(j, Expire(j, jobs[j])), At(dispatch, j, 0), None)
  BY DEF Run
<1>2. jobs' = With(j, Expire(j, jobs[j])) /\ Transaction(jobs', At(dispatch, j, 0), None)
  BY <1>1 DEF Transaction
<1>3. RowsFollow(FALSE)
  BY <1>2, LookFollows
<1>4. dispatch \in Steps \ {"start"} /\ 0 \in Nat
  BY DEF Steps, LookSteps
<1>5. Calm(At(dispatch, j, 0)) /\ At(dispatch, j, 0).job = j
  BY <1>4, CallForms
<1>6. jobs'[j] # Absent
  BY <1>3 DEF Run, Known, RowsFollow, Follows, Keeps
<1>7. /\ up /\ UNCHANGED <<artifacts, loop, now>> /\ None.at \notin LookSteps
      /\ Continues(At(dispatch, j, 0))
  BY CallForms DEF Run, IsIdle, Continues, RunSteps, LookSteps
<1> QED BY <1>2, <1>3, <1>5, <1>6, <1>7, CallForms, QuietTransaction

LEMMA StoppedTasks ==
    ASSUME JInv, NEW j \in Jobs, active' = [active EXCEPT ![j] = Stopped(@)]
    PROVE  active' \in [Jobs -> Tasks] /\ \A i \in Jobs : active'[i].attempt = active[i].attempt
<1>1. Stopped(active[j]) \in Tasks /\ Stopped(active[j]).attempt = active[j].attempt
  BY DEF JInv, TasksOK, Tasks, Stopped
<1> QED BY <1>1 DEF JInv, TasksOK

LEMMA CancelJobGoes == ASSUME JInv, NEW j \in Jobs, CancelJob(j) PROVE Goes /\ RowsFollow(FALSE)
<1>1. jobs' = With(j, Expire(j, jobs[j])) /\ Transaction(jobs', At("intervene", j, 0), None)
  BY DEF CancelJob, Transaction
<1>2. RowsFollow(FALSE)
  BY <1>1, LookFollows
<1>3. "intervene" \in Steps \ {"start"} /\ 0 \in Nat
  BY DEF Steps
<1>4. Calm(At("intervene", j, 0)) /\ At("intervene", j, 0).at = "intervene"
  BY <1>3, CallForms
<1>5. /\ active' \in [Jobs -> Tasks]
      /\ \A i \in Jobs : active'[i].attempt = active[i].attempt
  <2>1. active' = active \/ active' = [active EXCEPT ![j] = Stopped(@)]
    BY DEF CancelJob, JInv, TasksOK
  <2> QED BY <2>1, SameTasks, StoppedTasks
<1>6. /\ up /\ UNCHANGED <<artifacts, up, now>> /\ closing' = closing
      /\ Continues(At("intervene", j, 0)) /\ None.at \notin LookSteps
  BY CallForms DEF CancelJob, IsIdle, Continues, RunSteps, LookSteps
<1> QED BY <1>1, <1>2, <1>4, <1>5, <1>6, CallForms, TransactionStep DEF LookSteps

LEMMA TaskGoes ==
    ASSUME JInv, NEW j \in Jobs, Answer(j) \/ Timer(j) \/ OwnerCancel(j)
    PROVE  Goes /\ RowsFollow(FALSE)
<1>1. /\ UNCHANGED <<jobs, artifacts, ledger, up, closing, call, now>> /\ IsIdle
      /\ \/ \E task \in {"answered", "raised", "expired"} :
               active' = [active EXCEPT ![j].task = task]
         \/ active' = [active EXCEPT ![j].owner = TRUE, ![j].task = "cancelled"]
  BY DEF Answer, Timer, OwnerCancel, TaskBecomes
<1>2. active' \in [Jobs -> Tasks] /\ \A i \in Jobs : active'[i].attempt = active[i].attempt
  <2>1. active \in [Jobs -> Tasks] /\ DOMAIN active = Jobs
    BY DEF JInv, TasksOK
  <2>2. CASE \E task \in {"answered", "raised", "expired"} :
                active' = [active EXCEPT ![j].task = task]
    <3>1. PICK task \in {"answered", "raised", "expired"} :
             active' = [active EXCEPT ![j].task = task]
      BY <2>2
    <3>2. active'[j] = [active[j] EXCEPT !.task = task]
      BY <2>1, <3>1
    <3>3. active'[j] \in Tasks /\ active'[j].attempt = active[j].attempt
      BY <2>1, <3>2 DEF Tasks
    <3>4. DOMAIN active' = Jobs /\ \A i \in Jobs \ {j} : active'[i] = active[i]
      BY <2>1, <3>1
    <3>5. \A i \in Jobs : active'[i] \in Tasks /\ active'[i].attempt = active[i].attempt
      BY <2>1, <3>3, <3>4
    <3> QED BY <3>1, <3>4, <3>5
  <2>3. CASE active' = [active EXCEPT ![j].owner = TRUE, ![j].task = "cancelled"]
    <3>2. active'[j] = [active[j] EXCEPT !.owner = TRUE, !.task = "cancelled"]
      BY <2>1, <2>3
    <3>3. active'[j] \in Tasks /\ active'[j].attempt = active[j].attempt
      BY <2>1, <3>2 DEF Tasks
    <3>4. DOMAIN active' = Jobs /\ \A i \in Jobs \ {j} : active'[i] = active[i]
      BY <2>1, <2>3
    <3>5. \A i \in Jobs : active'[i] \in Tasks /\ active'[i].attempt = active[i].attempt
      BY <2>1, <3>3, <3>4
    <3> QED BY <2>3, <3>4, <3>5
  <2> QED BY <1>1, <2>2, <2>3
<1>3. /\ call.at # "start" /\ now' \in 0 .. MaxTime /\ artifacts' \subseteq Jobs
      /\ closing' \in BOOLEAN /\ up' = TRUE /\ up
  BY <1>1, CallForms DEF IsIdle, JInv, TableOK, Stored
<1>4. UNCHANGED <<jobs, journal>> /\ journalError' = journalError /\ call' = call
  BY <1>1 DEF ledger
<1> QED BY <1>2, <1>3, <1>4, OtherStep, NoneFollows

LEMMA SubmitGoes == ASSUME JInv, NEW j \in Jobs, Submit(j) PROVE Goes /\ RowsFollow(FALSE)
<1>1. /\ IsIdle /\ call' = At("register", j, now)
      /\ UNCHANGED <<jobs, artifacts, ledger, loop, now>>
  BY DEF Submit
<1>2. "register" \in Steps \ {"start"} /\ now \in Nat
  BY DEF Steps, JInv, TableOK
<1>3. Calm(call') /\ call'.at = "register"
  BY <1>1, <1>2, CallForms
<1>4. /\ now' \in 0 .. MaxTime /\ artifacts' \subseteq Jobs /\ closing' \in BOOLEAN
      /\ (up' => up) /\ up' \in BOOLEAN /\ up' /\ call.at = "none"
      /\ UNCHANGED <<jobs, journal>> /\ journalError' = journalError /\ UNCHANGED active
  BY <1>1, CallForms DEF IsIdle, JInv, TableOK, Stored, ledger, loop
<1>5. Continues(call') /\ call'.at \notin LookSteps
  BY <1>3, <1>4 DEF Continues, RunSteps, LookSteps
<1> QED BY <1>3, <1>4, <1>5, SameTasks, OtherStep, NoneFollows

\* The handler of run() takes the attempt over from the task.
LEMMA WakeGoes == ASSUME JInv, NEW j \in Jobs, Wake(j) PROVE Goes /\ RowsFollow(FALSE)
<1>1. /\ IsIdle /\ active[j].task \in DOMAIN Handler
      /\ active' = [active EXCEPT ![j] = NoTask]
      /\ call' = [At(Handler[active[j].task], j, active[j].attempt) EXCEPT
                    !.raises = active[j].owner]
      /\ UNCHANGED <<jobs, artifacts, ledger, up, closing, now>>
  BY DEF Wake
<1>2. active \in [Jobs -> Tasks] /\ active[j].attempt \in Nat /\ active[j].owner \in BOOLEAN
  BY DEF JInv, TasksOK, Tasks
<1>3. Handler[active[j].task] \in RunSteps \ {"start"}
  BY <1>1 DEF Handler, RunSteps
<1>4. call' = [at |-> Handler[active[j].task], job |-> j, attempt |-> active[j].attempt,
               rest |-> {}, raises |-> active[j].owner]
  BY <1>1 DEF At
<1>5. /\ call' \in CallRecord /\ call'.at \in RunSteps \ {"start"}
      /\ call'.job = j /\ call'.attempt = active[j].attempt
  BY <1>2, <1>3, <1>4 DEF CallRecord, Steps
<1>6. RowsFollow(FALSE) /\ up' /\ call.at = "none"
  BY <1>1, NoneFollows, CallForms DEF IsIdle
<1>7. CallTyped' /\ Claimed' /\ Journalled'
  BY <1>5, <1>6 DEF CallTyped, Claimed, Journalled, LookSteps, RunSteps
<1>8. NoTask \in Tasks /\ NoTask.attempt = 0
  BY DEF NoTask, Tasks
<1>9. TasksOK'
  <2>1. active' \in [Jobs -> Tasks]
    BY <1>1, <1>2, <1>8
  <2>2. \A i \in Jobs : active'[i].attempt <= jobs[i].attempt
    BY <1>1, <1>2, <1>8, GoodFields DEF JInv, TasksOK, TableOK
  <2> QED BY <1>1, <2>1, <2>2 DEF TasksOK
<1>10. Held'
  <2> SUFFICES ASSUME up', ~journalError', NEW i \in Jobs, jobs'[i].state = "running"
               PROVE  \/ active'[i].attempt = jobs'[i].attempt
                      \/ /\ call'.at \in RunSteps
                         /\ call'.job = i /\ call'.attempt = jobs'[i].attempt
    BY DEF Held
  <2>1. active[i].attempt = jobs[i].attempt
    BY <1>1, <1>6 DEF JInv, Held, RunSteps, ledger
  <2> QED BY <1>1, <1>2, <1>5, <2>1
<1>11. TableOK' /\ Trail' /\ JournalHasNoHoles' /\ Stored'
  BY <1>1 DEF JInv, TableOK, Trail, JournalHasNoHoles, Stored, ledger
<1> QED BY <1>6, <1>7, <1>9, <1>10, <1>11 DEF Goes

LEMMA RegisterGoes == ASSUME JInv, Register PROVE Goes /\ RowsFollow(FALSE)
<1> DEFINE event == Trial(call.job, "registered", 0)
<1>1. /\ call.at = "register"
      /\ call' = Onward("insert") \/ call' = None
      /\ journal \subseteq journal' /\ journal' \subseteq journal \cup {event}
      /\ UNCHANGED <<jobs, artifacts, journalError, loop, now>>
  BY DEF Register, Audited, AuditFails
<1>2. up /\ RowsFollow(FALSE)
  BY <1>1, InACall, NoneFollows
<1>3. "insert" \in Steps \ {"start"}
  BY DEF Steps
<1>4. Calm(call') /\ call'.at \in {"insert", "none"}
  BY <1>1, <1>3, CallForms
<1>5. /\ Trail' /\ JournalHasNoHoles'
      /\ \A e \in journal' : e.phase \in {"registered", "started"} \cup JobState
  BY <1>1, <1>2, JournalGrows
<1>6. TableOK' /\ Stored'
  BY <1>1, <1>5 DEF JInv, TableOK, Stored, loop
<1>7. TasksOK'
  BY <1>1 DEF JInv, TasksOK, loop
<1>8. CallTyped' /\ Claimed' /\ Journalled'
  BY <1>1, <1>2, <1>4 DEF Calm, CallTyped, Claimed, Journalled, LookSteps, loop
<1>9. Continues(call') /\ UNCHANGED <<up, journalError, active>>
  BY <1>1 DEF Continues, RunSteps, loop
<1>10. Held'
  BY <1>2, <1>9, HeldStays
<1> QED BY <1>2, <1>5, <1>6, <1>7, <1>8, <1>10 DEF Goes

LEMMA InsertGoes == ASSUME JInv, Insert PROVE Goes /\ RowsFollow(FALSE)
<1> DEFINE j == call.job
           row == [state |-> "queued", attempt |-> 0, updated |-> now]
<1>1. /\ call.at = "insert" /\ UNCHANGED <<artifacts, loop, now>>
      /\ \/ /\ jobs' = With(j, Expire(j, jobs[j]))
            /\ Transaction(jobs', None, None)
         \/ /\ jobs[j] = Absent /\ jobs' = With(j, row)
            /\ Transaction(jobs', None, None)
         \/ call' = None /\ UNCHANGED <<jobs, ledger, troubles>>
  BY DEF Insert, Transaction
<1>2. up /\ j \in Jobs /\ Continues(None) /\ None.at \notin LookSteps
  BY <1>1, InACall, CallForms DEF Continues, RunSteps, LookSteps
<1>3. CASE jobs' = With(j, Expire(j, jobs[j])) /\ Transaction(jobs', None, None)
  <2>1. RowsFollow(FALSE)
    BY <1>3, LookFollows
  <2> QED BY <1>1, <1>2, <1>3, <2>1, CallForms, QuietTransaction
<1>4. CASE /\ jobs[j] = Absent /\ jobs' = With(j, row)
           /\ Transaction(jobs', None, None)
  <2>1. row \in Record
    BY JobsAssumption DEF Record, JobState, JInv, TableOK
  <2>2. Follows(j, row, FALSE)
    BY <1>4, <2>1 DEF Follows, GoodRow, Keeps, Spares, Absent
  <2>3. RowsFollow(FALSE)
    BY <1>4, <2>2, OneFollows
  <2> QED BY <1>1, <1>2, <1>4, <2>3, CallForms, QuietTransaction
<1>5. CASE call' = None /\ UNCHANGED <<jobs, ledger, troubles>>
  <2>1. /\ now' \in 0 .. MaxTime /\ artifacts' \subseteq Jobs /\ closing' \in BOOLEAN
        /\ (up' => up) /\ up' \in BOOLEAN /\ up'
        /\ UNCHANGED <<jobs, journal>> /\ journalError' = journalError /\ UNCHANGED active
    BY <1>1, <1>2, <1>5 DEF JInv, TableOK, Stored, ledger, loop
  <2> QED BY <1>2, <1>5, <2>1, CallForms, SameTasks, OtherStep, NoneFollows
<1> QED BY <1>1, <1>3, <1>4, <1>5

LEMMA RefuseGoes == ASSUME JInv, Refuse PROVE Goes /\ RowsFollow(FALSE)
<1>1. /\ call.at \in LookSteps /\ call' = None
      /\ UNCHANGED <<jobs, artifacts, ledger, loop, now>>
  BY DEF Refuse, LookSteps
<1>2. up /\ Continues(None) /\ None.at \notin LookSteps
  BY <1>1, InACall, CallForms DEF Continues, RunSteps, LookSteps
<1>3. /\ now' \in 0 .. MaxTime /\ artifacts' \subseteq Jobs /\ closing' \in BOOLEAN
      /\ (up' => up) /\ up' \in BOOLEAN /\ up'
      /\ UNCHANGED <<jobs, journal>> /\ journalError' = journalError /\ UNCHANGED active
  BY <1>1, <1>2 DEF JInv, TableOK, Stored, ledger, loop
<1> QED BY <1>1, <1>2, <1>3, CallForms, SameTasks, OtherStep, NoneFollows

\* The claim: nothing works on the job, whose attempts so far are in the journal.
LEMMA ClaimsGoes ==
    ASSUME JInv, Claims
    PROVE  Goes /\ \A i \in Jobs : Spares(jobs[i], jobs'[i])
<1> DEFINE j == call.job
           resume == call.at = "resume"
           after == Claim(j, jobs[j], resume)
           then == IF after.attempt > jobs[j].attempt THEN At("start", j, after.attempt)
                   ELSE None
<1>1. /\ call.at \in LookSteps /\ ~Busy(j) /\ UNCHANGED <<artifacts, loop, now>>
      /\ jobs' = With(j, after) /\ Transaction(jobs', then, None)
  BY DEF Claims, Transaction, LookSteps
<1>2. up /\ j \in Jobs /\ active[j] = NoTask
  BY <1>1, InACall DEF Busy, LookSteps
<1>3. GoodRow(jobs[j]) /\ now \in 0 .. MaxTime /\ jobs[j] # Absent
  BY <1>1, <1>2 DEF JInv, TableOK, Journalled
<1>4. /\ GoodRow(after) /\ Spares(jobs[j], after) /\ (after = Absent => jobs[j] = Absent)
      /\ \/ Keeps(jobs[j], after)
         \/ /\ jobs[j].state \in {"queued", "interrupted"}
            /\ after = [state |-> "running", attempt |-> jobs[j].attempt + 1,
                        updated |-> now]
  BY <1>2, <1>3, ClaimCounts
<1>5. /\ DOMAIN jobs' = Jobs
      /\ \A i \in Jobs : jobs'[i] = IF i = j THEN after ELSE jobs[i]
  BY <1>1 DEF JInv, IInv, With
<1>6. \A i \in Jobs : Spares(jobs[i], jobs'[i])
  BY <1>4, <1>5 DEF Spares
<1>7. CASE Keeps(jobs[j], after)
  <2>1. after.attempt = jobs[j].attempt /\ jobs[j].attempt \in Nat
    BY <1>3, <1>7, GoodFields DEF Keeps
  <2>2. then = None
    BY <2>1
  <2>3. RowsFollow(FALSE)
    BY <1>1, <1>4, <1>7, OneFollows DEF Follows
  <2>4. Continues(None) /\ None.at \notin LookSteps
    BY <1>1, CallForms DEF Continues, RunSteps, LookSteps
  <2>5. Transaction(jobs', None, None)
    BY <1>1, <2>2
  <2>6. Goes
    BY <1>1, <1>2, <2>3, <2>4, <2>5, CallForms, QuietTransaction
  <2> QED BY <1>6, <2>6
<1>8. CASE /\ jobs[j].state \in {"queued", "interrupted"}
           /\ after = [state |-> "running", attempt |-> jobs[j].attempt + 1, updated |-> now]
  <2>1. jobs[j].attempt \in Nat /\ after.attempt = jobs[j].attempt + 1
    BY <1>3, <1>8, GoodFields
  <2>2. then = At("start", j, after.attempt)
    BY <2>1
  <2>3. then = [at |-> "start", job |-> j, attempt |-> after.attempt, rest |-> {},
                raises |-> FALSE]
    BY <2>2 DEF At
  <2>4. then \in CallRecord /\ then.at = "start" /\ then.job = j
        /\ then.attempt = after.attempt
    <3>1. after.attempt \in Nat /\ "start" \in Steps
      BY <2>1 DEF Steps, RunSteps
    <3> HIDE DEF then, after, j
    <3> QED BY <1>2, <2>3, <3>1 DEF CallRecord
  <2>5. /\ journal \subseteq journal' /\ journal' \subseteq journal \cup Owed(jobs')
        /\ \/ call' = then /\ journalError' = journalError
           \/ call' = None /\ journalError' = TRUE
    BY <1>1, Transacted
  <2>6. \A i \in Jobs : GoodRow(jobs'[i])
    BY <1>4, <1>5 DEF JInv, TableOK
  <2>7. Past(j, after.attempt, journal)
    <3> SUFFICES ASSUME NEW n \in 1 .. jobs[j].attempt
                 PROVE  /\ Trial(j, "started", n) \in journal
                        /\ Trial(j, "interrupted", n) \in journal
      BY <2>1 DEF Past
    <3>1. CASE n = jobs[j].attempt
      <4>1. jobs[j].attempt > 0 /\ jobs[j].state = "interrupted"
        BY <1>3, <1>8, <3>1 DEF GoodRow
      <4>2. Phases(j, jobs[j]) \subseteq journal
        BY <1>1 DEF JInv, Journalled
      <4>3. /\ Trial(j, "started", jobs[j].attempt) \in Phases(j, jobs[j])
            /\ Trial(j, "interrupted", jobs[j].attempt) \in Phases(j, jobs[j])
        BY <4>1 DEF Phases
      <4> QED BY <3>1, <4>2, <4>3
    <3>2. CASE n # jobs[j].attempt
      BY <1>2, <2>1, <3>2 DEF JInv, Trail, Past
    <3> QED BY <3>1, <3>2
  <2>8. Trail'
    <3>1. \A i \in Jobs : Past(i, jobs'[i].attempt, journal)
      BY <1>5, <2>7 DEF JInv, Trail
    <3>2. \A i \in Jobs : Past(i, jobs'[i].attempt, journal')
      BY <2>5, <3>1 DEF Past
    <3> QED BY <3>2 DEF Trail
  <2>9. /\ JournalHasNoHoles'
        /\ \A e \in journal' : e.phase \in {"registered", "started"} \cup JobState
    BY <2>5, <2>6, <2>8, AuditLeavesNoHole
  <2>10. TableOK' /\ Stored'
    BY <1>1, <2>5, <2>6, <2>9 DEF JInv, TableOK, Stored, loop
  <2>11. TasksOK'
    <3>1. \A i \in Jobs : jobs[i].attempt <= jobs'[i].attempt
      BY <1>5, <2>1, GoodFields DEF JInv, TableOK
    <3>2. \A i \in Jobs : active[i].attempt \in Nat /\ active[i].attempt <= jobs[i].attempt
      BY DEF JInv, TasksOK, Tasks
    <3>3. \A i \in Jobs : active[i].attempt <= jobs'[i].attempt
      <4> TAKE i \in Jobs
      <4>1. jobs[i].attempt \in Nat /\ jobs'[i].attempt \in Nat
        BY <2>6, GoodFields DEF JInv, TableOK
      <4> QED BY <3>1, <3>2, <4>1
    <3> QED BY <1>1, <3>3 DEF JInv, TasksOK, loop
  <2>12. CallTyped' /\ Claimed' /\ Journalled'
    <3>1. call' = then \/ call' = None
      BY <2>5
    <3>2. up' /\ active'[j] = NoTask /\ jobs'[j].attempt = after.attempt
      BY <1>1, <1>2, <1>5 DEF loop
    <3> QED BY <1>2, <2>4, <3>1, <3>2, CallForms
            DEF Calm, CallTyped, Claimed, Journalled, LookSteps
  <2>13. Held'
    <3> SUFFICES ASSUME up', ~journalError', NEW i \in Jobs, jobs'[i].state = "running"
                 PROVE  \/ active'[i].attempt = jobs'[i].attempt
                        \/ /\ call'.at \in RunSteps
                           /\ call'.job = i /\ call'.attempt = jobs'[i].attempt
      BY DEF Held
    <3>1. CASE i = j
      BY <1>5, <2>4, <2>5, <3>1 DEF RunSteps
    <3>2. CASE i # j
      BY <1>1, <1>2, <1>5, <2>5, <3>2 DEF JInv, Held, loop, RunSteps, LookSteps
    <3> QED BY <3>1, <3>2
  <2> QED BY <1>6, <2>8, <2>9, <2>10, <2>11, <2>12, <2>13 DEF Goes
<1> QED BY <1>4, <1>7, <1>8

LEMMA CancelRecordGoes ==
    ASSUME JInv, CancelRecord
    PROVE  Goes /\ RowsFollow(TRUE) /\ call.at = "cancel"
<1> DEFINE j == call.job
<1>1. /\ call.at = "cancel" /\ UNCHANGED <<artifacts, up, closing, now>>
      /\ jobs' = With(j, Cancelled(j, jobs[j])) /\ Transaction(jobs', None, None)
      /\ active' = [active EXCEPT ![j] = Stopped(@)]
  BY DEF CancelRecord, Transaction
<1>2. up /\ j \in Jobs /\ Continues(None) /\ None.at \notin LookSteps
  BY <1>1, InACall, CallForms DEF Continues, RunSteps, LookSteps
<1>3. RowsFollow(TRUE)
  BY <1>1, <1>2, CancelFollows
<1> QED BY <1>1, <1>2, <1>3, CallForms, StoppedTasks, TransactionStep

\* The task takes the attempt over from the handler, or its failure is recorded.
LEMMA StartGoes == ASSUME JInv, Start PROVE Goes /\ RowsFollow(FALSE)
<1> DEFINE j == call.job
           task == [attempt |-> call.attempt, task |-> "working", owner |-> FALSE]
<1>1. /\ call.at = "start" /\ UNCHANGED <<jobs, artifacts, ledger, up, closing, now>>
      /\ \/ active' = [active EXCEPT ![j] = task] /\ call' = None
         \/ call' = Onward("failed") /\ UNCHANGED active
  BY DEF Start
<1>2. /\ up /\ j \in Jobs /\ call.attempt = jobs[j].attempt /\ call.attempt \in Nat
      /\ RowsFollow(FALSE) /\ None.at \notin LookSteps
  BY <1>1, InACall, CallForms, NoneFollows DEF JInv, Claimed, LookSteps
<1>3. /\ now' \in 0 .. MaxTime /\ artifacts' \subseteq Jobs /\ closing' \in BOOLEAN
      /\ (up' => up) /\ up' \in BOOLEAN /\ up'
      /\ UNCHANGED <<jobs, journal>> /\ journalError' = journalError
  BY <1>1, <1>2 DEF JInv, TableOK, Stored, ledger
<1>4. CASE active' = [active EXCEPT ![j] = task] /\ call' = None
  <2>1. task \in Tasks /\ task.attempt = call.attempt
    BY <1>2 DEF Tasks
  <2>2. /\ active' \in [Jobs -> Tasks]
        /\ \A i \in Jobs : active'[i] = IF i = j THEN task ELSE active[i]
    BY <1>4, <2>1 DEF JInv, TasksOK
  <2>3. TasksOK'
    <3>1. \A i \in Jobs : active'[i].attempt <= jobs[i].attempt
      <4> TAKE i \in Jobs
      <4>1. CASE i = j
        BY <1>2, <2>1, <2>2, <4>1
      <4>2. CASE i # j
        BY <2>2, <4>2 DEF JInv, TasksOK
      <4> QED BY <4>1, <4>2
    <3> QED BY <1>1, <2>2, <3>1 DEF TasksOK
  <2>4. Held'
    <3> SUFFICES ASSUME up', ~journalError', NEW i \in Jobs, jobs'[i].state = "running"
                 PROVE  active'[i].attempt = jobs'[i].attempt
      BY DEF Held
    <3>1. CASE i = j
      BY <1>1, <1>2, <2>1, <2>2, <3>1
    <3>2. CASE i # j
      <4>1. active[i].attempt = jobs[i].attempt
        BY <1>2, <1>3, <3>2 DEF JInv, Held
      <4> QED BY <1>1, <2>2, <3>2, <4>1
    <3> QED BY <3>1, <3>2
  <2>5. CallTyped' /\ Claimed' /\ Journalled'
    BY <1>3, <1>4, CallForms DEF Calm, CallTyped, Claimed, Journalled, LookSteps
  <2>6. TableOK' /\ Trail' /\ JournalHasNoHoles' /\ Stored'
    BY <1>1, <1>3 DEF JInv, TableOK, Trail, JournalHasNoHoles, Stored
  <2> QED BY <1>2, <2>3, <2>4, <2>5, <2>6 DEF Goes
<1>5. CASE call' = Onward("failed") /\ UNCHANGED active
  <2>1. "failed" \in Steps \ {"start"} /\ "failed" \in RunSteps /\ "failed" \notin LookSteps
    BY DEF Steps, RunSteps, LookSteps
  <2>2. Calm(call') /\ Continues(call') /\ call'.at \notin LookSteps
    BY <1>1, <1>5, <2>1, CallForms DEF Continues
  <2> QED BY <1>2, <1>3, <1>5, <2>2, SameTasks, OtherStep
<1> QED BY <1>1, <1>4, <1>5

LEMMA OnwardForms ==
    ASSUME JInv, call.at \notin {"none", "close"}
    PROVE  /\ \A step \in RunSteps \ {"start"} :
                 Calm(Onward(step)) /\ Onward(step).at \notin LookSteps
                 /\ Onward(step).at = step /\ Continues(Onward(step))
           /\ \A step \in {"final", "cancel", "insert"} :
                 Calm(Onward(step)) /\ Onward(step).at \notin LookSteps
           /\ Calm(None) /\ None.at \notin LookSteps
           /\ up /\ call.job \in Jobs
<1>1. /\ RunSteps \ {"start"} \subseteq Steps \ {"start"}
      /\ {"final", "cancel", "insert"} \subseteq Steps \ {"start"}
      /\ \A step \in RunSteps \cup {"final", "cancel", "insert", "none"} : step \notin LookSteps
  BY DEF Steps, RunSteps, LookSteps
<1> QED BY <1>1, CallForms, InACall DEF Continues

LEMMA AcceptGoes == ASSUME JInv, Accept PROVE Goes /\ RowsFollow(FALSE)
<1> DEFINE j == call.job
           seen == Expire(j, jobs[j])
           then == Onward(IF seen.state = "running" THEN "write" ELSE "final")
<1>1. /\ call.at = "accept" /\ UNCHANGED <<artifacts, loop, now>>
      /\ jobs' = With(j, seen) /\ Transaction(jobs', then, Onward("failed"))
  BY DEF Accept, Transaction
<1>2. RowsFollow(FALSE)
  BY <1>1, LookFollows
<1>3. {"write", "failed"} \subseteq RunSteps \ {"start"}
  BY DEF RunSteps
<1>4. Calm(then) /\ then.at \notin LookSteps /\ Continues(then)
  <2>1. CASE seen.state = "running"
    BY <1>1, <1>3, <2>1, OnwardForms
  <2>2. CASE seen.state # "running"
    <3>1. jobs'[j] = seen
      BY <1>1, OnwardForms DEF JInv, IInv, With
    <3> QED BY <1>1, <2>2, <3>1, OnwardForms DEF Continues
  <2> QED BY <2>1, <2>2
<1> QED BY <1>1, <1>2, <1>3, <1>4, OnwardForms, QuietTransaction

LEMMA WriteGoes == ASSUME JInv, Write PROVE Goes /\ RowsFollow(FALSE)
<1>1. /\ call.at = "write" /\ UNCHANGED <<jobs, ledger, loop, now>>
      /\ artifacts' \in {artifacts, artifacts \cup {call.job}}
      /\ call' = Onward("succeeded") \/ call' = Onward("failed")
  BY DEF Write
<1>2. {"succeeded", "failed"} \subseteq RunSteps \ {"start"}
  BY DEF RunSteps
<1>3. Calm(call') /\ Continues(call') /\ call'.at \notin LookSteps /\ up /\ call.job \in Jobs
  BY <1>1, <1>2, OnwardForms
<1>4. /\ now' \in 0 .. MaxTime /\ artifacts' \subseteq Jobs /\ closing' \in BOOLEAN
      /\ (up' => up) /\ up' \in BOOLEAN /\ up'
      /\ UNCHANGED <<jobs, journal>> /\ journalError' = journalError /\ UNCHANGED active
  BY <1>1, <1>3 DEF JInv, TableOK, Stored, ledger, loop
<1> QED BY <1>3, <1>4, SameTasks, OtherStep, NoneFollows

LEMMA FinishGoes == ASSUME JInv, Finish PROVE Goes /\ RowsFollow(FALSE)
<1> DEFINE state == IF call.at = "deadline" THEN "deadline_expired" ELSE call.at
           raised == IF call.at = "failed" THEN None ELSE Onward("failed")
<1>1. /\ call.at \in {"succeeded", "deadline", "failed"} /\ UNCHANGED <<artifacts, loop, now>>
      /\ jobs' = Ends(call.job, call.attempt, state)
      /\ Transaction(jobs', Onward("final"), raised)
  BY DEF Finish, Transaction
<1>2. state \in Ended
  BY <1>1 DEF Ended
<1>3. /\ RowsFollow(FALSE)
      /\ ~(jobs'[call.job].state = "running" /\ jobs'[call.job].attempt = call.attempt)
  BY <1>1, <1>2, OnwardForms, EndFollows
<1>4. Continues(Onward("final"))
  BY <1>3 DEF Continues
<1>5. "failed" \in RunSteps \ {"start"}
  BY DEF RunSteps
<1>6. Calm(raised) /\ raised.at \notin LookSteps
  BY <1>1, <1>5, OnwardForms
<1> QED BY <1>1, <1>3, <1>4, <1>6, OnwardForms, QuietTransaction

LEMMA IntervenesGoes == ASSUME JInv, Intervene PROVE Goes /\ RowsFollow(FALSE)
<1>1. /\ UNCHANGED <<jobs, artifacts, ledger, loop, now>>
      /\ \/ call.at = "intervene" /\ call' = Onward("cancel")
         \/ /\ call.at = "cancelled"
            /\ call' \in {Onward("release"), [Onward("release") EXCEPT !.raises = TRUE]}
  BY DEF Intervene
<1>2. Calm(call') /\ Continues(call') /\ call'.at \notin LookSteps
  <2>1. CASE call.at = "intervene" /\ call' = Onward("cancel")
    BY <2>1, OnwardForms DEF Continues, RunSteps
  <2>2. CASE /\ call.at = "cancelled"
             /\ call' \in {Onward("release"), [Onward("release") EXCEPT !.raises = TRUE]}
    <3>1. "release" \in RunSteps \ {"start"}
      BY DEF RunSteps
    <3>2. CASE call' = Onward("release")
      BY <2>2, <3>1, <3>2, OnwardForms
    <3>3. CASE call' = [Onward("release") EXCEPT !.raises = TRUE]
      <4>1. call' = [at |-> "release", job |-> call.job, attempt |-> call.attempt,
                     rest |-> {}, raises |-> TRUE]
        BY <3>3 DEF Onward, At
      <4>2. call.job \in Jobs /\ call.attempt \in Nat
        BY <2>2, InACall
      <4>3. call' \in CallRecord
        BY <3>1, <4>1, <4>2 DEF CallRecord, Steps
      <4>4. call'.at = "release" /\ call'.job = call.job /\ call'.attempt = call.attempt
        BY <4>1
      <4> QED BY <4>2, <4>3, <4>4 DEF Calm, Continues, RunSteps, LookSteps
    <3> QED BY <2>2, <3>2, <3>3
  <2> QED BY <1>1, <2>1, <2>2
<1>3. up
  BY <1>1, InACall
<1>4. /\ now' \in 0 .. MaxTime /\ artifacts' \subseteq Jobs /\ closing' \in BOOLEAN
      /\ (up' => up) /\ up' \in BOOLEAN /\ up'
      /\ UNCHANGED <<jobs, journal>> /\ journalError' = journalError /\ UNCHANGED active
  BY <1>1, <1>3 DEF JInv, TableOK, Stored, ledger, loop
<1> QED BY <1>2, <1>4, SameTasks, OtherStep, NoneFollows

\* The end of a cancelled run: its job is cancelled for good unless the service closes.
LEMMA ReleaseGoes == ASSUME JInv, Release PROVE Goes /\ RowsFollow(~closing)
<1> DEFINE j == call.job
           then == IF call.raises THEN None ELSE Onward("final")
<1>1. /\ call.at = "release" /\ UNCHANGED <<artifacts, loop, now>>
      /\ jobs' = IF closing THEN Ends(j, call.attempt, "interrupted")
                 ELSE With(j, Cancelled(j, jobs[j]))
      /\ Transaction(jobs', then, None)
  BY DEF Release, Transaction
<1>2. Calm(then) /\ then.at \notin LookSteps /\ closing \in BOOLEAN
  BY <1>1, OnwardForms DEF JInv, Stored
<1>3. /\ RowsFollow(~closing)
      /\ ~(jobs'[j].state = "running" /\ jobs'[j].attempt = call.attempt)
  <2>1. CASE closing
    <3>1. "interrupted" \in Ended
      BY DEF Ended
    <3>2. RowsFollow(FALSE)
          /\ ~(jobs'[j].state = "running" /\ jobs'[j].attempt = call.attempt)
      BY <1>1, <2>1, <3>1, OnwardForms, EndFollows
    <3> QED BY <2>1, <3>2 DEF RowsFollow, Follows
  <2>2. CASE ~closing
    <3>1. RowsFollow(TRUE) /\ jobs'[j].state # "running"
      BY <1>1, <2>2, OnwardForms, CancelFollows
    <3> QED BY <2>2, <3>1 DEF RowsFollow, Follows
  <2> QED BY <2>1, <2>2
<1>4. Continues(then) /\ (~closing) \in BOOLEAN
  BY <1>3 DEF Continues
<1> QED BY <1>1, <1>2, <1>3, <1>4, OnwardForms, QuietTransaction

LEMMA FinalGoes == ASSUME JInv, Final PROVE Goes /\ RowsFollow(FALSE)
<1> DEFINE j == call.job
<1>1. /\ call.at = "final" /\ UNCHANGED <<artifacts, loop, now>>
      /\ jobs' = With(j, Expire(j, jobs[j])) /\ Transaction(jobs', None, None)
  BY DEF Final, Transaction
<1>2. RowsFollow(FALSE)
  BY <1>1, LookFollows
<1>3. Continues(None)
  BY <1>1 DEF Continues, RunSteps
<1> QED BY <1>1, <1>2, <1>3, OnwardForms, QuietTransaction

LEMMA CloseGoes == ASSUME JInv, Close PROVE Goes /\ RowsFollow(FALSE)
<1> DEFINE held == {j \in Jobs : active[j] # NoTask}
<1>1. /\ IsIdle /\ closing' = TRUE /\ call' = Closing(held)
      /\ UNCHANGED <<jobs, artifacts, ledger, up, active, now>>
  BY DEF Close
<1>2. held \in SUBSET Jobs
  OBVIOUS
<1>3. Calm(call') /\ call'.at = "close"
  BY <1>1, <1>2, CallForms
<1>4. /\ now' \in 0 .. MaxTime /\ artifacts' \subseteq Jobs /\ closing' \in BOOLEAN
      /\ (up' => up) /\ up' \in BOOLEAN /\ up' /\ call.at = "none"
      /\ UNCHANGED <<jobs, journal>> /\ journalError' = journalError /\ UNCHANGED active
  BY <1>1, CallForms DEF IsIdle, JInv, TableOK, Stored, ledger
<1>5. Continues(call') /\ call'.at \notin LookSteps
  BY <1>3, <1>4 DEF Continues, RunSteps, LookSteps
<1> QED BY <1>3, <1>4, <1>5, SameTasks, OtherStep, NoneFollows

LEMMA ClosingForms ==
    ASSUME JInv, NEW rest \in SUBSET Jobs, NEW j \in Jobs, NEW n \in Nat
    PROVE  /\ Calm(Closing(rest)) /\ Closing(rest).at \notin LookSteps
           /\ Calm(ClosingAt("interrupt", j, n, rest))
           /\ ClosingAt("interrupt", j, n, rest).at \notin LookSteps
<1>1. ClosingAt("interrupt", j, n, rest) =
         [at |-> "interrupt", job |-> j, attempt |-> n, rest |-> rest, raises |-> FALSE]
  BY DEF ClosingAt
<1>2. ClosingAt("interrupt", j, n, rest) \in CallRecord
  <2>1. "interrupt" \in Steps
    BY DEF Steps
  <2>2. j \in Jobs \cup {0} /\ FALSE \in BOOLEAN
    OBVIOUS
  <2>3. [at |-> "interrupt", job |-> j, attempt |-> n, rest |-> rest, raises |-> FALSE]
           \in CallRecord
    BY ONLY <2>1, <2>2, n \in Nat, rest \in SUBSET Jobs DEF CallRecord
  <2> QED BY ONLY <1>1, <2>3
<1>3. /\ ClosingAt("interrupt", j, n, rest).at = "interrupt"
      /\ ClosingAt("interrupt", j, n, rest).job = j
  BY <1>1
<1> QED BY <1>2, <1>3, CallForms DEF Calm, LookSteps

LEMMA CloseLookGoes == ASSUME JInv, CloseLook PROVE Goes /\ RowsFollow(FALSE)
<1>1. PICK j \in call.rest :
         LET seen == Expire(j, jobs[j])
             rest == call.rest \ {j}
         IN  Transaction(With(j, seen), ClosingAt("interrupt", j, seen.attempt, rest),
                         Closing(rest))
  BY DEF CloseLook
<1> DEFINE seen == Expire(j, jobs[j])
           rest == call.rest \ {j}
           then == ClosingAt("interrupt", j, seen.attempt, rest)
<1>2. /\ call.at = "close" /\ UNCHANGED <<artifacts, loop, now>>
      /\ jobs' = With(j, seen) /\ Transaction(jobs', then, Closing(rest))
  BY <1>1 DEF CloseLook, Transaction
<1>3. RowsFollow(FALSE)
  BY <1>2, LookFollows
<1>4. up /\ j \in Jobs /\ rest \in SUBSET Jobs
  BY <1>2, InACall DEF JInv, CallTyped, CallRecord
<1>5. seen.attempt \in Nat
  BY <1>4, ExpireKeeps, GoodFields DEF JInv, TableOK
<1>6. /\ Calm(then) /\ then.at \notin LookSteps
      /\ Calm(Closing(rest)) /\ Closing(rest).at \notin LookSteps
  BY <1>4, <1>5, ClosingForms
<1>7. Continues(then)
  BY <1>2 DEF Continues, RunSteps
<1> QED BY <1>2, <1>3, <1>4, <1>6, <1>7, QuietTransaction

LEMMA CloseInterruptGoes == ASSUME JInv, CloseInterrupt PROVE Goes /\ RowsFollow(FALSE)
<1>1. /\ call.at = "interrupt" /\ UNCHANGED <<artifacts, loop, now>>
      /\ jobs' = Ends(call.job, call.attempt, "interrupted")
      /\ Transaction(jobs', Closing(call.rest), Closing(call.rest))
  BY DEF CloseInterrupt, Transaction
<1>2. up /\ call.job \in Jobs /\ call.rest \in SUBSET Jobs /\ "interrupted" \in Ended
  BY <1>1, InACall DEF JInv, CallTyped, CallRecord, Ended
<1>3. RowsFollow(FALSE)
  BY <1>1, <1>2, EndFollows
<1>4. Calm(Closing(call.rest)) /\ Closing(call.rest).at \notin LookSteps
  BY <1>2, CallForms DEF LookSteps
<1>5. Continues(Closing(call.rest))
  BY <1>1 DEF Continues, RunSteps
<1> QED BY <1>1, <1>2, <1>3, <1>4, <1>5, QuietTransaction

LEMMA CloseStopGoes == ASSUME JInv, CloseStop PROVE Goes /\ RowsFollow(FALSE)
<1>1. /\ call.at = "close" /\ call' = None
      /\ active' = [j \in Jobs |-> Stopped(active[j])]
      /\ UNCHANGED <<jobs, artifacts, ledger, up, closing, now>>
  BY DEF CloseStop
<1>2. active' \in [Jobs -> Tasks] /\ \A j \in Jobs : active'[j].attempt = active[j].attempt
  <2>1. \A j \in Jobs : /\ Stopped(active[j]) \in Tasks
                        /\ Stopped(active[j]).attempt = active[j].attempt
    BY DEF JInv, TasksOK, Tasks, Stopped
  <2> QED BY <1>1, <2>1
<1>3. up /\ Calm(None) /\ Continues(None) /\ None.at \notin LookSteps
  BY <1>1, InACall, CallForms DEF Continues, RunSteps, LookSteps
<1>4. /\ now' \in 0 .. MaxTime /\ artifacts' \subseteq Jobs /\ closing' \in BOOLEAN
      /\ (up' => up) /\ up' \in BOOLEAN /\ up'
      /\ UNCHANGED <<jobs, journal>> /\ journalError' = journalError
  BY <1>1, <1>3 DEF JInv, TableOK, Stored, ledger
<1> QED BY <1>1, <1>2, <1>3, <1>4, OtherStep, NoneFollows

\* The process is gone, and what it held.
LEMMA GoneGoes == ASSUME JInv, Gone PROVE Goes /\ RowsFollow(FALSE)
<1>1. /\ ~up' /\ up' \in BOOLEAN /\ closing' \in BOOLEAN /\ journalError' \in BOOLEAN
      /\ active' = [j \in Jobs |-> NoTask] /\ call' = None
      /\ UNCHANGED <<jobs, artifacts, journal, now>>
  BY DEF Gone
<1>2. NoTask \in Tasks /\ NoTask.attempt = 0
  BY DEF NoTask, Tasks
<1>3. TasksOK'
  BY <1>1, <1>2, GoodFields DEF TasksOK, JInv, TableOK
<1>4. CallTyped' /\ Claimed' /\ Journalled' /\ Held'
  BY <1>1, CallForms DEF Calm, CallTyped, Claimed, Journalled, Held, LookSteps
<1>5. TableOK' /\ Trail' /\ JournalHasNoHoles' /\ Stored'
  BY <1>1 DEF JInv, TableOK, Trail, JournalHasNoHoles, Stored
<1> QED BY <1>3, <1>4, <1>5, <1>1, NoneFollows DEF Goes

\* Recovery leaves nothing running.
LEMMA OpenGoes == ASSUME JInv, Open PROVE Goes /\ RowsFollow(FALSE)
<1>1. /\ ~up /\ up' \in BOOLEAN
      /\ jobs' = [j \in Jobs |-> Recovered(j, jobs[j])]
      /\ journal \subseteq journal' /\ journal' \subseteq journal \cup Owed(jobs')
      /\ UNCHANGED <<artifacts, journalError, closing, active, call, now>>
  BY DEF Open, Audited, AuditFails
<1>2. \A j \in Jobs : /\ Follows(j, Recovered(j, jobs[j]), FALSE)
                     /\ Recovered(j, jobs[j]).state # "running"
  BY RecoveredKeeps DEF JInv, TableOK, Follows
<1>3. RowsFollow(FALSE) /\ \A j \in Jobs : jobs'[j].state # "running"
  BY <1>1, <1>2 DEF RowsFollow
<1>4. /\ Trail' /\ JournalHasNoHoles'
      /\ \A e \in journal' : e.phase \in {"registered", "started"} \cup JobState
  BY <1>1, <1>3, JournalGrows
<1>5. TableOK' /\ TasksOK' /\ Stored' /\ Held'
  BY <1>1, <1>3, <1>4 DEF JInv, TableOK, TasksOK, Stored, Held, RowsFollow, Follows, Keeps
<1>6. call = None /\ call' = None
  BY <1>1 DEF JInv, CallTyped
<1>7. CallTyped' /\ Claimed' /\ Journalled'
  BY <1>6, CallForms DEF Calm, CallTyped, Claimed, Journalled, LookSteps
<1> QED BY <1>3, <1>4, <1>5, <1>7 DEF Goes

LEMMA ClockGoes == ASSUME JInv, Tick \/ StepBack PROVE Goes /\ RowsFollow(FALSE)
<1>1. /\ UNCHANGED <<jobs, artifacts, ledger, loop, call>>
      /\ (now < MaxTime /\ now' = now + 1) \/ (now > 0 /\ now' = now - 1)
  BY DEF Tick, StepBack
<1>2. now' \in 0 .. MaxTime
  BY <1>1, JobsAssumption DEF JInv, TableOK
<1>3. /\ artifacts' \subseteq Jobs /\ closing' \in BOOLEAN
      /\ (up' => up) /\ up' \in BOOLEAN
      /\ up' \/ call' = None
      /\ UNCHANGED <<jobs, journal>> /\ journalError' = journalError /\ UNCHANGED active
  BY <1>1 DEF JInv, CallTyped, Stored, ledger, loop
<1> QED BY <1>1, <1>2, <1>3, SameTasks, OtherStep, NoneFollows

-----------------------------------------------------------------------------
(* The theorems.                                                           *)

\* Who a step may cancel for good: the job a cancel() is about, or, while the
\* service is not closing, the one whose run was cancelled.
MayCancel == call.at = "cancel" \/ ~closing

LEMMA NextGoes ==
    ASSUME JInv, Next
    PROVE  Goes /\ (MayCancel \/ \A j \in Jobs : Spares(jobs[j], jobs'[j]))
<1>1. CASE Read
  BY <1>1, ReadGoes DEF RowsFollow, Follows
<1>2. CASE Loop
  <2>1. PICK j \in Jobs :
           \/ Submit(j) \/ Run(j) \/ CancelJob(j) \/ Wake(j)
           \/ (Answer(j) \/ Timer(j) \/ OwnerCancel(j))
    BY <1>2 DEF Loop
  <2> QED BY <2>1, SubmitGoes, RunGoes, CancelJobGoes, WakeGoes, TaskGoes
          DEF RowsFollow, Follows
<1>3. CASE Calls
  BY <1>3, RegisterGoes, InsertGoes, RefuseGoes, ClaimsGoes, CancelRecordGoes
     DEF Calls, RowsFollow, Follows, MayCancel
<1>4. CASE Runs
  BY <1>4, StartGoes, AcceptGoes, WriteGoes, FinishGoes, IntervenesGoes, ReleaseGoes,
     FinalGoes DEF Runs, RowsFollow, Follows, MayCancel
<1>5. CASE Shutdown
  BY <1>5, CloseGoes, CloseLookGoes, CloseInterruptGoes, CloseStopGoes, GoneGoes
     DEF Shutdown, Exit, RowsFollow, Follows
<1>6. CASE World
  BY <1>6, GoneGoes, OpenGoes, ClockGoes DEF World, Crash, RowsFollow, Follows
<1> QED BY <1>1, <1>2, <1>3, <1>4, <1>5, <1>6 DEF Next

LEMMA JInvStep ==
    ASSUME JInv, [Next]_vars
    PROVE  JInv'
<1>1. IInv'
  BY NextStep DEF JInv
<1>2. CASE Next
  BY <1>1, <1>2, NextGoes DEF Goes, JInv
<1>3. CASE UNCHANGED vars
  BY <1>1, <1>3 DEF vars, ledger, loop, JInv, TableOK, TasksOK, CallTyped, Claimed,
                    Journalled, Held, Trail, JournalHasNoHoles, Stored
<1> QED BY <1>2, <1>3

LEMMA JInvInit == Init => JInv
<1> SUFFICES ASSUME Init
             PROVE  JInv
  OBVIOUS
<1>1. IInv
  BY InitHolds
<1>2. GoodRow(Absent) /\ Absent.attempt = 0 /\ Absent.state = "absent"
  BY DEF GoodRow, Absent
<1>3. NoTask \in Tasks /\ NoTask.attempt = 0
  BY DEF NoTask, Tasks
<1>4. TableOK /\ TasksOK /\ Held
  BY <1>2, <1>3, JobsAssumption DEF Init, TableOK, TasksOK, Held
<1>5. CallTyped /\ Claimed /\ Journalled
  BY CallForms DEF Init, Calm, CallTyped, Claimed, Journalled, LookSteps
<1>6. Trail
  BY <1>2 DEF Init, Trail, Past
<1>7. JournalHasNoHoles /\ Stored
  BY DEF Init, JournalHasNoHoles, Stored
<1> QED BY <1>1, <1>4, <1>5, <1>6, <1>7 DEF JInv

LEMMA JInvAlways == Spec => []JInv
BY JInvInit, JInvStep, PTL DEF Spec

\* The table obeys its CHECKs, and no task runs an attempt that was not claimed.
THEOREM Types == Spec => []TypeOK
<1>1. JInv => TypeOK
  BY DEF JInv, TableOK, GoodRow, TasksOK, Tasks, Stored, TypeOK
<1> QED BY <1>1, JInvAlways, PTL

\* While no audit of the owner has raised, every running job has the task or the
\* stretch of run() that works on its attempt.
THEOREM AttemptsAreHeld == Spec => []RunningIsHeld
<1>1. JInv => RunningIsHeld
  BY DEF JInv, Held, RunningIsHeld
<1> QED BY <1>1, JInvAlways, PTL

\* An attempt is in the trial journal only with the start and the interruption of
\* every attempt before it.
THEOREM AuditHasNoHoles == Spec => []JournalHasNoHoles
<1>1. JInv => JournalHasNoHoles
  BY DEF JInv
<1> QED BY <1>1, JInvAlways, PTL

\* aclose() cancels no job for good: only a cancel() that asked for it does.
THEOREM ShutdownSpares == Spec => ShutdownNeverCancels
<1>1. JInv /\ [Next]_vars =>
         [closing => \A j \in Jobs :
             jobs[j].state # "cancelled" /\ jobs'[j].state = "cancelled" =>
                call.at = "cancel"]_vars
  BY NextGoes DEF MayCancel, Spares
<1> QED BY <1>1, JInvAlways, PTL DEF Spec, ShutdownNeverCancels
=============================================================================
