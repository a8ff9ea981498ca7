--------------------------- MODULE ForecastLedger ---------------------------
(* Forward forecasts: the append-only ledger (forecast/ledger.py), the       *)
(* session that fetches an input, infers and publishes (forward_service.py, *)
(* live.py, inference.py) on its durable jobs (jobs/store.py, runner.py),    *)
(* and the scoring of matured outcomes (scoring.py).  One instrument and one *)
(* origin, time 0; the horizons of that origin are the slots.  A crash may   *)
(* come between any two writes; the ledger and the job store are two         *)
(* databases.                                                                *)
(*                                                                           *)
(* A sample of the clock is its true time, a radius, whether it is healthy   *)
(* and its epoch (module Clock is about what makes it so).  Left out: the     *)
(* "inference" events that mirror job states, the raw objects (immutable,    *)
(* named by content), the event hash, and the second instrument.             *)
EXTENDS Integers, Sequences, SequencesExt

CONSTANTS
    Horizons,        \* the slots of the origin, numbered
    Deadline, End,   \* the last moment to publish; the outcome is due after End
    Versions,        \* revisions the source makes of the outcome
    MaxEvents,       \* events the journal holds
    Attempts,        \* executions of one job
    MaxTime, MaxShakes, MaxCrashes, MaxFetches   \* bounds

ASSUME LedgerAssumption ==
    /\ {Deadline, End, Versions, MaxEvents, Attempts, MaxTime} \subseteq Nat
    /\ {MaxShakes, MaxCrashes, MaxFetches} \subseteq Nat
    /\ Horizons \subseteq Nat /\ IsFiniteSet(Horizons) /\ Deadline < End

VARIABLES
    time, healthy, clockEpoch, shakes, \* the clock; shakes bounds its troubles
    truth,                    \* the latest revision of the outcome, 0 before it
    journal,                  \* the committed events
    anchored,                 \* the length the retained head names
    lost,                     \* an older copy of the database was put in place
    owner,                    \* closed, loading, open or refused
    plan, heading,            \* events still to append; head not yet replaced
    doing, sampled, input,       \* where the session is, its sample, its content
    job,                      \* the job of each slot
    turn,                     \* the slot it works on, 0 when none
    crashes                   \* bound

ledgerVars == <<time, healthy, clockEpoch, shakes, truth, journal, anchored, lost,
                owner, plan, heading, doing, sampled, input, job, turn, crashes>>

world == <<time, healthy, clockEpoch, shakes, truth>>
disk == <<journal, anchored, lost>>
session == <<doing, sampled, input, turn>>

NoJob == [state |-> "none", content |-> 0, attempt |-> 0]

(* Every event has the same fields; those a kind does not use are blank.     *)
(* timely records for the properties whether it was committed by the deadline. *)
Event(kind, slot, body, number) ==
    [kind |-> kind, slot |-> slot, body |-> body, number |-> number, timely |-> TRUE]

Events(kind) == {e \in ToSet(journal) : e.kind = kind}
Logged(kind, slot) == {e \in Events(kind) : e.slot = slot}
Known == {s \in Horizons : Logged("publication", s) # {}}
Uncertified == {s \in Known : Logged("receipt", s) = {}}
Unpublished == Horizons \ Known

(* ClockMonitor.sample: what is kept of the one before a write.             *)
NoSample == [healthy |-> FALSE, epoch |-> 0]
Sample == [healthy |-> healthy, epoch |-> clockEpoch]

(* timeliness: of the sample before the write and one taken now, with the    *)
(* given radius.                                                             *)
Timeliness(radius) ==
    IF ~(sampled.healthy /\ healthy) THEN "unknown"
    ELSE IF sampled.epoch # clockEpoch THEN "clock-discontinuity"
    ELSE IF time + radius =< Deadline THEN "on-time"
    ELSE IF time - radius > Deadline THEN "late" ELSE "uncertain"

(* _forward_class: genuine only with an input certified on time, whose       *)
(* availability is the one the content was made from.                       *)
EvidenceClass(content, timing) ==
    IF timing = "late" THEN "late-forward"
    ELSE IF /\ timing = "on-time"
            /\ \E e \in Events("input-receipt") :
                   e.number = content /\ e.body = "on-time"
         THEN "genuine-forward" ELSE "forward-unclassified"

Content(slot) == (CHOOSE e \in Logged("publication", slot) : TRUE).number

LedgerInit ==
    /\ time = 0 /\ healthy = TRUE /\ clockEpoch = 0 /\ shakes = 0 /\ truth = 0
    /\ journal = <<>> /\ anchored = 0 /\ lost = FALSE
    /\ owner = "closed" /\ plan = <<>> /\ heading = FALSE
    /\ doing = "idle" /\ sampled = NoSample /\ input = 0 /\ turn = 0
    /\ job = [s \in Horizons |-> NoJob] /\ crashes = 0

-----------------------------------------------------------------------------
(* The world.                                                               *)

Wait ==
    /\ time < MaxTime /\ time' = time + 1
    /\ UNCHANGED <<healthy, clockEpoch, shakes, truth, disk, owner, plan, heading,
                   session, job, crashes>>

(* The clock loses or regains its quality, or is disrupted: a new epoch.    *)
Shake ==
    /\ shakes < MaxShakes /\ shakes' = shakes + 1
    /\ clockEpoch' = clockEpoch + 1 /\ healthy' \in BOOLEAN
    /\ UNCHANGED <<time, truth, disk, owner, plan, heading, session, job, crashes>>

(* The source publishes the outcome, or corrects it.                        *)
Revise ==
    /\ time >= End /\ truth < Versions /\ truth' = truth + 1
    /\ UNCHANGED <<time, healthy, clockEpoch, shakes, disk, owner, plan, heading,
                   session, job, crashes>>

-----------------------------------------------------------------------------
(* The ledger.                                                              *)

Idle == doing' = "idle" /\ sampled' = NoSample /\ input' = 0 /\ turn' = 0

(* Mutant: an uncertified publication is recovered as on time.               *)
RecoverOnTime ==
    /\ owner = "closed"
    /\ IF Len(journal) < anchored
       THEN owner' = "refused" /\ UNCHANGED plan
       ELSE /\ owner' = "loading"
            /\ plan' = SetToSeq({Event("receipt", s, "on-time", 0) :
                                     s \in Uncertified})
    /\ UNCHANGED <<world, disk, heading, session, job, crashes>>

(* Mutant: nothing is certified at the opening.                              *)
OpenWithoutRecovery ==
    /\ owner = "closed"
    /\ IF Len(journal) < anchored
       THEN owner' = "refused" /\ UNCHANGED plan
       ELSE /\ owner' = "loading"
            /\ plan' = <<>>
    /\ UNCHANGED <<world, disk, heading, session, job, crashes>>

(* The process opens it: _load and _check_anchor refuse a journal shorter    *)
(* than the retained head; _recover certifies what a crash left uncertified. *)
OpenLedger ==
    /\ owner = "closed"
    /\ IF Len(journal) < anchored
       THEN owner' = "refused" /\ UNCHANGED plan
       ELSE /\ owner' = "loading"
            /\ plan' = SetToSeq({Event("receipt", s, "recovery-unknown", 0) :
                                     s \in Uncertified})
    /\ UNCHANGED <<world, disk, heading, session, job, crashes>>

(* _append: the row is committed, then the head is replaced.                *)
CommitEvent ==
    /\ plan # <<>> /\ ~heading /\ Len(journal) < MaxEvents
    /\ journal' = Append(journal, [plan[1] EXCEPT !.timely = (time =< Deadline)])
    /\ plan' = SubSeq(plan, 2, Len(plan)) /\ heading' = TRUE
    /\ UNCHANGED <<world, anchored, lost, owner, session, job, crashes>>

WriteHead ==
    /\ heading /\ heading' = FALSE /\ anchored' = Len(journal)
    /\ UNCHANGED <<world, journal, lost, owner, plan, session, job, crashes>>

(* DurableRunner.run sets the job whose execution raised to failed.          *)
Abandoned ==
    [s \in Horizons |-> IF s = turn /\ job[s].state = "running"
                        THEN [job[s] EXCEPT !.state = "failed"] ELSE job[s]]

(* The journal is full: the append is refused.  At the opening that refuses  *)
(* the ledger; later the error ends the run, a job in execution first being  *)
(* set to failed.                                                           *)
Refuse ==
    /\ plan # <<>> /\ ~heading /\ Len(journal) >= MaxEvents
    /\ owner' = IF owner = "loading" THEN "refused" ELSE "closed"
    /\ job' = Abandoned /\ plan' = <<>> /\ Idle
    /\ UNCHANGED <<world, disk, heading, crashes>>

(* The database file is replaced by an older copy, with the head left alone. *)
RollBack ==
    /\ owner = "closed" /\ crashes < MaxCrashes /\ crashes' = crashes + 1
    /\ \E n \in 0 .. Len(journal) - 1 : journal' = SubSeq(journal, 1, n)
    /\ lost' = TRUE
    /\ UNCHANGED <<world, anchored, owner, plan, heading, session, job>>

(* The process dies: nothing but what is committed remains.                 *)
Crash ==
    /\ owner \in {"loading", "open"} /\ crashes < MaxCrashes /\ crashes' = crashes + 1
    /\ owner' = "closed" /\ plan' = <<>> /\ heading' = FALSE /\ Idle
    /\ UNCHANGED <<world, disk, job>>

(* COMMIT or the replacement of the head fails: the ledger is unusable, the  *)
(* run ends, and the job in execution is set to failed first.               *)
LedgerFails ==
    /\ owner = "open" /\ (plan # <<>> \/ heading)
    /\ crashes < MaxCrashes /\ crashes' = crashes + 1
    /\ owner' = "closed" /\ plan' = <<>> /\ heading' = FALSE
    /\ job' = Abandoned /\ Idle
    /\ UNCHANGED <<world, disk>>

-----------------------------------------------------------------------------
(* The job store.                                                           *)

PastDeadline(s) == job[s].state \in {"queued", "running", "interrupted"} /\ time > Deadline
Settled(s) == IF PastDeadline(s) THEN [job[s] EXCEPT !.state = "expired"] ELSE job[s]

(* DurableJobStore._recover, once the ledger is open.                        *)
OpenStore ==
    /\ owner = "loading" /\ plan = <<>> /\ ~heading /\ owner' = "open"
    /\ job' = [s \in Horizons |->
                 IF Settled(s).state = "running" THEN [job[s] EXCEPT !.state = "interrupted"]
                 ELSE Settled(s)]
    /\ UNCHANGED <<world, disk, plan, heading, session, crashes>>

-----------------------------------------------------------------------------
(* The session.  Working(p): it is at p and has appended all it planned.    *)

Working(p) == owner = "open" /\ doing = p /\ plan = <<>> /\ ~heading

Go(p, events) == doing' = p /\ plan' = events

(* _mark: one event for each state a slot enters.                           *)
Marks(slots, state) ==
    SetToSeq({Event("slot", s, state, 0) :
                s \in {t \in slots : \A e \in Logged("slot", t) : e.body # state}})

(* tick: what is published already is left; an unhealthy clock or a missed   *)
(* deadline only marks the rest.                                            *)
Tick ==
    /\ Working("idle") /\ Unpublished # {}
    /\ IF ~healthy THEN Go("idle", Marks(Unpublished, "missing"))
       ELSE IF time > Deadline THEN Go("idle", Marks(Unpublished, "missed"))
       ELSE Go("fetching", <<>>)
    /\ UNCHANGED <<world, disk, owner, heading, sampled, input, job, turn, crashes>>

(* The source fails or is not final: every pending slot is marked.          *)
Miss(p) ==
    /\ Working(p) /\ Idle /\ plan' = Marks(Unpublished, "missing")
    /\ UNCHANGED <<world, disk, owner, heading, job, crashes>>

FetchFails == Miss("fetching")

FetchInput ==
    /\ Working("fetching")
    /\ Go("fetched", IF Events("input") = {} THEN <<Event("input", 0, "", 0)>> ELSE <<>>)
    /\ UNCHANGED <<world, disk, owner, heading, sampled, input, job, turn, crashes>>

Observations == {e.number : e \in Events("input-observation")}
Newest == IF Observations = {} THEN 0 ELSE CHOOSE n \in Observations :
                                               \A m \in Observations : m =< n

Qualified(e) == e.body \notin {"unknown", "clock-discontinuity"}

(* cached_origin: the newest observation, if it has one qualified receipt.   *)
Cached == {e \in Events("input-receipt") : e.number = Newest /\ Qualified(e)}

UseCached ==
    /\ Working("fetched") /\ Cached # {} /\ input' = Newest /\ Go("scheduling", <<>>)
    /\ UNCHANGED <<world, disk, owner, heading, sampled, job, turn, crashes>>

(* A new observation never inherits an old availability.                    *)
Observe ==
    /\ Working("fetched") /\ Cached = {} /\ Newest < MaxFetches
    /\ sampled' = Sample
    /\ Go("observed", <<Event("input-observation", 0, "", Newest + 1)>>)
    /\ UNCHANGED <<world, disk, owner, heading, input, job, turn, crashes>>

CertifyInput ==
    /\ Working("observed")
    /\ \E radius \in {0, 1} :
          Go(IF time + radius > Deadline THEN "late" ELSE "scheduling",
             <<Event("input-receipt", 0, Timeliness(radius), Newest)>>)
    /\ input' = Newest /\ sampled' = NoSample
    /\ UNCHANGED <<world, disk, owner, heading, job, turn, crashes>>

(* An input that came too late for the deadline makes no content.           *)
LateInput == Miss("late")

(* schedule: a job that holds another content ends the run.                 *)
Conflicting == {s \in Unpublished : job[s].state # "none" /\ job[s].content # input}

Schedule ==
    /\ Working("scheduling") /\ Conflicting = {}
    /\ job' = [s \in Horizons |->
                 IF s \in Unpublished /\ job[s] = NoJob /\ time =< Deadline
                 THEN [state |-> "queued", content |-> input, attempt |-> 0]
                 ELSE IF s \in Unpublished THEN Settled(s) ELSE job[s]]
    /\ Go("running", Marks({s \in Unpublished : job[s] = NoJob /\ time > Deadline
                                                /\ Logged("slot", s) = {}}, "missed"))
    /\ UNCHANGED <<world, disk, owner, heading, sampled, input, turn, crashes>>

ScheduleConflict == Conflicting # {} /\ Miss("scheduling")

(* infer_due: the first job that is ready is claimed; an execution too many  *)
(* fails it, and one that expired meanwhile ends the run.                    *)
Due == {s \in Unpublished : job[s].state \in {"queued", "interrupted"}}

Claim ==
    /\ Working("running")
    /\ \E s \in Due :
         /\ \A t \in Due : s =< t
         /\ ~PastDeadline(s)
         /\ IF job[s].attempt >= Attempts
            THEN /\ job' = [job EXCEPT ![s].state = "failed"]
                 /\ UNCHANGED <<doing, turn>>
            ELSE /\ job' = [job EXCEPT ![s].state = "running", ![s].attempt = @ + 1]
                 /\ turn' = s /\ doing' = "executing"
    /\ UNCHANGED <<world, disk, owner, plan, heading, sampled, input, crashes>>

ClaimExpired ==
    /\ Working("running") /\ \E s \in Due : PastDeadline(s)
    /\ job' = [s \in Horizons |-> IF s \in Due THEN Settled(s) ELSE job[s]]
    /\ Idle /\ plan' = Marks(Unpublished, "missing")
    /\ UNCHANGED <<world, disk, owner, heading, crashes>>

DoneInferring ==
    /\ Working("running") /\ Due = {} /\ Idle
    /\ UNCHANGED <<world, disk, owner, plan, heading, job, crashes>>

(* The operator cancels while the executor waits.                           *)
CancelRun ==
    /\ Working("executing") /\ crashes < MaxCrashes /\ crashes' = crashes + 1
    /\ job' = [job EXCEPT ![turn].state = IF PastDeadline(turn) THEN "expired" ELSE "cancelled"]
    /\ owner' = "closed" /\ Idle
    /\ UNCHANGED <<world, disk, plan, heading>>

(* Mutant: the job succeeds before its publication is in the ledger.         *)
SucceedFirst ==
    /\ Working("publishing") /\ sampled' = Sample
    /\ Go("published", <<Event("publication", turn, "", job[turn].content)>>)
    /\ job' = [job EXCEPT ![turn].state = "succeeded"]
    /\ UNCHANGED <<world, disk, owner, heading, input, turn, crashes>>

(* _accept: nothing is published for a job that expired; else the stream's   *)
(* manifest comes first, then the clock, then the publication.               *)
Accept ==
    /\ Working("executing")
    /\ IF PastDeadline(turn)
       THEN job' = [job EXCEPT ![turn].state = "expired"] /\ turn' = 0 /\ Go("running", <<>>)
       ELSE /\ UNCHANGED <<job, turn>>
            /\ Go("publishing", IF Events("stream") = {} THEN <<Event("stream", 0, "", 0)>>
                                ELSE <<>>)
    /\ UNCHANGED <<world, disk, owner, heading, sampled, input, crashes>>

PublishForecast ==
    /\ Working("publishing") /\ sampled' = Sample
    /\ Go("published", <<Event("publication", turn, "", job[turn].content)>>)
    /\ UNCHANGED <<world, disk, owner, heading, input, job, turn, crashes>>

(* After COMMIT returned, the clock is sampled again.                       *)
CertifyPublication ==
    /\ Working("published")
    /\ \E radius \in {0, 1} :
          Go("certified", <<Event("receipt", turn, Timeliness(radius), 0)>>)
    /\ sampled' = NoSample
    /\ UNCHANGED <<world, disk, owner, heading, input, job, turn, crashes>>

(* The raw input cannot be read back: the job fails, the publication stays   *)
(* without a certificate until the ledger is opened again.                   *)
CertificateFails ==
    /\ Working("published") /\ crashes < MaxCrashes /\ crashes' = crashes + 1
    /\ job' = [job EXCEPT ![turn].state = IF PastDeadline(turn) THEN "expired" ELSE "failed"]
    /\ turn' = 0 /\ Go("running", <<>>)
    /\ UNCHANGED <<world, disk, owner, heading, sampled, input>>

(* finish: the job succeeds unless its deadline passed meanwhile.           *)
Finish ==
    /\ Working("certified")
    /\ job' = [job EXCEPT ![turn].state = IF PastDeadline(turn) THEN "expired" ELSE "succeeded"]
    /\ turn' = 0 /\ Go("running", <<>>)
    /\ UNCHANGED <<world, disk, owner, heading, sampled, input, crashes>>

(* mature: before the endpoint a slot is marked pending; without a source or *)
(* a qualified clock, missing; only genuine forward evidence is scored.  A   *)
(* cursor that takes the published slots in turn moves in any case.          *)
MatureSlot(s) ==
    LET receipt == CHOOSE e \in Logged("receipt", s) : TRUE
        cursor == <<Event("maturation", s, "", 0)>>
        genuine == EvidenceClass(Content(s), receipt.body) = "genuine-forward"
    IN IF time > End /\ truth > 0 /\ healthy /\ genuine
       THEN /\ turn' = s
            /\ Go("scoring", IF \E e \in Logged("outcome", s) : e.number = truth
                             THEN <<>> ELSE <<Event("outcome", s, "", truth)>>)
       ELSE /\ UNCHANGED turn
            /\ Go("idle", (IF time =< End THEN Marks({s}, "pending")
                           ELSE IF truth = 0 \/ ~healthy THEN Marks({s}, "missing")
                           ELSE <<Event("slot", s, "excluded", 0)>>) \o cursor)

Mature ==
    /\ Working("idle") /\ \E s \in Known \ Uncertified : MatureSlot(s)
    /\ UNCHANGED <<world, disk, owner, heading, sampled, input, job, crashes>>

(* A vintage keeps its first score.  The vintage is the one just read, which *)
(* is the newest in the journal.                                             *)
Score ==
    /\ Working("scoring")
    /\ LET vintages == {e.number : e \in Logged("outcome", turn)}
           vintage == CHOOSE n \in vintages : \A m \in vintages : m =< n
           scored == \E e \in Logged("score", turn) : e.number = vintage
       IN Go("idle", (IF scored THEN <<>> ELSE <<Event("score", turn, "", vintage)>>)
                     \o <<Event("maturation", turn, "", 0)>>)
    /\ turn' = 0
    /\ UNCHANGED <<world, disk, owner, heading, sampled, input, job, crashes>>

(* The run is over and closes both stores.                                  *)
EndRun ==
    /\ Working("idle") /\ owner' = "closed"
    /\ UNCHANGED <<world, disk, plan, heading, session, job, crashes>>

Work ==
    \/ CommitEvent \/ WriteHead \/ Refuse \/ OpenStore
    \/ FetchFails \/ FetchInput \/ UseCached \/ Observe \/ CertifyInput \/ LateInput
    \/ Schedule \/ ScheduleConflict \/ Claim \/ ClaimExpired \/ DoneInferring
    \/ Accept \/ PublishForecast \/ CertifyPublication \/ Finish \/ Score

LedgerNext ==
    \/ Wait \/ Shake \/ Revise \/ OpenLedger \/ RollBack \/ Crash \/ LedgerFails \/ CancelRun
    \/ Tick \/ CertificateFails \/ Mature \/ EndRun \/ Work

LedgerSpec == LedgerInit /\ [][LedgerNext]_ledgerVars

(* What the program has begun goes on.  That the operator runs the command   *)
(* again and that a run ends (two retries, at most sixteen slots) are the    *)
(* only assumptions about the calls.                                         *)
LedgerFairSpec ==
    /\ LedgerSpec
    /\ WF_ledgerVars(Work) /\ WF_ledgerVars(OpenLedger) /\ SF_ledgerVars(EndRun)

-----------------------------------------------------------------------------
(* A slot is published at most once and certified at most once, and a        *)
(* certificate says on-time only of a publication that really was committed  *)
(* by the deadline, and genuine only if its input was, too: whatever the     *)
(* crashes, the retries and the clock did in between (PI04_LEDGER_CONTRACT). *)
CertificatesAreEarned ==
    \A s \in Horizons :
        /\ \A kind \in {"publication", "receipt"} :
               Cardinality({i \in DOMAIN journal : /\ journal[i].kind = kind
                                                   /\ journal[i].slot = s}) =< 1
        /\ \A r \in Logged("receipt", s) :
               /\ s \in Known
               /\ r.body = "on-time" =>
                     \A p \in Logged("publication", s) :
                         /\ p.timely
                         /\ EvidenceClass(p.number, r.body) = "genuine-forward" =>
                               \E e \in Events("input-observation") :
                                   e.number = p.number /\ e.timely

(* A job that succeeded has its publication, of its own content, certified   *)
(* by the process that published it: the two databases agree across crashes. *)
SuccessIsPublished ==
    ~lost => \A s \in Horizons : job[s].state = "succeeded" =>
                 /\ \E p \in Logged("publication", s) : p.number = job[s].content
                 /\ \E r \in Logged("receipt", s) : r.body # "recovery-unknown"

(* A publication is certified in the end, if only as recovery-unknown: no    *)
(* crash leaves the ledger one that it refuses to open.  Not so once the     *)
(* database was exchanged for an older copy, or the journal is full: then    *)
(* the ledger stays closed, as documented.                                   *)
EveryPublicationCertified ==
    \A s \in Horizons :
        (s \in Known) ~> (s \notin Uncertified \/ lost \/ Len(journal) >= MaxEvents)
=============================================================================
