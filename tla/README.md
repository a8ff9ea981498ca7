# Verification of Scryntic

Scryntic records market data, proves what it has recorded, and publishes it as
immutable objects.  This directory holds TLA+ models of the parts that carry
that promise, the TLC configurations that check them on small instances, and
TLAPS proofs of their main invariants.  `PROJECT.json` maps every definition to
the lines it models.

## The system

One daemon per host (`daemon/components.py`) owns a data directory.  A live
source and a history source feed one *supervisor*, which stores every envelope
in a *durable ingestor* (a SQLite spool with one writer thread) and accounts for
what it could not store in a *coverage ledger*.  A *normalizer* classifies the
raw records in offset order; a *publication coordinator* seals batches of raw
and normalized records into content-addressed objects and a chained manifest.
Another host *pulls* manifests and objects, *imports* them, builds datasets,
runs *jobs* and keeps a *forecast ledger*.

| Component | State | Operations | Hard behaviour |
| --- | --- | --- | --- |
| Durable ingestor `ingestion/sqlite_spool.py` | `raw_records`, `recovery_state`; two bounded lanes, futures, flags | accept, records_after, status, recovery_get/put, close | callers race the writer thread, close and fatal failure; crash after commit |
| Normalizer `normalization/*` | outcomes, semantic candles, checkpoint, barrier | process, block, reopen | the kind of a record depends on all before it; retries, failed rollback, upgrade |
| Publication `publication/*`, `archive/*` | pending row, catalog, checkpoint; staged, installed and manifest files | publish_next, recover, reopen | a crash or power loss between any two of reserve, seal, prepare, install, commit; upgrade of an encoder |
| Recovery `recovery/*` | coverage snapshot (spans, checkpoint) in `recovery_state`; two tasks | begin, observe, loss, repair, finish | live intake interleaves with repair; restart; bounded history of losses |
| Jobs `jobs/*` | `jobs`, artifacts, active tasks; trials in `research/ledger.py` | submit, run, resume, cancel, aclose, reopen | deadline, timer and late answer; shutdown; an audit that raises behind its commit |
| Pull and import `sync/*`, `imports/*` | epochs, anchors, retained manifests, imports, objects, staging | enroll, authorize, pull, backup, restore | the producer goes on, is rewritten or loses files during a scan; a pull dies between two durable writes |
| Forecast ledger `forecast/*` | journal of events, head file; jobs in their own database | observe, schedule, infer, publish, certify, mature, score | two databases and a file, a crash between any two; a deadline and a clock that shakes |
| Daemon `daemon/*` | phases, tasks, store worker's queue, jobs, outcome | start, loops, drain, close, signals | cancelling a task does not stop the operation it waits for; two drains; a second signal; the shutdown deadline |
| Clock `clock/*` | last reading, last reference, refresh barrier, epoch | sample, is_final | steps, suspends and regressing references between the two reads of a sample |
| Live source `sources/bybit_live.py`, `recovery/budget.py` | bounded intake, replay cache, leases of the shared budget | connect, enqueue, yield, report a loss, close | overflow, reconnect and replay against the leases that repair borrows |
| Model worker `model_worker/launcher.py` | staging directory, copy thread, client process, systemd unit, pipes | verify, snapshot, spawn, drain, stop, join | cancellation at any await, more than once |
| Datasets and replay `dataset/*`, `replay/*` | inputs, claims, snapshot, pin, cases | select, build, install, retire, prepare, decide, fit | what was known when, against what came in later |
| Research journal `research/ledger.py` | journal file, head file, owner's copy | reserve, check, trial, append | death and power loss between write, sync and rename; a lost or restored file |
| Models, analytics, interfaces, configuration | files and pure functions | evaluate, present | mostly data |

They interact by calls into the ingestor from several threads (daemon worker,
supervisor, coordinator), by shared SQLite files each with one owner, and by
files on disk whose names are hashes.

### What makes each of them correct

* Ingestor: an answer is durable; one row per envelope unless the answer was
  lost; nobody waits for ever; no recovery update is lost.
* Normalizer: one outcome per record, a function of the raw log alone; a barrier
  goes only with the outcome it waited for; a reopened store is accepted.
* Publication: the catalog is a log of batches, each record once and in order;
  a name in the catalog is a durable file; what was prepared is what is
  committed; its own leftovers never stop it.
* Recovery: nothing the stream moved past is missing without a record;
  "complete" is claimed of stored candles only; each repair settles.
* Jobs: a final state is final; a success has its artifact and met its deadline;
  a running job has a task; the trial journal has no holes.
* Pull: what is accepted is one coherent history, anchors only advance, and
  pulls catch up with the producer.
* Daemon: a clean exit has published everything; nothing is closed that is still
  in use; a stop ends the process without help from its deadline.
* Live source: no candle state is missing from what is stored without a reported
  loss; repair never uses the reserve of live intake.
* Clock: a boundary called final has passed in true time.
* Forecasts: a certificate is earned by a committed, timely publication, and each
  publication gets exactly one, whatever crashed.
* Model worker: nothing of an execution goes on after it returned.
* Replay: a decision sees what was known at its time; no label of the training
  part reaches into a held-out one.
* Research journal: what a caller was told to go on with stays in every journal
  a later owner accepts.

## The modules

| Module | Models |
| --- | --- |
| `Spool`, `MCSpool`, `SpoolProofs` | the ingestor |
| `Normalization`, `MCNormalization`, `NormalizationProofs` | the normalizer and its runner |
| `PublishedLog` | what publication promises: records are published in order, in batches |
| `Publication`, `MCPublication`, `PublicationProofs` | the coordinator, its store, the manifest directory and the archive |
| `Recovery`, `MCRecovery`, `RecoveryProofs` | the coverage ledger and the supervisor's tasks |
| `Jobs`, `MCJobs`, `JobsProofs` | the job store, the runner and service, the trial journal |
| `Daemon`, `DaemonProofs` | the process that drives all of these: start, loops, drains, close (the proofs are about `ModelWorker`, too) |
| `Pull` | discovery, staging, acceptance and import of a producer's history |
| `ModelWorker` | one execution of a workload in a transient unit |
| `LiveSource` | the websocket source, its bounded intake and the shared budget |
| `Clock` | the clock monitor and the finality policy |
| `Dataset` | selection, recipes, snapshots, pins and their replay |
| `ForecastLedger` | forward forecasts, their ledger and their jobs |
| `ResearchLedger`, `MCResearch` | the journal of a protected research installation |
| `IntakeProofs` | proofs about `LiveSource` and `Pull` |
| `EvidenceProofs` | proofs about `ResearchLedger`, `ForecastLedger`, `Dataset` and `Clock` |
| `MCProgress`, `MCEvidence` | compositions: the liveness of six modules, and the properties of five |

**Spool.**  A caller is a thread that is blocked in at most one call; `request`
is the request whose future it waits for, `requests` and `metadata` are the two
lanes.  The writer goes through `_run` test by test (`CheckShutdown`,
`TakeMetadata`, `TakeIntake`, `IntakeTimeout`, ...), because the order of those
tests against `close()` and `_submit` is what the properties are about.  A
transaction is one step that commits (`Record`), or fails and rolls back, or
fails to roll back (`SetFatal`, then both lanes are drained one request at a
time).  `Crash` keeps only what was committed.

**Normalization.**  `raw` is the spool's log, `outcomes`, `candles`, checkpoint
and barrier the store's tables.  `ProcessNext` is one pass of `process_next`
(`Read`, `Resolve`, `Verdict`, `Return`); the payloads are the shapes that
`inspect_fake_candle` and the kline parser tell apart.  A release that cannot
read a schema blocks, a later one processes the record.

**Publication.**  Every write is its own step: staging, link, directory sync,
pending row, manifest link, manifest sync, catalog commit.  A power loss removes
any link whose directory was not synced; a crash only the process.  An object is
its content and the release that encoded it, which is what its hash tells apart;
`Manifest` is identified the same way.  `PublishedLog` is instantiated with the
catalog as its log; that `Publication` implements it is checked and proved.

**Recovery.**  The market (`head`) goes from an open candle to its confirmation
to the next candle; the live task may miss any of it.  The ledger's operations
are operators from snapshot to snapshot, named as in `coverage.py`; each runs
under the supervisor's lock and ends in one compare-and-swap, so the stored
snapshot and the one in memory are one variable.  A failed save ends supervision
and equals `Die`.  The two tasks take their awaits as separate steps: `Accept`
then `Observe`, `Attempt` then `Fetch` then `Row` for each row then `SavePage`.
Not told apart: the reason of a span, its detection clock, `active` (it only
chooses the wording of a reason), and the state HEALTHY or DEGRADED.  The budget
and the one-second request gate decide when a task may go on and are left open
here; `LiveSource` models the budget.

**Jobs.**  One thread owns the store, so between two awaits a coroutine is
alone: `call` is the stretch of code that runs and its next step.  A step is one
transaction or one audit; the clock moves, and the process dies, between any
two.  `Expire`, `Claim`, `Finished`, `Cancelled` and `Recovered` are the
statements of `store.py` on one row; `Transaction` commits the table and then
audits it, and when the audit raises the call continues in the handler that
`runner.py` has there.  A task is `working` until the provider answers, the
monotonic timer fires, or somebody cancels it; what counts is the last of these
before the runner resumes (`Wake`).  Left out: the quota of 1024 jobs, errors of
SQLite (they close the owner), an installation without a research ledger, and
admission, which `Start` lets fail by choice.  An attempt's token is its number.

**Daemon.**  `drive` is where `Daemon.run` is, `phase` what `Services` is doing,
`tasks` the three tasks of the event loop, `queue` the operations submitted to
the store worker, which runs them in order whether or not the task that awaits
them was cancelled.  `Processed` is one `_process`: normalize and publish up to
`Batch` records.  The stores are counts of what is committed, normalized and
published; initial states hold what an earlier process left.  `Flush` and
`DrainJobs` are the passes of `drain()`; `Settles` decides when a flush has seen
enough.  Signals, faults of any operation and the shutdown deadline
(`Expired`) come between any two steps.

**Pull.**  The producer publishes, truncates and rewrites its history, begins
epochs and loses objects while a pull is under way.  A pull lists epochs, scans
manifests (twice after a degraded hint), downloads the objects of the next
acceptable manifest through staging, installs them, and registers the import
and the anchor in one transaction.  `Interrupt` ends it, by failure, cancellation
or death, between any two durable writes.  A range of a download is one step.
`Restore` puts trust back from a backup on a new installation.

**ModelWorker.**  `caller` is the coroutine, `copying` the thread that copies
the model, `client` the systemd-run process, `unit` the transient unit, `reading`
the tasks that drain the pipes.  `CancelWorker` sets a flag that the next await
of the coroutine sees; each await and each cleanup step is an action.  The
manager may fail to confirm a stop, or start the unit after it (`excuse`).

**LiveSource.**  The states of a candle are numbered.  `Connect` begins a
subscription with the present state; `Receive` puts what comes off the wire into
the bounded `intake`, unless `seen` knows it; an overflow breaks the connection
and is remembered until the supervisor has taken the loss (`ReportLoss`).
`yielded` is the record the supervisor has in hand, whose lease is given back
when it asks for the next (`Ingested`) or the generator is left (`LeaveStream`).
`page` is what repair has reserved of the same budget.  A state that returns to
an earlier one (A, B, A) has a new number here; in the code `seen` drops it.

**Clock.**  True time, the error of the wall clock, the time suspended and what
chrony last measured are kept beside the monitor, so that a verdict can be
compared with the truth.  A sample reads the clocks, then chrony, then the
clocks again; the wall clock may be stepped, the host suspended and chrony's
source changed between any two reads.  chrony keeps what it `measured`, and may
fall back on any of it.  `forgotten` is the error that was already there when
the monitor began to count with its measurement, which no monitor can see;
`overtaken` says that it began with a measurement it did not then trust (see
below).  Units are arbitrary; unrepresentable numbers in chrony's answer are
left out.

**Dataset.**  One series of candles; an input is a candle's revision with the
time of its receipt, a claim the coverage of whole candles.  `SnapshotOf` is the
selection under a recipe, over the positions of the inputs it admits; `Build`,
the prefixes of an installation (a crash leaves a prefix), `Retire`, `Prepare`,
then one `Decide` per case and `Fit`. Receipts without a healthy clock tell no
time.

**ForecastLedger.**  One instrument and one origin; the horizons of that origin
are the slots, finitely many.  `journal` is the ledger's chain of events, `head`
the anchor file, `job` the rows of the job store, which is another database.  A
session observes and certifies an input, schedules jobs for the slots, claims
and infers, publishes, certifies, and closes the job; each durable write is a
step and a crash may come between any two.  A later session goes on with what it
finds.  The head file may be put back from an old copy.

**ResearchLedger.**  `shelf` is the installation as the page cache shows it,
`hardened` what a power loss may leave of it, `desk` the owner's memory.  An
append is write, fsync, replacement of the head, fsync of its directory; the
owner is killed or the power fails before each.  One file may be lost or put
back from an old copy.  `granted` collects what callers were told to go on with.

## The runs

| Run | Shows | Bounds |
| --- | --- | --- |
| `spool` | `AcceptedIsDurable`, `StoredOnceUnlessAnswerLost`, `NoLostUpdate`, `NoStrandedCaller` | two callers, two keys, lanes of one slot; one crash |
| `normalization` | `OutcomesMatchTable`, `OneOutcomePerRecord`, `ReopenSucceeds` | every log of three records over four candles; two failures |
| `publication` | `NeverRefusesItself`, `ReaderResolves`, `NamedFilesAreDurable`, `ImplementsPublishedLog` | three records over two epochs, two partitions, two encoders; three failures |
| `recovery` | `NoSilentGap`, `CoverageIsEarned`, `LossStaysVisible`, `RepairSettles` | three candles, two spans, two attempts of a repair; any number of sessions |
| `jobs` | `SucceededIsEarned`, `RunningIsHeld`, `JournalHasNoHoles`, `ShutdownNeverCancels` | two jobs, two attempts, one active; two of: crash, step back of the clock, failed audit |
| `progress` | the liveness of six modules: `CloseCompletes`, `RecoveryAnswered` (spool), `Progress` (normalizer), `EverythingPublished` (publication), `StopEnds` (daemon), `CatchesUp` (pull), `WorkerReturns` (model worker); and `CleanExitIsComplete`, `ReleasedWhenUnused`, `HistoryIsWhole`, `AnchorsOnlyAdvance`, `QuietAfterReturn` of the last three | spool: three callers, recovery lane of two; normalizer: two records of one key, one failure; publication: two records, two failures; daemon: two records, one job, two signals, one fault; pull: two epochs, two manifests, staging for one, one trouble; worker: two cancellations, one mishap |
| `evidence` | `NothingLostSilently`, `HeadroomKept` (live source), `FinalityIsNotEarly` (clock), `ReplaySeesNoFuture`, `HeldOutStaysUnseen` (replay), `CertificatesAreEarned`, `SuccessIsPublished`, `EveryPublicationCertified` (forecasts), `AuditStands` (research) | live source: four states, two breaks, intake of two, budget of three with one reserved and pages of two; clock: three samples over three units of time, two shifts; dataset: three candles, three inputs, four recipes, three replays; forecasts: one slot, eight events, one crash, one shake of the clock; research: three entries, one damage |
| `recovery_gap` | `NoInventedGap` is violated, see below | as `recovery` |
| `recovery_cursor` | `CursorFollowsWork` is violated, see below | as `recovery` |
| `jobs_closing` | `JournalErrorCloses` is violated, see below | as `jobs` |
| `jobs_budget` | `ReopeningCanAudit` is violated, see below | as `jobs` |
| `research_head` | `HeadIsSynced` is violated, see below | as the research part of `evidence` |

`progress` and `evidence` are sums: `part`, chosen in the initial state, names
the one module that a behaviour is of, and the variables of the others keep
their initial values.  The state space is the sum of the modules' own, so this
checks each module as a run of its own would, and nothing about their
interaction; what one component assumes of another is stated where it is
modelled.

Why the bounds are enough to be of interest.  In `spool` a lane of one slot is
full as soon as one caller waits, so refusal, draining and overtaking all
happen; one crash puts the loss of an answer before every kind of retry.  Three
records are the least that make a duplicate, a conflict and a finalized candle
over a provisional one meet in both orders with a barrier between, and that let
an epoch return after another.  Three failures let a resumed publication fail
again and be resumed under another encoder.  Two spans fill the history of
losses, so that the quota and `unknown_since_ns` are reached.  `MaxRejections`
is one there: the first malformed record ends supervision, and a malformed
record that does not is the step `ReportLoss`.

In `jobs` the deadlines differ and both lie within the clock's range, the quota
of active tasks refuses the second job, and the budget of three trials is
smaller than the four attempts, as eight is in the code against three attempts
of every job.

In `progress` the daemon's batch of one record is smaller than what is stored,
so that a flush takes several passes, and a second signal meets a drain under
way.  Staging holds the objects of one manifest, so a leftover of another is in
the way; two epochs let the producer begin the second before the first is
finished.  Two cancellations of the worker cut its cleanup short once more.

In `evidence` the intake overflows and the budget is exhausted by a page, a
record in hand and a record in the queue; two breaks let a reconnect break
again.  Offset, radius, age and gap limits of the clock are small enough that
three samples cross each of them, and two shifts let chrony fall back on a
measurement after the clock was stepped.  The replay's parts end before the last
candle, and the recipes differ in revision, lag, finality and coverage.  Eight
events let a slot be published, lost by a crash, certified as `recovery-
unknown`, matured and scored, and also fill the journal.

Symmetry is used for callers, prices, candle keys, epochs, partitions and
encoders where no definition tells them apart, and never in a run that checks
liveness.

### Fairness

Threads and tasks that are runnable are run; nothing is assumed of callers,
sources and operators unless it is said here, and nothing of failures except
that the bounds make them finite.

* Spool, normalizer, publication, recovery: the steps of the writer thread, of
  `close()` once begun, of the pipeline loop and of the repair loop.  That the
  intake lane is served under endless recovery traffic is not claimed: the
  writer prefers the recovery lane.  `RepairSettles` rests on the shared budget
  and the request gate letting the repair through in the end; leases are
  released when their record is stored, and the gate reopens by time.
* Daemon: the store worker runs what it is given, pulls and jobs end (each has a
  deadline), the loops take their turns and the drains their passes.  Not
  `Expired`: `StopEnds` shows that shutdown does not need its deadline.
* Pull: a pull is started again and again, as the daemon's loop does, and its
  steps go on.  `CatchesUp` names the states no pull gets past (`Excused`):
  a rewritten or incomplete remote, an epoch nobody authorized, and a staging
  directory full of objects that a death between commit and discard left there,
  which the code never discards.
* Model worker: threads, subprocesses and timeouts end, and the manager ends the
  unit after `RuntimeMaxSec`.
* Forecasts: what a session has begun goes on, the command is run again, and
  (strongly) a session ends.

In `progress` the fairness of the six modules is lined up condition by
condition; a condition of another part is never enabled, so each part has
exactly the fairness its own module states.

### Disagreements found

* `recovery_gap`.  `docs/data/RECOVERY.md` says of the spans "They do not invent
  missing counts."  `_candle_gap` reads `checkpoint_ns <= last` as "the last
  candle was not finalized"; but the checkpoint is held back by the oldest
  unresolved span, so while one is unresolved each new candle records a gap that
  starts at a candle whose finalized record is stored.  Repair removes such
  spans, but with one span unknown for good they go on until the quota of 63
  spans, where supervision ends.
* `recovery_cursor`.  The same document says that an interrupted page "may
  replay records, never skip unacknowledged work."  When the stop flag is set
  during a page, `_intake_envelopes` leaves out the remaining rows and
  `repair_once` still stores the page's cursor; the next session continues
  behind them.  No coverage is claimed for them (`CoverageIsEarned` holds), but
  the span ends as unknown although history had the candles.
* `jobs_closing`.  The comment of `_audit_states` says "A journal error closes
  this owner to further work".  `_transaction` sets `_failed` only for
  `sqlite3.Error`; the audit raises `OSError` (a busy or failed ledger) and
  `ValueError` (its clock, its budget), and the owner works on.  If the error
  comes from `claim`, which `run()` calls outside of its `try`, the job stays
  running with no task until its deadline or a restart.  `RunningIsHeld` is
  therefore stated for owners whose audits have not raised.
* `jobs_budget`.  The same comment says that "reopening retries the idempotent
  audit".  A claim commits its attempt before the audit registers it, and the
  ledger registers eight starts over all jobs: the ninth attempt leaves a table
  whose audit raises behind every commit, and also in the constructor, so the
  store does not open again.
* `research_head`.  `docs/architecture/PI01_PROTECTIVE_FOUNDATION.md` says "The
  journal is synced before advancing the separately synced head."  An owner that
  is killed between write and fsync leaves a whole line in the page cache;
  `_load_anchor` of the next owner binds every line it reads and `_anchor` syncs
  the head alone.  A power loss then leaves a durable head ahead of the journal,
  which every later opening refuses as lost history.

Four more are stated in their modules and are in no run (one line in a cfg
checks them):

* `BreakNeedsNewMeasurement` (`Clock`).  `docs/data/CLOCK.md` says that a break
  invalidates old evidence until chrony reports a later measurement.  The barrier
  is the latest wall time and reference the monitor has seen (`monitor.py:143`);
  a measurement that chrony took after the monitor's last look and before a step
  backwards carries a later time than that, and passes.
* `NotEarly` (`Clock`).  The same document says that smaller differences of the
  clocks "widen uncertainty until refreshed".  `_update_continuity` ends the
  count at any synchronized report newer than the last one trusted
  (`monitor.py:132-141`), also one that `_quality` then refuses, say for its
  offset; if chrony falls back on the trusted measurement, that one is healthy
  with the change left out, and a boundary that has not passed is accepted.  With
  the limits of `evidence` TLC shows it in ten steps, and the classes of
  `monitor.py` and `policy.py` do the same with these readings.
  `FinalityIsNotEarly` is therefore stated for the other sequences of reports.
* `OldEpochCanBeFinished` (`Pull`).  `docs/data/sync/F17_PULL.md` has the
  operator finish the old epoch before authorizing a new one; but once the
  producer has begun the new epoch, the first manifest of it that discovery lists
  ends every pull, and the rest of the old one cannot be imported.
* `NoOrphanUnit` (`ModelWorker`).  The comment in `launcher.py:503` says creation
  is joined and cleaned up instead of orphaning a unit.  `systemctl stop` of a unit
  the manager does not know counts as stopped, and the client may still submit
  it before it is killed; the unit then runs until its own limit.

Other behaviour worth knowing, which no document contradicts.  Research: a torn
last line blocks every later opening; losing journal and head together removes
the protection; a repeated `trial()` returns without an event.  Forecasts: a
publication that is the last event the journal holds leaves a ledger that can
append no receipt and does not open again; a job that fails within its window
leaves a slot neither published nor marked; an unqualified observation before a
crash makes the next session report a conflict of inputs; each call of `mature`
appends its `excluded` events again.

## The proofs

Eight modules prove properties for every value of the constants; between them
they state every safety property of the runs above that is not violated.

* `SpoolProofs`: `TypeCorrect` first.  `NoStrandedCaller` needs the inductive
  invariant that ties each caller to exactly one place: in a lane, active, or
  answered, and that the writer cannot be past its last look at a lane that
  still admits.  `AcceptedIsDurable` and `StoredOnce` need that the answer
  prepared for a caller names the row just committed, and that no two live
  attempts hold the same envelope.  `NoLostUpdate` follows from versions that
  only a successful compare-and-swap moves on.  `OvertakingBounded`: at most one
  intake request passes a waiting recovery request.
* `NormalizationProofs`: the invariant says that the outcomes are those of the
  table for the prefix of the log up to the checkpoint, that candles are the ones
  this prefix determines, and that a barrier stands on the record after the
  checkpoint.  Without the second part a single step could not be classified.
  `BarrierStays`: a barrier goes only with the outcome it waited for.
* `PublicationProofs`: a durable file is one whose directory was synced
  (`Durable`), and durable files only grow.  The invariant: every batch of the
  catalog is sound (records of one epoch and partition between its checkpoints,
  its files durable), consecutive batches meet and each names the last one of
  its epoch (`Chained`), the pending row is a batch that could come next
  (`Awaited`), and where the publisher stands says which of its files are
  durable (`Stepped`).  `NamedFilesAreDurable`, `ReaderResolves` and
  `NeverRefusesItself` follow from it, and so does the refinement: a commit is
  one step of `PublishedLog`, every other step stutters.
* `RecoveryProofs`: `RecoverySound` is the types and the invariant.  Each of the
  three kinds of stream has an account: for candles, that every one of them up
  to the last is in the journal or in a span that is not repaired, and below the
  checkpoint in the journal; for trades, that every number up to the last is in
  the journal or between the numbers of a span, unless a loss without numbers
  made them uncountable; for books, that a valid one was fed without a hole.
  These are inductive only together with what the two tasks hold between their
  awaits (`MessageSound`, `SessionSound`): an accepted message is in the journal
  if its kind is, and not older than the ledger; what a page has proven is in the
  journal, and the span it is of is still pending and has an end.  Every
  operation of the ledger has a lemma about its account (`Exhaust`, the loss, the
  repair, the restart), so the steps of the system only name the operation they
  apply.  `CompleteIsEarned`
  reads off the same account; `LossesStayVisible` needs of each operation that
  it changes the spans `LossesVisible` allows.
* `IntakeProofs`, live source: what is stored, in hand, in the queue and on the
  wire is one line of states: what lies before any of them is stored or reported
  as lost (`Line`); what `seen` knows is stored, in hand or queued (`SeenTaken`),
  so that nothing that overflowed is taken for a replay; a quiet connection has
  shown the present state (`PresentKnown`).  The budget counts the line's leases.
  Pull: every manifest anywhere is one a producer wrote (`Manifests`); trust, and
  the backup it may be restored from, are each a `History`: a chain from
  bootstrap to anchor in every epoch, and every epoch begins where those before
  it ended.  That the next manifest extends it needs that the predecessor the
  code computes from the epochs listed before is the one of the chain
  (`PriorAgrees`), though epochs without manifests lie between.
  `TrustIsNotTakenBack` follows from the same case split.
* `DaemonProofs`: the phase of the services determines what the store worker can
  still have in its queue and which tasks are left (`Phased`, `Quiesced`,
  `Flushed`), and once an outcome is reported nothing moves.  `ReturnIsQuiet`,
  about the model worker: the phase of the coroutine says which of directory,
  client and unit exist (`Staged`, `Launched`), the step of the cleanup which of
  them it has ended (`CleanedUp`), a unit that outlives it has an excuse
  (`UnitExcused`), and a response has come out of a pipe read to its end
  (`AnswerEarned`).
* `JobsProofs`: each statement of the store turns a row into one that is `Allowed`
  after it, one lemma per statement; each step of the system applies one of them
  to one row, or to all.  `TerminalStaysFinal` follows from the step alone.
  `SucceededIsEarned` needs the invariant that a run about to register its
  success has its artifact installed (`Installed`), and that the expiry in the
  same transaction has seen the deadline.  Every statement but `claim()` leaves
  a row's attempt as it is and starts nothing (`Keeps`), and none but `cancel()`'s
  cancels for good (`Spares`).  `RunningIsHeld` needs that a claim finds no task
  of its job (`Claimed`) and that a stretch of `run()` keeps its attempt until it
  has ended it (`Continues`).  `JournalHasNoHoles` needs that a dispatch finds in
  the journal whatever the table says of its job (`Journalled`: the look before
  the claim has audited it), and that the attempts before the present one of any
  job are journalled (`Trail`).  `ShutdownNeverCancels` reads off each step whom it
  spares.
* `EvidenceProofs`, research journal: what was granted is in the part of the
  journal that was synced (`InJournal`) and in every head a power loss can leave
  (`InHeads`); damage to one file leaves one of the two, and either one makes the
  audit refuse a journal without the grant.  With both files damaged nothing
  holds, so `GrantsAreKept` is stated for at most one damage, the bound of the run.
  Forecasts: journal and plan have every kind of event of a slot once, and a
  receipt rests on a publication before it, one of an input on an observation
  (`SoundJournal`, `SoundPlan`); what is late stays late (`LateIsLate`); the phase
  of the session says what of its slot is written (`SessionTrue`).  A crash cuts
  the journal behind its last commit, and all of these survive a cut.  `Successes`
  ties the other database to it, until a journal is exchanged for an older copy.
  Datasets: the first input of a candle is the accepted one, and nothing but
  duplicates follows a final state, so two sets of inputs select the same
  state of a candle wherever the smaller has its last change (`SelectionAgrees`).
  The rows a case looks at were all there at its decision (`RowWasThere`); a case
  keeps what its boundary and its label were (`CaseTrue`).
  Clock: the count of small changes bounds by how much the error of the wall
  clock exceeds that of the trusted measurement (`Counted`).  A suspend shows
  in the clocks like a step forward and can only add to it, so this needs
  nothing about breaks.  Evidence that is newer than the trusted one and does
  not end the count is from the future, and then the wall clock is behind.

The only assumptions are the named ones on the constants; TLC evaluates them on
every run.  Only model-checked is every liveness property (`RepairSettles`,
`EveryPublicationCertified` and those of `progress`): fairness and ENABLED are out
of reach of the prover.  What a recursive definition computes for every input is
not proved either, so selections are stated by least and greatest elements, and
sequences made of sets by `FiniteSetTheorems`.  That reopening can audit and that
a journal error closes the owner are no theorems: the runs show the opposite.

## Not modelled

`PROJECT.json` lists every component.  Left out for good: codecs and parsers
beyond the shapes they tell apart, SFTP and HTTP transports, the confinement of
model workers, numeric models, research arithmetic, user interfaces and
configuration.  Byte limits are left open: a record fits or is refused, by
choice.  Record contents are immutable, as the spool never updates a row.  The
composition of several components in one state space is not attempted: each
assumes of the others only what their own module promises (a committed record
stays, a call returns or fails).

The one hazard without a property is the snapshot of an order book
(`supervisor.py:469`): `_snapshot_required` is cleared after an await, over a
loss noticed meanwhile.  The next delta sets it again, so the property would be
one about a source that keeps sending, which the bounded market of `Recovery` is
not.

## Plan

1. Abstract specifications of components that have none yet, with the
   refinement proved: for `Pull` a log replicated from the producer's, the anchors
   as its state; for `Spool` a store whose calls take effect at one moment.
2. The order book's snapshot in `Recovery`, over a market that goes on.
3. The compositions: a daemon whose stores are the spool, the normalizer and the
   publisher themselves, as far as their promises can be proved to compose.
