---------------------------- MODULE Publication ----------------------------
(***************************************************************************)
(* The publisher (publication/coordinator.py over publication/sqlite_store *)
(* .py, publication/manifest.py and archive/storage.py).  One owning       *)
(* thread reserves the next batch, seals two objects and their views,      *)
(* stores the exact manifest bytes, installs the manifest under its epoch  *)
(* and sequence, and only then commits the catalog and the checkpoint.     *)
(* Any step may raise and be tried again by the same process, and the      *)
(* process or the host may die between and inside the steps.               *)
(*                                                                         *)
(* SQLite commits are durable.  A linked file is visible at once and       *)
(* survives a power loss once its directory has been synchronized.         *)
(***************************************************************************)
EXTENDS Naturals, Sequences

CONSTANTS
    Epochs, Partitions,
    Encoders,      \* releases of the object writer: same rows, other bytes
    MaxBatch,      \* limits.max_batch_records
    MaxRaw,        \* bound: raw records committed upstream
    MaxFailures    \* bound: failed steps, closings and crashes

ASSUME PublicationAssumption ==
    MaxBatch \in Nat \ {0} /\ MaxRaw \in Nat /\ MaxFailures \in Nat

VARIABLES
    raw,         \* the records the spool has committed: [epoch, partition]
    normalized,  \* how many of them have an outcome
    catalog,     \* publication_catalog, by checkpoint
    checkpoint,  \* publication_checkpoint: the manifest it names, or Genesis
    pending,     \* pending_publication, or NoPending
    files,       \* the archive: objects, partition views, manifests
    unsynced,    \* the files a power loss may take
    store,       \* the PublicationStore: "closed", "open", "failed"
    encoder,     \* the object writer this process has
    checked,     \* _history_checked
    step,        \* where publish_next or recover is
    failures     \* failures so far

upstream == <<raw, normalized>>
database == <<catalog, checkpoint, pending>>
archive  == <<files, unsynced>>
process  == <<store, encoder, checked>>
vars == <<upstream, database, archive, process, step, failures>>

(***************************************************************************)
(* A manifest stands for its bytes, hence for its hash.  Genesis stands    *)
(* before the first one, as a predecessor and as a checkpoint.             *)
(***************************************************************************)
Genesis   == [epoch |-> "none", sequence |-> 0, after |-> 0]
NoPending == [state |-> "none"]

Committed == {catalog[i] : i \in DOMAIN catalog}

-----------------------------------------------------------------------------
(* The archive *)

Object(role, p, writer) ==
    [kind |-> "object", role |-> role, before |-> p.before, after |-> p.after,
     encoder |-> writer]
View(object) == [kind |-> "view", object |-> object]
File(manifest) == [kind |-> "manifest", manifest |-> manifest]

Installed == {f.manifest : f \in {g \in files : g.kind = "manifest"}}

(* The entries of the sequence directory of a manifest. *)
Slot(m) == {n \in Installed : n.epoch = m.epoch /\ n.sequence = m.sequence}

-----------------------------------------------------------------------------
(* The publication database *)

OfEpoch(e) == {m \in Committed : m.epoch = e}

(* Mutant: the last manifest of all, whatever its epoch. *)
LastHead(e) == IF catalog = <<>> THEN Genesis ELSE catalog[Len(catalog)]

(* The manifest next_epoch_link finds: the last of its epoch. *)
EpochHead(e) ==
    IF OfEpoch(e) = {} THEN Genesis
    ELSE CHOOSE m \in OfEpoch(e) : \A n \in OfEpoch(e) : n.sequence <= m.sequence

(* _validate_rows: what opening the database demands of it. *)
ChainValid ==
    \A i \in DOMAIN catalog :
        LET m == catalog[i]
            earlier == {catalog[j] : j \in {k \in 1 .. i - 1 : catalog[k].epoch = m.epoch}}
        IN
        /\ m.after > m.before
        /\ m.before = IF i = 1 THEN 0 ELSE catalog[i - 1].after
        /\ IF earlier = {} THEN m.previous = Genesis ELSE m.previous \in earlier
        /\ \A n \in earlier : n.sequence <= m.previous.sequence
        /\ m.sequence = m.previous.sequence + 1

RowsValid ==
    /\ ChainValid
    /\ checkpoint = IF catalog = <<>> THEN Genesis ELSE catalog[Len(catalog)]
    /\ pending # NoPending =>
        /\ pending.before = checkpoint.after
        /\ pending.previous = EpochHead(pending.epoch)
        /\ pending.sequence = pending.previous.sequence + 1

(* _validate_committed: the exact manifest and its objects are there. *)
Resolves(m) ==
    /\ Slot(m) = {m}
    /\ \A o \in m.objects : o \in files

(* _reconcile_history: the archive has what the catalog says, and nothing  *)
(* else but the manifest of the prepared publication.                      *)
Reconciled ==
    /\ \A m \in Installed :
        /\ Slot(m) = {m}
        /\ \/ m \in Committed
           \/ pending # NoPending /\ pending.state = "prepared" /\ pending.manifest = m
    /\ \A m \in Committed : Resolves(m)

-----------------------------------------------------------------------------
Init ==
    /\ raw = <<>> /\ normalized = 0
    /\ catalog = <<>> /\ checkpoint = Genesis /\ pending = NoPending
    /\ files = {} /\ unsynced = {}
    /\ store = "closed"
    /\ encoder \in Encoders
    /\ checked = FALSE
    /\ step = "idle"
    /\ failures = 0

CommitRaw(e, p) ==
    /\ Len(raw) < MaxRaw
    /\ raw' = Append(raw, [epoch |-> e, partition |-> p])
    /\ UNCHANGED <<normalized, database, archive, process, step, failures>>

Normalize ==
    /\ normalized < Len(raw)
    /\ normalized' = normalized + 1
    /\ UNCHANGED <<raw, database, archive, process, step, failures>>

(* A new process, perhaps of another release, recovers before it publishes. *)
Open ==
    /\ store = "closed"
    /\ RowsValid
    /\ store' = "open"
    /\ encoder' \in Encoders
    /\ checked' = FALSE
    /\ step' = "recover"
    /\ UNCHANGED <<upstream, database, archive, failures>>

-----------------------------------------------------------------------------
(* publish_next and recover *)

At(s) == store = "open" /\ step = s

(* _reconcile_history: everything, or the last entry once all was checked. *)
Reconcile ==
    /\ At("idle")
    /\ IF checked THEN checkpoint # Genesis => Resolves(checkpoint) ELSE Reconciled
    /\ checked' = TRUE
    /\ step' = "next"
    /\ UNCHANGED <<upstream, database, archive, store, encoder, failures>>

(* NoPublishableWork and WaitingForNormalization *)
NothingToPublish ==
    /\ At("next")
    /\ pending = NoPending
    /\ checkpoint.after = normalized
    /\ step' = "idle"
    /\ UNCHANGED <<upstream, database, archive, process, failures>>

(* Mutant: records of one epoch from several partitions in one batch. *)
SelectableAcrossPartitions(last) ==
    /\ last \in checkpoint.after + 1 .. normalized
    /\ last - checkpoint.after <= MaxBatch
    /\ \A i \in checkpoint.after + 1 .. last : raw[i].epoch = raw[last].epoch

(***************************************************************************)
(* _select: records of one epoch and one partition that all have an        *)
(* outcome.  Where the byte limits end a batch is left open.               *)
(***************************************************************************)
Selectable(last) ==
    /\ last \in checkpoint.after + 1 .. normalized
    /\ last - checkpoint.after <= MaxBatch
    /\ \A i \in checkpoint.after + 1 .. last : raw[i] = raw[last]

Reserve(last) ==
    /\ At("next")
    /\ pending = NoPending
    /\ Selectable(last)
    /\ LET head == EpochHead(raw[last].epoch)
       IN pending' = [state    |-> "reserved",
                      before   |-> checkpoint.after,
                      after    |-> last,
                      epoch    |-> raw[last].epoch,
                      previous |-> head,
                      sequence |-> head.sequence + 1]
    /\ step' = "sealRaw"
    /\ UNCHANGED <<upstream, catalog, checkpoint, archive, process, failures>>

(* publish_next finds a publication that an earlier call left. *)
Resume ==
    /\ At("next")
    /\ pending # NoPending
    /\ step' = "recover"
    /\ UNCHANGED <<upstream, database, archive, process, failures>>

(* Mutant: recovery reconciles and stops there. *)
RecoverNothing ==
    /\ At("recover")
    /\ Reconciled
    /\ checked' = TRUE
    /\ step' = "idle"
    /\ UNCHANGED <<upstream, database, archive, store, encoder, failures>>

(* recover: all is reconciled, the reserved records are read again; a      *)
(* reservation is sealed once more, a prepared manifest is not.            *)
Recover ==
    /\ At("recover")
    /\ Reconciled
    /\ checked' = TRUE
    /\ \/ /\ pending = NoPending
          /\ step' = "idle"
       \/ /\ pending # NoPending
          /\ pending.after <= normalized
          /\ step' = IF pending.state = "reserved" THEN "sealRaw" ELSE "validate"
    /\ UNCHANGED <<upstream, database, archive, store, encoder, failures>>

Raw        == Object("raw", pending, encoder)
Normalized == Object("normalized", pending, encoder)

(* What the step at hand links into the archive. *)
Output ==
    CASE step = "sealRaw"        -> {Raw}
      [] step = "sealNormalized" -> {Normalized}
      [] step = "viewRaw"        -> {View(Raw)}
      [] step = "viewNormalized" -> {View(Normalized)}
      [] step = "validate"       -> {View(o) : o \in pending.manifest.objects}
      [] step = "install"        -> {File(pending.manifest)}
      [] OTHER                   -> {}

(* Mutant: the directory is not synchronized. *)
LinkOutput ==
    /\ files' = files \cup Output
    /\ unsynced' = unsynced \cup (Output \ files)

(* Link without replacing, then synchronize the directory. *)
InstallOutput ==
    /\ files' = files \cup Output
    /\ unsynced' = unsynced \ Output

Continue == [sealRaw |-> "sealNormalized", sealNormalized |-> "viewRaw",
             viewRaw |-> "viewNormalized", viewNormalized |-> "prepare"]

(* _seal_and_prepare, up to the manifest: each object, then each view. *)
Seal ==
    /\ store = "open" /\ step \in DOMAIN Continue
    /\ \A f \in Output : f.kind = "view" => f.object \in files
    /\ InstallOutput
    /\ step' = Continue[step]
    /\ UNCHANGED <<upstream, database, process, failures>>

Manifest ==
    [epoch |-> pending.epoch, sequence |-> pending.sequence,
     previous |-> pending.previous,
     before |-> pending.before, after |-> pending.after,
     objects |-> {Raw, Normalized}]

(* prepare: the exact bytes are stored before they are installed. *)
Prepare ==
    /\ At("prepare")
    /\ pending' = [state    |-> "prepared",
                   before   |-> pending.before,
                   after    |-> pending.after,
                   epoch    |-> pending.epoch,
                   previous |-> pending.previous,
                   sequence |-> pending.sequence,
                   manifest |-> Manifest]
    /\ step' = "validate"
    /\ UNCHANGED <<upstream, catalog, checkpoint, archive, process, failures>>

(* Mutant: the catalog is committed before the manifest is installed. *)
ValidateAndSkip ==
    /\ At("validate")
    /\ \A o \in pending.manifest.objects : o \in files
    /\ InstallOutput
    /\ step' = "commit"
    /\ UNCHANGED <<upstream, database, process, failures>>

(* _validate_prepared_objects *)
Validate ==
    /\ At("validate")
    /\ \A o \in pending.manifest.objects : o \in files
    /\ InstallOutput
    /\ step' = "install"
    /\ UNCHANGED <<upstream, database, process, failures>>

(* install_exact *)
InstallManifest ==
    /\ At("install")
    /\ Slot(pending.manifest) \subseteq {pending.manifest}
    /\ InstallOutput
    /\ step' = "commit"
    /\ UNCHANGED <<upstream, database, process, failures>>

(* commit_prepared: catalog, checkpoint and pending row in one transaction. *)
CommitPrepared ==
    /\ At("commit")
    /\ checkpoint.after = pending.manifest.before
    /\ catalog' = Append(catalog, pending.manifest)
    /\ checkpoint' = pending.manifest
    /\ pending' = NoPending
    /\ step' = "idle"
    /\ UNCHANGED <<upstream, archive, process, failures>>

-----------------------------------------------------------------------------
(* Failures *)

Failing == failures < MaxFailures /\ failures' = failures + 1

(* The step raises: its file may be linked and not synchronized.  A        *)
(* transaction is rolled back; when that fails too the store is lost.      *)
Raise ==
    /\ store = "open" /\ step # "idle"
    /\ Failing
    /\ \E done \in SUBSET Output :
        /\ files' = files \cup done
        /\ unsynced' = unsynced \cup (done \ files)
    /\ step' = "idle"
    /\ store' \in IF step \in {"next", "prepare", "commit"} THEN {"open", "failed"}
                                                             ELSE {"open"}
    /\ checked' \in IF step = "recover" THEN BOOLEAN ELSE {checked}
    /\ UNCHANGED <<upstream, database, encoder>>

Shut ==
    /\ store' = "closed"
    /\ step' = "idle"
    /\ checked' = FALSE
    /\ UNCHANGED <<upstream, database, encoder>>

Close ==
    /\ store # "closed" /\ step = "idle"
    /\ IF store = "failed" THEN UNCHANGED failures ELSE Failing
    /\ Shut
    /\ UNCHANGED archive

(* A crash between two steps; inside a step it is Raise and then a crash.  *)
(* The host going down with the process takes unsynchronized files.        *)
Crash ==
    /\ store # "closed"
    /\ Failing
    /\ \E taken \in SUBSET unsynced :
        /\ files' = files \ taken
        /\ unsynced' = unsynced \ taken
    /\ Shut

-----------------------------------------------------------------------------
Publisher ==
    \/ Reconcile \/ NothingToPublish \/ Resume \/ Recover
    \/ \E last \in 1 .. MaxRaw : Reserve(last)
    \/ Seal \/ Prepare \/ Validate \/ InstallManifest \/ CommitPrepared

Next ==
    \/ \E e \in Epochs, p \in Partitions : CommitRaw(e, p)
    \/ Normalize
    \/ Open \/ Publisher
    \/ Raise \/ Close \/ Crash

Spec == Init /\ [][Next]_vars

(* The pipeline loop calls publish_next again and again, the daemon is     *)
(* restarted, and the normalizer keeps up.                                 *)
Fairness == WF_vars(Publisher) /\ WF_vars(Open) /\ WF_vars(Normalize)
                /\ WF_vars(store = "failed" /\ Close)

FairSpec == Spec /\ Fairness

-----------------------------------------------------------------------------
IsObject(f) ==
    /\ f.kind = "object" /\ f.role \in {"raw", "normalized"}
    /\ f.before \in Nat /\ f.after \in Nat /\ f.encoder \in Encoders

IsManifest(m) ==
    /\ m.epoch \in Epochs /\ m.sequence \in Nat \ {0}
    /\ m.before \in Nat /\ m.after \in Nat
    /\ \A o \in m.objects : IsObject(o)

IsFile(f) ==
    \/ IsObject(f)
    \/ f.kind = "view" /\ IsObject(f.object)
    \/ f.kind = "manifest" /\ IsManifest(f.manifest)

IsPending(p) ==
    /\ p.state \in {"reserved", "prepared"}
    /\ p.epoch \in Epochs /\ p.sequence \in Nat \ {0}
    /\ p.before \in Nat /\ p.after \in Nat
    /\ p.state = "prepared" => IsManifest(p.manifest)

Steps == {"idle", "next", "recover", "prepare", "validate", "install", "commit"}
            \cup DOMAIN Continue

(* Every variable has its type.                                            *)
TypeOK ==
    /\ raw \in Seq([epoch : Epochs, partition : Partitions])
    /\ normalized \in 0 .. Len(raw)
    /\ DOMAIN catalog = 1 .. Len(catalog)
    /\ \A m \in Committed : IsManifest(m)
    /\ checkpoint = Genesis \/ IsManifest(checkpoint)
    /\ pending = NoPending \/ IsPending(pending)
    /\ \A f \in files : IsFile(f)
    /\ unsynced \subseteq files
    /\ store \in {"closed", "open", "failed"}
    /\ encoder \in Encoders
    /\ checked \in BOOLEAN
    /\ step \in Steps
    /\ failures \in 0 .. MaxFailures

(* Wherever a step failed or the process died, the publisher accepts its   *)
(* own history: the database opens (_validate_rows), the archive           *)
(* reconciles (_reconcile_history), and the slot of a prepared manifest is *)
(* free for it (install_exact).                                            *)
NeverRefusesItself ==
    /\ RowsValid
    /\ Reconciled
    /\ pending # NoPending /\ pending.state = "prepared" =>
          Slot(pending.manifest) \subseteq {pending.manifest}

(* What the catalog names, PublicationReader.resolve_exact accepts: the    *)
(* predecessor of the epoch is in its slot, the objects hold the records   *)
(* between the checkpoints, and these are of one epoch and one partition.  *)
ReaderResolves ==
    \A m \in Committed :
        /\ Resolves(m)
        /\ m.previous # Genesis =>
              /\ Slot(m.previous) = {m.previous}
              /\ m.previous.epoch = m.epoch
              /\ m.previous.after < m.after
        /\ {o.role : o \in m.objects} = {"raw", "normalized"}
        /\ \A o \in m.objects : o.before = m.before /\ o.after = m.after
        /\ \A i \in m.before + 1 .. m.after :
              raw[i].epoch = m.epoch /\ raw[i] = raw[m.after]

(* A power loss takes nothing the catalog or the prepared publication      *)
(* needs: every directory is synchronized before the commit that names it. *)
NamedFilesAreDurable ==
    /\ \A m \in Committed : ({File(m)} \cup m.objects) \cap unsynced = {}
    /\ pending # NoPending /\ pending.state = "prepared" =>
          pending.manifest.objects \cap unsynced = {}

Log == INSTANCE PublishedLog WITH
    Records <- [epoch : Epochs, partition : Partitions],
    records <- raw,
    ready   <- normalized,
    log     <- [i \in DOMAIN catalog |->
                   [first |-> catalog[i].before + 1, last |-> catalog[i].after]]

(* The catalog publishes the normalized records in order, each once.       *)
ImplementsPublishedLog == Log!Spec

(* Every record that has an outcome is published in the end, whatever      *)
(* failed on the way.                                                      *)
EverythingPublished ==
    \A i \in 1 .. MaxRaw : (normalized >= i) ~> (checkpoint.after >= i)
=============================================================================
