-------------------------------- MODULE Pull --------------------------------
(***************************************************************************)
(* The workstation's copy of what a producer has published: discovery,     *)
(* staging and acceptance (sync/pull.py, sync/staging.py), the catalog of  *)
(* imports (imports/catalog.py) and the trust kept beside it in the same   *)
(* database (sync/catalog.py).  One process owns the catalog; a pull lists *)
(* the remote epoch by epoch while the producer goes on, and may fail, be  *)
(* cancelled or die between any two of its durable writes.                 *)
(***************************************************************************)
EXTENDS Naturals, Sequences, FiniteSets

CONSTANTS
    MaxEpochs,     \* bound: epochs the producer goes through, 1 .. MaxEpochs
    MaxManifests,  \* bound: manifests of one branch of its history
    Roles,         \* the objects of a manifest
    Allowance,     \* limits.max_new_manifests
    StagingLimit,  \* limits.max_staging_bytes, in objects
    MaxTroubles    \* bound: failures, truncations and losses

ASSUME PullAssumption ==
    /\ MaxEpochs \in Nat \ {0} /\ MaxManifests \in Nat
    /\ Allowance \in Nat \ {0} /\ StagingLimit \in Nat /\ MaxTroubles \in Nat

VARIABLES
    remote,     \* the manifests of the producer's namespace
    branch,     \* times the producer has lost its end and written another
    missing,    \* the manifests whose objects its archive does not serve intact
    epochs,     \* pull_epochs: the authorized epochs by ordinal; <<>> before enroll
    bootstrap,  \* pull_epochs: where trust in each epoch began
    anchor,     \* pull_epochs: the last manifest accepted in each epoch
    retained,   \* pull_manifests: the history kept of each epoch
    imports,    \* imports: the manifests whose objects passed validation
    installed,  \* imports/objects
    staged,     \* pull-staging: complete objects
    partial,    \* pull-staging: objects with a .part
    backup,     \* the bytes of the last backup, kept elsewhere
    stage,      \* where the pull is
    unlisted,   \* epoch directories still to be listed
    committed,  \* what discovery has found
    pending,    \* what this pull is to accept
    taken,      \* how many of them it has accepted
    rescanned,  \* the second scan, after a degraded hint, has begun
    troubles    \* troubles so far

producer    == <<remote, branch, missing>>
trust       == <<epochs, bootstrap, anchor, retained>>
staging     == <<staged, partial>>
transfer    == <<stage, unlisted, committed, pending, taken, rescanned>>
durable     == <<trust, imports, installed, staging>>
pullVars    == <<producer, durable, backup, transfer, troubles>>

EpochIds == 1 .. MaxEpochs

(* A manifest stands for its bytes: its epoch and sequence, its predecessor *)
(* in the epoch (previous_manifest_hash), the checkpoints before and after  *)
(* it, and the branch of history it belongs to.                             *)
Genesis == [epoch |-> 0, sequence |-> 0, after |-> 0]

Objects(m) == {[manifest |-> m, role |-> r] : r \in Roles}

Authorized == {epochs[i] : i \in DOMAIN epochs}
Active     == epochs[Len(epochs)]       \* enrollment(name).epoch
Latest(S)  == CHOOSE m \in S : \A n \in S : n.after <= m.after

Stumble == troubles < MaxTroubles /\ troubles' = troubles + 1

-----------------------------------------------------------------------------
(* The producer *)

Tip     == IF remote = {} THEN Genesis ELSE Latest(remote)
HeadOf(e) == LET own == {m \in remote : m.epoch = e}
           IN  IF own = {} THEN Genesis ELSE Latest(own)

Publish(e) ==
    /\ Tip.after < MaxManifests
    /\ e \in {Tip.epoch, Tip.epoch + 1} \cap EpochIds
    /\ remote' = remote \cup
         {[epoch |-> e, sequence |-> HeadOf(e).sequence + 1, previous |-> HeadOf(e),
           before |-> Tip.after, after |-> Tip.after + 1, branch |-> branch]}
    /\ UNCHANGED <<branch, missing, durable, backup, transfer, troubles>>

TruncateRemote(m) ==
    /\ Stumble
    /\ remote' = {n \in remote : n.after < m.after}
    /\ branch' = branch + 1
    /\ UNCHANGED <<missing, durable, backup, transfer>>

LoseObjects(m) ==
    /\ Stumble
    /\ missing' = missing \cup {m}
    /\ UNCHANGED <<remote, branch, durable, backup, transfer>>

-----------------------------------------------------------------------------
(* Trust: what the operator authorizes, and its backup *)

Checkpoints(e) == {Genesis} \cup {m \in remote : m.epoch = e}

AddEpoch(e, checkpoint) ==
    /\ epochs' = Append(epochs, e)
    /\ bootstrap' = [bootstrap EXCEPT ![e] = checkpoint]
    /\ anchor' = [anchor EXCEPT ![e] = checkpoint]
    /\ retained' = [retained EXCEPT ![e] = {checkpoint} \ {Genesis}]
    /\ UNCHANGED <<producer, imports, installed, staging, backup, transfer, troubles>>

(* enroll of a name that is enrolled changes nothing. *)
Enroll(e, checkpoint) ==
    /\ stage = "idle" /\ epochs = <<>>
    /\ AddEpoch(e, checkpoint)

AuthorizeEpoch(e, checkpoint) ==
    /\ stage = "idle" /\ epochs # <<>>
    /\ e \notin Authorized
    /\ AddEpoch(e, checkpoint)

(* _prior_checkpoint: where the epochs before the i-th end *)
PriorCheckpoint(list, kept, i) ==
    LET known == {j \in 1 .. i - 1 : kept[list[j]] # {}}
    IN  IF known = {} THEN 0
        ELSE Latest(kept[list[CHOOSE j \in known : \A k \in known : k <= j]]).after

(* _parse_history: each epoch is one chain from its bootstrap to its anchor, *)
(* and takes up the input where the epochs before it ended.                  *)
Step(m, kept, from, checkpoint) ==
    IF m.sequence = from.sequence + 1
    THEN m.previous = from /\ m.before = (IF from = Genesis THEN checkpoint ELSE from.after)
    ELSE \E n \in kept : m.previous = n /\ m.before = n.after

Coherent(t) ==
    \A i \in DOMAIN t.epochs :
        LET e    == t.epochs[i]
            kept == t.retained[e]
            from == t.bootstrap[e]
        IN  /\ \A m \in kept : m.epoch = e
            /\ from # Genesis => from \in kept
            /\ t.anchor[e] = IF kept = {} THEN from ELSE Latest(kept)
            /\ \A m \in kept \ {from} :
                 m.sequence > from.sequence /\
                 Step(m, kept, from, PriorCheckpoint(t.epochs, t.retained, i))

Trust == [epochs |-> epochs, bootstrap |-> bootstrap,
          anchor |-> anchor, retained |-> retained]

Backup ==
    /\ stage = "idle" /\ epochs # <<>>
    /\ Coherent(Trust)
    /\ backup' = Trust
    /\ UNCHANGED <<producer, durable, transfer, troubles>>

(* Mutant: a backup only has to agree on where trust began. *)
ExtendsBootstrap(t, e) == t.bootstrap[e] = bootstrap[e]

(* _missing_history: a backup may extend what is kept of an epoch, never    *)
(* take any of it back.                                                     *)
Extends(t, e) ==
    /\ t.bootstrap[e] = bootstrap[e]
    /\ anchor[e].sequence <= t.anchor[e].sequence
    /\ retained[e] = {m \in t.retained[e] : m.sequence <= anchor[e].sequence}

Restore ==
    /\ stage = "idle" /\ backup.epochs # <<>>
    /\ Coherent(backup)
    /\ Len(epochs) <= Len(backup.epochs)
    /\ epochs = SubSeq(backup.epochs, 1, Len(epochs))
    /\ \A e \in Authorized : Extends(backup, e)
    /\ epochs' = backup.epochs
    /\ bootstrap' = backup.bootstrap
    /\ anchor' = backup.anchor
    /\ retained' = backup.retained
    /\ UNCHANGED <<producer, imports, installed, staging, backup, transfer, troubles>>

Untrusting == [e \in EpochIds |-> Genesis]
Unkept     == [e \in EpochIds |-> {}]

(* The state directory of the workstation is lost. *)
LoseInstallation ==
    /\ Stumble
    /\ stage = "idle" /\ epochs # <<>>
    /\ epochs' = <<>>
    /\ bootstrap' = Untrusting /\ anchor' = Untrusting /\ retained' = Unkept
    /\ imports' = {} /\ installed' = {} /\ staged' = {} /\ partial' = {}
    /\ UNCHANGED <<producer, backup, transfer>>

-----------------------------------------------------------------------------
(* Discovery: _Discovery.scan, _validate_history *)

StartPull ==
    /\ stage = "idle" /\ epochs # <<>>
    /\ stage' = "listing"
    /\ unlisted' = {m.epoch : m \in remote}
    /\ committed' = {} /\ pending' = {} /\ taken' = 0 /\ rescanned' = FALSE
    /\ UNCHANGED <<producer, durable, backup, troubles>>

EndPull ==
    /\ stage' = "idle"
    /\ unlisted' = {} /\ committed' = {} /\ pending' = {} /\ taken' = 0
    /\ rescanned' = FALSE

(* _retain_committed: a manifest of an unknown epoch ends the pull. *)
ListEpoch(e) ==
    /\ stage = "listing" /\ e \in unlisted
    /\ LET found == {m \in remote : m.epoch = e}
       IN  IF found # {} /\ e \notin Authorized
           THEN EndPull
           ELSE /\ committed' = committed \cup found
                /\ unlisted' = unlisted \ {e}
                /\ UNCHANGED <<stage, pending, taken, rescanned>>
    /\ UNCHANGED <<producer, durable, backup, troubles>>

Selected(e) == {m \in committed : m.epoch = e /\ m.sequence > bootstrap[e].sequence}
EndOf(e)    == IF Selected(e) = {} THEN bootstrap[e] ELSE Latest(Selected(e))

(* The last document of the epochs before the i-th *)
PreviousEpoch(i) ==
    LET known == {j \in 1 .. i - 1 : EndOf(epochs[j]) # Genesis}
    IN  IF known = {} THEN 0
        ELSE EndOf(epochs[CHOOSE j \in known : \A k \in known : k <= j]).after

Successor(m, i) == Step(m, Selected(epochs[i]), bootstrap[epochs[i]], PreviousEpoch(i))

EpochAccepted(i) ==
    LET e == epochs[i]
    IN  /\ \A m \in Selected(e) : Successor(m, i)
        /\ e # Active => \A m \in Selected(e) : m.sequence <= anchor[e].sequence
        /\ EndOf(e).sequence >= anchor[e].sequence

HistoryValid ==
    /\ \A e \in Authorized : retained[e] \subseteq committed
    /\ \A i \in DOMAIN epochs : EpochAccepted(i)

(* Mutant: what lies behind the anchor is taken to be imported. *)
CandidatesAhead ==
    {m \in UNION {Selected(e) : e \in Authorized} : m.sequence > anchor[m.epoch].sequence}

Candidates ==
    {m \in UNION {Selected(e) : e \in Authorized} :
        m.sequence > anchor[m.epoch].sequence \/ m \notin imports}

(* A head that disagrees with the scan calls for one more scan. *)
Validate(degraded) ==
    /\ stage = "listing" /\ unlisted = {}
    /\ CASE ~HistoryValid -> EndPull
         [] HistoryValid /\ degraded /\ ~rescanned ->
              /\ unlisted' = {m.epoch : m \in remote}
              /\ committed' = {} /\ rescanned' = TRUE
              /\ UNCHANGED <<stage, pending, taken>>
         [] OTHER ->
              /\ stage' = "transferring"
              /\ pending' = Candidates
              /\ UNCHANGED <<unlisted, committed, taken, rescanned>>
    /\ UNCHANGED <<producer, durable, backup, troubles>>

-----------------------------------------------------------------------------
(* Staging and acceptance: _import_pending, accept_next *)

Position(e) == CHOOSE i \in DOMAIN epochs : epochs[i] = e

Earlier(m, n) ==
    \/ Position(m.epoch) < Position(n.epoch)
    \/ m.epoch = n.epoch /\ m.sequence <= n.sequence

Entry  == CHOOSE m \in pending : \A n \in pending : Earlier(m, n)
Wanted == stage = "transferring" /\ pending # {} /\ taken < Allowance

(* _usage and the quota of Staging.partial *)
Fits(o) == Cardinality(staged \cup partial \cup {o}) <= StagingLimit

(* _cached: a copy of an object that is installed already *)
Cache(o) ==
    /\ Wanted /\ o \in Objects(Entry) \ staged
    /\ o \in installed /\ Fits(o)
    /\ staged' = staged \cup {o}
    /\ partial' = partial \ {o}
    /\ UNCHANGED <<producer, trust, imports, installed, backup, transfer, troubles>>

BeginDownload(o) ==
    /\ Wanted /\ o \in Objects(Entry) \ (staged \cup partial)
    /\ o \notin installed /\ Fits(o)
    /\ partial' = partial \cup {o}
    /\ UNCHANGED <<producer, trust, imports, installed, staged, backup, transfer, troubles>>

(* Staging.finish: only the bytes of that digest leave .part. *)
FinishDownload(o) ==
    /\ Wanted /\ o \in Objects(Entry) \cap partial
    /\ o \notin installed
    /\ partial' = partial \ {o}
    /\ IF o.manifest \in missing
       THEN staged' = staged /\ EndPull
       ELSE staged' = staged \cup {o} /\ UNCHANGED transfer
    /\ UNCHANGED <<producer, trust, imports, installed, backup, troubles>>

(* PullError("Pull staging quota exceeded") *)
StagingFull ==
    /\ Wanted
    /\ \E o \in Objects(Entry) \ staged : ~Fits(o)
    /\ EndPull
    /\ UNCHANGED <<producer, durable, backup, troubles>>

(* _next: m extends the anchor of the active epoch, or repeats what is kept. *)
Repeats(m) == m.sequence <= anchor[m.epoch].sequence
Acceptable(m) ==
    IF Repeats(m)
    THEN m \in retained[m.epoch]
    ELSE LET current == anchor[m.epoch]
         IN  /\ m.epoch = Active
             /\ m.sequence = current.sequence + 1 /\ m.previous = current
             /\ m.before = IF current = Genesis
                           THEN PriorCheckpoint(epochs, retained, Position(m.epoch))
                           ELSE current.after

Validated == Wanted /\ Objects(Entry) \subseteq staged /\ Acceptable(Entry)

(* ImportCatalog._install, before the transaction *)
Install ==
    /\ Validated /\ Entry \notin imports
    /\ ~(Objects(Entry) \subseteq installed)
    /\ installed' = installed \cup Objects(Entry)
    /\ UNCHANGED <<producer, trust, imports, staging, backup, transfer, troubles>>

(* Mutant: the rows are written as soon as the objects are staged. *)
RegisterFirst ==
    /\ Validated
    /\ imports' = imports \cup {Entry}
    /\ IF Repeats(Entry)
       THEN UNCHANGED <<anchor, retained>>
       ELSE /\ anchor' = [anchor EXCEPT ![Entry.epoch] = Entry]
            /\ retained' = [retained EXCEPT ![Entry.epoch] = @ \cup {Entry}]
    /\ stage' = "discarding"
    /\ UNCHANGED <<producer, epochs, bootstrap, installed, staging, backup,
                   unlisted, committed, pending, taken, rescanned, troubles>>

(* _register_import: the import and the anchor of its epoch in one commit *)
Register ==
    /\ Validated
    /\ Objects(Entry) \subseteq installed
    /\ imports' = imports \cup {Entry}
    /\ IF Repeats(Entry)
       THEN UNCHANGED <<anchor, retained>>
       ELSE /\ anchor' = [anchor EXCEPT ![Entry.epoch] = Entry]
            /\ retained' = [retained EXCEPT ![Entry.epoch] = @ \cup {Entry}]
    /\ stage' = "discarding"
    /\ UNCHANGED <<producer, epochs, bootstrap, installed, staging, backup,
                   unlisted, committed, pending, taken, rescanned, troubles>>

Discard ==
    /\ stage = "discarding"
    /\ staged' = staged \ Objects(Entry)
    /\ pending' = pending \ {Entry}
    /\ taken' = taken + 1
    /\ stage' = "transferring"
    /\ UNCHANGED <<producer, trust, imports, installed, partial, backup,
                   unlisted, committed, rescanned, troubles>>

FinishPull ==
    /\ stage = "transferring"
    /\ pending = {} \/ taken = Allowance
    /\ EndPull
    /\ UNCHANGED <<producer, durable, backup, troubles>>

(* An error, a deadline, a cancellation or the end of the process: what was *)
(* durable stays, and the pull does not go on.                              *)
Interrupt ==
    /\ Stumble
    /\ stage # "idle"
    /\ EndPull
    /\ UNCHANGED <<producer, durable, backup>>

-----------------------------------------------------------------------------
PullInit ==
    /\ remote = {} /\ branch = 0 /\ missing = {}
    /\ epochs = <<>> /\ bootstrap = Untrusting /\ anchor = Untrusting
    /\ retained = Unkept
    /\ imports = {} /\ installed = {} /\ staged = {} /\ partial = {}
    /\ backup = [epochs |-> <<>>]
    /\ stage = "idle" /\ unlisted = {} /\ committed = {} /\ pending = {}
    /\ taken = 0 /\ rescanned = FALSE /\ troubles = 0

PullStep ==
    \/ \E e \in EpochIds : ListEpoch(e)
    \/ \E degraded \in BOOLEAN : Validate(degraded)
    \/ Wanted /\ \E o \in Objects(Entry) : Cache(o) \/ BeginDownload(o) \/ FinishDownload(o)
    \/ StagingFull \/ Install \/ Register \/ Discard \/ FinishPull

Operator ==
    \/ \E e \in EpochIds : \E c \in Checkpoints(e) : Enroll(e, c) \/ AuthorizeEpoch(e, c)
    \/ Backup
    \/ Restore

Trouble ==
    \/ \E m \in remote : TruncateRemote(m) \/ LoseObjects(m)
    \/ LoseInstallation
    \/ Interrupt

PullNext ==
    \/ \E e \in EpochIds : Publish(e)
    \/ Operator
    \/ StartPull
    \/ PullStep
    \/ Trouble

PullSpec == PullInit /\ [][PullNext]_pullVars

(* The daemon asks for a pull again and again (_sync_loop); what a pull has *)
(* begun goes on.  Nobody owes a publication, an authorization or a restore. *)
PullFairness == WF_pullVars(StartPull) /\ WF_pullVars(PullStep)
PullFairSpec == PullSpec /\ PullFairness

-----------------------------------------------------------------------------
(* Properties *)

(* What is accepted is one coherent history: every epoch a chain from its    *)
(* bootstrap to its anchor, each epoch taking up the input where those       *)
(* before it ended, whatever was cut short, lost and restored on the way; so *)
(* it can always be backed up.  An import row is of that history, and its    *)
(* objects are installed.                                                    *)
HistoryIsWhole ==
    /\ Coherent(Trust)
    /\ \A m \in imports :
         m \in retained[m.epoch] /\ Objects(m) \subseteq installed

(* Short of losing the installation, trust is never taken back: an epoch     *)
(* keeps its bootstrap, its anchor only advances, and what was accepted of   *)
(* it stays, though the remote is truncated or rewritten and old backups are *)
(* restored.                                                                 *)
AnchorsOnlyAdvance ==
    [][epochs' # <<>> =>
         \A e \in Authorized :
            /\ bootstrap'[e] = bootstrap[e]
            /\ anchor[e].sequence <= anchor'[e].sequence
            /\ retained[e] \subseteq retained'[e]]_pullVars

(* What no pull can get past: history that was rewritten or is not served,   *)
(* an epoch nobody authorized, authorization out of order, or of the next    *)
(* epoch before the last one was finished.  Nor a full staging directory:    *)
(* what is staged of a manifest that was registered by a pull that died      *)
(* before discarding it is never discarded.                                  *)
Excused ==
    \/ epochs = <<>> \/ missing # {} \/ branch > 0
    \/ \E m \in remote : m.epoch \notin Authorized
    \/ \E i, j \in DOMAIN epochs : i < j /\ epochs[i] > epochs[j]
    \/ \E m \in remote : m.epoch # Active /\ m.sequence > anchor[m.epoch].sequence
    \/ StagingLimit < Cardinality(staged) + Cardinality(Roles) /\ \E o \in staged : o.manifest \in imports

(* Otherwise pulls catch up with the producer, through failures, deaths and  *)
(* a restored installation: all that is published after the bootstraps ends  *)
(* up imported, the retained history that restore left unvalidated included. *)
CatchesUp ==
    <>[](\/ Excused
         \/ \A m \in remote : m \in imports \/ m.sequence <= bootstrap[m.epoch].sequence)

(* docs/data/sync/F17_PULL.md has the operator finish synchronizing the old  *)
(* epoch before authorizing a new one: so it can be finished, whatever the   *)
(* producer has begun meanwhile, unless the operator did not wait.           *)
OldEpochCanBeFinished ==
    \A e \in EpochIds :
        (epochs # <<>> /\ Active = e /\ bootstrap[e] = Genesis /\ HeadOf(e).sequence > 0)
            ~> \/ HeadOf(e) \in imports
               \/ epochs # <<>> /\ Active # e
=============================================================================
