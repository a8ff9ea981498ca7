------------------------- MODULE PublicationProofs -------------------------
(***************************************************************************)
(* Proofs about Publication, for logs, batches, epochs, releases and       *)
(* failures without bound: what the catalog names is durable, the          *)
(* publisher never refuses its own history, a reader resolves all of it,   *)
(* and the catalog implements PublishedLog.                                *)
(*                                                                         *)
(* The invariant says what a reservation or a manifest claims of the log   *)
(* (Sound), what of it is durable at each step (Stepped), how the entries  *)
(* of the catalog are chained (Chained), and that a manifest in the        *)
(* archive is committed or is the prepared one (Accounted).                *)
(***************************************************************************)
EXTENDS Publication, TLAPS

Records == [epoch : Epochs, partition : Partitions]

Durable == files \ unsynced

Upstream == raw \in Seq(Records) /\ normalized \in 0 .. Len(raw)

(* The records of a batch, reserved or published. *)
Sound(b) ==
    /\ b.before \in Nat /\ b.after \in Nat /\ b.sequence \in Nat
    /\ b.before < b.after /\ b.after - b.before <= MaxBatch /\ b.after <= normalized
    /\ \A i \in b.before + 1 .. b.after : raw[i].epoch = b.epoch /\ raw[i] = raw[b.after]

Whole(m) ==
    /\ {o.role : o \in m.objects} = {"raw", "normalized"}
    /\ \A o \in m.objects : o.before = m.before /\ o.after = m.after

Cataloged ==
    /\ catalog \in Seq(Committed)
    /\ \A m \in Committed :
          /\ Sound(m) /\ Whole(m)
          /\ {File(m)} \cup m.objects \subseteq Durable
          /\ m.after <= checkpoint.after
          /\ m.previous # Genesis => m.previous.after <= m.before

Headed ==
    \A e : OfEpoch(e) # {} => \E m \in OfEpoch(e) : \A n \in OfEpoch(e) : n.sequence <= m.sequence

Chained ==
    /\ ChainValid
    /\ checkpoint = IF catalog = <<>> THEN Genesis ELSE catalog[Len(catalog)]
    /\ Headed
    /\ \A m, n \in Committed : m.epoch = n.epoch /\ m.sequence = n.sequence => m = n

Linked(p) ==
    /\ p.before = checkpoint.after
    /\ p.previous = EpochHead(p.epoch)
    /\ p.sequence = p.previous.sequence + 1

Prepared(p) ==
    LET m == p.manifest
    IN  /\ m.epoch = p.epoch /\ m.sequence = p.sequence /\ m.previous = p.previous
        /\ m.before = p.before /\ m.after = p.after
        /\ Whole(m) /\ m.objects \subseteq Durable

Awaited ==
    \/ pending = NoPending
    \/ /\ pending.state \in {"reserved", "prepared"}
       /\ Sound(pending) /\ Linked(pending)
       /\ pending.state = "prepared" => Prepared(pending)

Stepped ==
    /\ step \in {"sealRaw", "sealNormalized", "viewRaw", "viewNormalized", "prepare"} =>
          pending.state = "reserved"
    /\ step \in {"sealNormalized", "viewRaw", "viewNormalized", "prepare"} => Raw \in Durable
    /\ step \in {"viewRaw", "viewNormalized", "prepare"} => Normalized \in Durable
    /\ step \in {"validate", "install", "commit"} => pending.state = "prepared"
    /\ step = "commit" => File(pending.manifest) \in Durable

Accounted ==
    \A m \in Installed :
        m \in Committed \/ (pending.state = "prepared" /\ pending.manifest = m)

IInv == Upstream /\ Cataloged /\ Chained /\ Awaited /\ Stepped /\ Accounted

(* ChainValid, entry by entry. *)
Earlier(c, i) == {c[j] : j \in {k \in 1 .. i - 1 : c[k].epoch = c[i].epoch}}

ChainAt(c, i) ==
    /\ c[i].after > c[i].before
    /\ c[i].before = IF i = 1 THEN 0 ELSE c[i - 1].after
    /\ IF Earlier(c, i) = {} THEN c[i].previous = Genesis ELSE c[i].previous \in Earlier(c, i)
    /\ \A n \in Earlier(c, i) : n.sequence <= c[i].previous.sequence
    /\ c[i].sequence = c[i].previous.sequence + 1

-----------------------------------------------------------------------------
(* Helpers.                                                                *)

LEMMA BatchType == MaxBatch \in Nat
BY PublicationAssumption

LEMMA ChainByEntry == ChainValid <=> \A i \in DOMAIN catalog : ChainAt(catalog, i)
BY DEF ChainValid, ChainAt, Earlier

LEMMA Appended ==
    ASSUME NEW S, NEW s \in Seq(S), NEW v
    PROVE  /\ Append(s, v) \in Seq(S \cup {v})
           /\ DOMAIN Append(s, v) = 1 .. Len(s) + 1 /\ DOMAIN s = 1 .. Len(s)
           /\ Len(Append(s, v)) = Len(s) + 1 /\ Len(s) \in Nat
           /\ \A i \in 1 .. Len(s) : Append(s, v)[i] = s[i]
           /\ Append(s, v)[Len(s) + 1] = v
           /\ Append(s, v) # <<>>
<1>1. s \in Seq(S \cup {v})
  OBVIOUS
<1> QED BY <1>1

(* next_epoch_link: the head is the last of its epoch. *)
LEMMA HeadIsLast ==
    ASSUME Headed, NEW e
    PROVE  /\ OfEpoch(e) = {} => EpochHead(e) = Genesis
           /\ OfEpoch(e) # {} => EpochHead(e) \in OfEpoch(e)
           /\ \A n \in OfEpoch(e) : n.sequence <= EpochHead(e).sequence
BY DEF Headed, EpochHead

(* What is durable stays, whatever raises or dies. *)
LEMMA DurableGrows ==
    ASSUME Next PROVE Durable \subseteq Durable'
<1>1. CASE UNCHANGED archive
  BY <1>1 DEF archive, Durable
<1>2. CASE InstallOutput
  BY <1>2 DEF InstallOutput, Durable
<1>3. CASE Raise
  BY <1>3 DEF Raise, Durable
<1>4. CASE Crash
  BY <1>4 DEF Crash, Durable
<1> QED BY <1>1, <1>2, <1>3, <1>4
        DEF Next, Publisher, CommitRaw, Normalize, Open, Reconcile, NothingToPublish, Resume,
            Recover, Reserve, Seal, Prepare, Validate, InstallManifest, CommitPrepared, Close

(* The log upstream only grows. *)
Growing ==
    \/ UNCHANGED upstream
    \/ UNCHANGED raw /\ normalized' = normalized + 1
    \/ UNCHANGED normalized /\ \E r \in Records : raw' = Append(raw, r)

LEMMA SoundKept ==
    ASSUME Upstream, Growing, NEW b, Sound(b)
    PROVE  Sound(b)'
<1>1. normalized <= normalized' /\ normalized' \in Nat /\ normalized <= Len(raw)
  BY DEF Upstream, Growing, upstream
<1>2. \A i \in 1 .. normalized : raw'[i] = raw[i]
  <2>1. CASE UNCHANGED raw
    BY <2>1
  <2>2. CASE \E r \in Records : raw' = Append(raw, r)
    BY <1>1, <2>2, Appended DEF Upstream
  <2> QED BY <2>1, <2>2 DEF Growing, upstream
<1> QED BY <1>1, <1>2, BatchType DEF Sound, Upstream

(* Nothing of the database is disturbed by what happens elsewhere. *)
LEMMA CatalogKept ==
    ASSUME IInv, Growing, UNCHANGED <<catalog, checkpoint>>, Durable \subseteq Durable'
    PROVE  Cataloged' /\ Chained'
<1>1. UNCHANGED <<catalog, checkpoint>> /\ Committed' = Committed
      /\ \A e : OfEpoch(e)' = OfEpoch(e) /\ EpochHead(e)' = EpochHead(e)
  BY DEF Committed, OfEpoch, EpochHead
<1>2. Cataloged'
  <2>1. catalog' \in Seq(Committed')
    BY <1>1 DEF IInv, Cataloged
  <2>2. ASSUME NEW m \in Committed
        PROVE  /\ Sound(m)' /\ Whole(m)'
               /\ ({File(m)} \cup m.objects) \subseteq Durable'
               /\ m.after <= checkpoint'.after
               /\ m.previous # Genesis => m.previous.after <= m.before
    BY <1>1, <2>2, SoundKept DEF IInv, Cataloged, Whole
  <2> QED BY <1>1, <2>1, <2>2 DEF Cataloged, File
<1>3. Chained'
  <2>1. ChainValid'
    <3>1. \A i \in DOMAIN catalog' : ChainAt(catalog', i)
      BY <1>1, ChainByEntry DEF IInv, Chained
    <3>2. ChainValid' <=> \A i \in DOMAIN catalog' : ChainAt(catalog', i)
      BY DEF ChainValid, ChainAt, Earlier
    <3> QED BY <3>1, <3>2
  <2>2. Headed'
    BY <1>1 DEF IInv, Chained, Headed
  <2> QED BY <1>1, <2>1, <2>2 DEF IInv, Chained
<1> QED BY <1>2, <1>3

LEMMA DatabaseKept ==
    ASSUME IInv, Growing, UNCHANGED database, Durable \subseteq Durable'
    PROVE  Cataloged' /\ Chained' /\ Awaited'
<1>1. UNCHANGED <<catalog, checkpoint, pending>>
      /\ \A e : EpochHead(e)' = EpochHead(e)
  BY DEF database, Committed, OfEpoch, EpochHead
<1>2. Cataloged' /\ Chained'
  BY <1>1, CatalogKept
<1>3. Awaited'
  <2>1. CASE pending = NoPending
    BY <1>1, <2>1 DEF Awaited
  <2>2. CASE pending # NoPending
    <3> PICK p : p = pending
      OBVIOUS
    <3>1. p.state \in {"reserved", "prepared"} /\ Sound(p) /\ Linked(p)
          /\ (p.state = "prepared" => Prepared(p))
      BY <2>2 DEF IInv, Awaited
    <3>2. Sound(p)'
      BY <3>1, SoundKept DEF IInv
    <3>3. Linked(p)'
      BY <1>1, <3>1 DEF Linked
    <3>4. p.state = "prepared" => Prepared(p)'
      BY <3>1 DEF Prepared, Whole
    <3> QED BY <1>1, <3>1, <3>2, <3>3, <3>4 DEF Awaited
  <2> QED BY <2>1, <2>2
<1> QED BY <1>2, <1>3

(* What a step links: no manifest but the prepared one. *)
LEMMA Linking ==
    ASSUME IInv, UNCHANGED database, files' \subseteq files \cup Output
    PROVE  Accounted'
<1>1. \A f \in Output : f.kind = "manifest" => f.manifest = pending.manifest /\ step = "install"
  BY DEF Output, Raw, Normalized, Object, View, File
<1>2. \A m \in Installed' : m \in Installed \/ (m = pending.manifest /\ step = "install")
  BY <1>1 DEF Installed
<1> QED BY <1>2 DEF IInv, Accounted, Stepped, database, Committed

LEMMA UpstreamStep ==
    ASSUME IInv, (\E e \in Epochs, p \in Partitions : CommitRaw(e, p)) \/ Normalize
    PROVE  IInv'
<1>1. Growing /\ UNCHANGED <<database, archive, process, step>>
  BY DEF CommitRaw, Normalize, Growing, Records
<1>2. Upstream'
  <2>1. CASE Normalize
    BY <2>1 DEF IInv, Upstream, Normalize
  <2>2. CASE \E r \in Records : raw' = Append(raw, r) /\ UNCHANGED normalized
    <3>1. PICK r \in Records : raw' = Append(raw, r) /\ normalized' = normalized
      BY <2>2
    <3>2. raw \in Seq(Records) /\ normalized \in 0 .. Len(raw)
      BY DEF IInv, Upstream
    <3>3. raw' \in Seq(Records) /\ Len(raw') = Len(raw) + 1 /\ Len(raw) \in Nat
      BY <3>1, <3>2
    <3> QED BY <3>1, <3>2, <3>3 DEF Upstream
  <2> QED BY <2>1, <2>2 DEF CommitRaw, Records
<1>3. Durable' = Durable
  BY <1>1 DEF archive, Durable
<1>4. Cataloged' /\ Chained' /\ Awaited'
  BY <1>1, <1>3, DatabaseKept
<1>5. Stepped' /\ Accounted'
  BY <1>1, <1>3 DEF IInv, Stepped, Accounted, database, archive, process, Raw, Normalized,
                    Object, File, Installed, Committed
<1> QED BY <1>2, <1>4, <1>5 DEF IInv

(* Steps that only read. *)
LEMMA ReadingStep ==
    ASSUME IInv, Open \/ Reconcile \/ NothingToPublish \/ Resume \/ Recover \/ Close
    PROVE  IInv'
<1>1. UNCHANGED <<upstream, database, archive>>
  BY DEF Open, Reconcile, NothingToPublish, Resume, Recover, Close, Shut
<1>2. step' \in {"idle", "next", "recover", "sealRaw", "validate"}
      /\ (step' = "sealRaw" => pending.state = "reserved")
      /\ (step' = "validate" => pending.state = "prepared")
  BY DEF Open, Reconcile, NothingToPublish, Resume, Recover, Close, Shut, IInv, Awaited, NoPending
<1>3. Cataloged' /\ Chained' /\ Awaited'
  BY <1>1, DatabaseKept DEF Growing, archive, Durable
<1>4. Upstream' /\ Accounted'
  BY <1>1 DEF IInv, Upstream, Accounted, upstream, database, archive, Installed, Committed
<1>5. Stepped'
  BY <1>1, <1>2 DEF Stepped, database
<1> QED BY <1>3, <1>4, <1>5 DEF IInv

(* Steps on the archive alone. *)
LEMMA ArchiveKept ==
    ASSUME IInv, Next, UNCHANGED <<upstream, database>>, files' \subseteq files \cup Output
    PROVE  Upstream' /\ Cataloged' /\ Chained' /\ Awaited' /\ Accounted'
<1>1. Upstream'
  BY DEF IInv, Upstream, upstream
<1>2. Cataloged' /\ Chained' /\ Awaited'
  BY DurableGrows, DatabaseKept DEF Growing
<1> QED BY <1>1, <1>2, Linking

LEMMA SealStep ==
    ASSUME IInv, Next, Seal
    PROVE  IInv'
<1>1. UNCHANGED <<upstream, database, encoder>> /\ InstallOutput
  BY DEF Seal, process
<1>2. Raw' = Raw /\ Normalized' = Normalized /\ pending' = pending
  BY <1>1 DEF Raw, Normalized, Object, database
<1>3. Output \subseteq Durable' /\ Durable \subseteq Durable'
  BY <1>1, DurableGrows DEF InstallOutput, Durable
<1>4. \/ step = "sealRaw" /\ step' = "sealNormalized" /\ Output = {Raw}
      \/ step = "sealNormalized" /\ step' = "viewRaw" /\ Output = {Normalized}
      \/ step = "viewRaw" /\ step' = "viewNormalized"
      \/ step = "viewNormalized" /\ step' = "prepare"
  BY DEF Seal, Continue, Output
<1>5. Stepped'
  BY <1>2, <1>3, <1>4 DEF IInv, Stepped
<1>6. Upstream' /\ Cataloged' /\ Chained' /\ Awaited' /\ Accounted'
  BY <1>1, ArchiveKept DEF InstallOutput
<1> QED BY <1>5, <1>6 DEF IInv

LEMMA InstallStep ==
    ASSUME IInv, Next, Validate \/ InstallManifest
    PROVE  IInv'
<1>1. UNCHANGED <<upstream, database>> /\ InstallOutput /\ pending' = pending
  BY DEF Validate, InstallManifest, database
<1>2. \/ step = "validate" /\ step' = "install"
      \/ step = "install" /\ step' = "commit" /\ Output = {File(pending.manifest)}
  BY DEF Validate, InstallManifest, At, Output
<1>3. Output \subseteq Durable'
  BY <1>1 DEF InstallOutput, Durable
<1>4. Stepped'
  BY <1>1, <1>2, <1>3 DEF IInv, Stepped, File
<1>5. Upstream' /\ Cataloged' /\ Chained' /\ Awaited' /\ Accounted'
  BY <1>1, ArchiveKept DEF InstallOutput
<1> QED BY <1>4, <1>5 DEF IInv

LEMMA FailureStep ==
    ASSUME IInv, Next, Raise \/ Crash
    PROVE  IInv'
<1>1. UNCHANGED <<upstream, database>> /\ files' \subseteq files \cup Output /\ step' = "idle"
  BY DEF Raise, Crash, Shut
<1>2. Upstream' /\ Cataloged' /\ Chained' /\ Awaited' /\ Accounted'
  BY <1>1, ArchiveKept
<1> QED BY <1>1, <1>2 DEF IInv, Stepped

LEMMA CheckpointType ==
    ASSUME IInv
    PROVE  /\ checkpoint.after \in Nat
           /\ catalog # <<>> => checkpoint \in Committed
           /\ \A e : EpochHead(e).sequence \in Nat
<1>1. \A m \in Committed : m.after \in Nat /\ m.sequence \in Nat
  BY DEF IInv, Cataloged, Sound
<1>2. catalog # <<>> => checkpoint \in Committed
  BY DEF IInv, Chained, Cataloged, Committed
<1>3. catalog = <<>> => checkpoint = Genesis
  BY DEF IInv, Chained
<1>4. ASSUME NEW e PROVE EpochHead(e).sequence \in Nat
  <2>1. EpochHead(e) = Genesis \/ EpochHead(e) \in Committed
    BY HeadIsLast DEF IInv, Chained, OfEpoch
  <2> QED BY <1>1, <2>1 DEF Genesis
<1> QED BY <1>1, <1>2, <1>3, <1>4 DEF Genesis

LEMMA ReserveStep ==
    ASSUME IInv, NEW last, Reserve(last)
    PROVE  IInv'
<1> PICK head : head = EpochHead(raw[last].epoch)
  OBVIOUS
<1>1. /\ pending = NoPending
      /\ pending' = [state |-> "reserved", before |-> checkpoint.after, after |-> last,
                     epoch |-> raw[last].epoch, previous |-> head,
                     sequence |-> head.sequence + 1]
      /\ step' = "sealRaw"
      /\ UNCHANGED <<upstream, catalog, checkpoint, files, unsynced>>
  BY DEF Reserve, archive
<1>2. checkpoint.after \in Nat /\ head.sequence \in Nat
  BY CheckpointType
<1>3. last \in checkpoint.after + 1 .. normalized /\ last - checkpoint.after <= MaxBatch
      /\ \A i \in checkpoint.after + 1 .. last : raw[i] = raw[last]
  BY DEF Reserve, Selectable
<1>4. Sound(pending)'
  <2>1. raw' = raw /\ normalized' = normalized /\ normalized \in Nat
    BY <1>1 DEF IInv, Upstream, upstream
  <2> QED BY <1>1, <1>2, <1>3, <2>1 DEF Sound
<1>5. Linked(pending)'
  BY <1>1 DEF Linked, EpochHead, OfEpoch, Committed
<1>6. Awaited'
  BY <1>1, <1>4, <1>5 DEF Awaited
<1>7. Growing /\ Durable' = Durable
  BY <1>1 DEF Growing, Durable
<1>8. Cataloged' /\ Chained'
  BY <1>1, <1>7, CatalogKept
<1>9. Upstream' /\ Stepped'
  BY <1>1 DEF IInv, Upstream, Stepped, upstream
<1>10. Accounted'
  BY <1>1 DEF IInv, Accounted, NoPending, Installed, Committed
<1> QED BY <1>6, <1>8, <1>9, <1>10 DEF IInv

LEMMA PrepareStep ==
    ASSUME IInv, Prepare
    PROVE  IInv'
<1>1. /\ pending.state = "reserved"
      /\ pending' = [state |-> "prepared", before |-> pending.before, after |-> pending.after,
                     epoch |-> pending.epoch, previous |-> pending.previous,
                     sequence |-> pending.sequence, manifest |-> Manifest]
      /\ step' = "validate"
      /\ UNCHANGED <<upstream, catalog, checkpoint, files, unsynced>>
  BY DEF IInv, Stepped, Prepare, At, archive
<1>2. Sound(pending) /\ Linked(pending)
  BY <1>1 DEF IInv, Awaited, NoPending
<1>3. Raw \in Durable /\ Normalized \in Durable
  BY DEF IInv, Stepped, Prepare, At
<1>4. Sound(pending)'
  BY <1>1, <1>2 DEF Sound, upstream
<1>5. Linked(pending)'
  BY <1>1, <1>2 DEF Linked, EpochHead, OfEpoch, Committed
<1>6. Prepared(pending)'
  <2>1. Whole(Manifest) /\ Manifest.objects \subseteq Durable
    BY <1>3 DEF Manifest, Whole, Raw, Normalized, Object
  <2> QED BY <1>1, <2>1 DEF Prepared, Manifest, Whole, Durable
<1>7. Awaited'
  BY <1>1, <1>4, <1>5, <1>6 DEF Awaited
<1>8. Growing /\ Durable' = Durable
  BY <1>1 DEF Growing, Durable
<1>9. Cataloged' /\ Chained'
  BY <1>1, <1>8, CatalogKept
<1>10. Upstream' /\ Stepped'
  BY <1>1 DEF IInv, Upstream, Stepped, upstream
<1>11. Accounted'
  BY <1>1 DEF IInv, Accounted, Installed, Committed
<1> QED BY <1>7, <1>9, <1>10, <1>11 DEF IInv

(* The commit: one more entry, after all the others. *)
LEMMA CommitStep ==
    ASSUME IInv, CommitPrepared
    PROVE  IInv'
<1> PICK m : m = pending.manifest
  OBVIOUS
<1> PICK n : n = Len(catalog)
  OBVIOUS
<1>1. /\ pending.state = "prepared" /\ File(m) \in Durable /\ checkpoint.after = m.before
      /\ catalog' = Append(catalog, m) /\ checkpoint' = m /\ pending' = NoPending
      /\ step' = "idle" /\ UNCHANGED <<upstream, files, unsynced>>
  BY DEF IInv, Stepped, CommitPrepared, At, archive
<1>2. Sound(pending) /\ Linked(pending) /\ Prepared(pending)
  BY <1>1 DEF IInv, Awaited, NoPending
<1>3. /\ Sound(m) /\ Whole(m) /\ m.objects \subseteq Durable
      /\ m.previous = EpochHead(m.epoch) /\ m.sequence = m.previous.sequence + 1
  BY <1>2 DEF Sound, Linked, Prepared
<1>4. catalog \in Seq(Committed) /\ n \in Nat
  BY DEF IInv, Cataloged
<1>5. /\ catalog' \in Seq(Committed \cup {m}) /\ Len(catalog') = n + 1
      /\ DOMAIN catalog' = 1 .. n + 1 /\ DOMAIN catalog = 1 .. n
      /\ \A i \in 1 .. n : catalog'[i] = catalog[i]
      /\ catalog'[n + 1] = m /\ catalog' # <<>>
  BY <1>1, <1>4, Appended
<1>6. Committed' = Committed \cup {m}
  BY <1>4, <1>5 DEF Committed
<1>7. /\ m.before \in Nat /\ m.after \in Nat /\ m.before < m.after
      /\ m.sequence \in Nat /\ m.previous.sequence \in Nat
  BY <1>3, CheckpointType DEF Sound
<1>8. \A k \in OfEpoch(m.epoch) : k.sequence \in Nat /\ k.sequence <= m.previous.sequence
  BY <1>3, HeadIsLast DEF IInv, Chained, Cataloged, Sound, OfEpoch
<1>9. (m.previous = Genesis /\ OfEpoch(m.epoch) = {}) \/ m.previous \in OfEpoch(m.epoch)
  BY <1>3, HeadIsLast DEF IInv, Chained
<1>10. Cataloged'
  <2>1. \A k \in Committed : Sound(k)' /\ Whole(k)'
    BY <1>1 DEF IInv, Cataloged, Sound, Whole, upstream
  <2>2. Sound(m)' /\ Whole(m)'
    BY <1>1, <1>3 DEF Sound, Whole, upstream
  <2>3. Durable' = Durable
    BY <1>1 DEF Durable
  <2>4. \A k \in Committed : k.after <= m.after
    BY <1>1, <1>7 DEF IInv, Cataloged, Sound
  <2>5. m.previous # Genesis => m.previous.after <= m.before
    BY <1>1, <1>9 DEF IInv, Cataloged, OfEpoch
  <2>6. \A k \in Committed :
           /\ {File(k)} \cup k.objects \subseteq Durable
           /\ k.previous # Genesis => k.previous.after <= k.before
    BY DEF IInv, Cataloged
  <2>7. m.after <= m.after /\ ({File(m)} \cup m.objects) \subseteq Durable
    BY <1>1, <1>3, <1>7
  <2>8. ASSUME NEW k \in Committed'
        PROVE  /\ Sound(k)' /\ Whole(k)'
               /\ ({File(k)} \cup k.objects) \subseteq Durable'
               /\ k.after <= checkpoint'.after
               /\ k.previous # Genesis => k.previous.after <= k.before
    <3>1. CASE k \in Committed
      <4>1. Sound(k)' /\ Whole(k)'
        BY <2>1, <3>1
      <4>2. ({File(k)} \cup k.objects) \subseteq Durable'
        BY <2>3, <2>6, <3>1
      <4>3. k.after <= checkpoint'.after /\ (k.previous # Genesis => k.previous.after <= k.before)
        BY <1>1, <2>4, <2>6, <3>1
      <4> QED BY <4>1, <4>2, <4>3
    <3>2. CASE k = m
      BY <1>1, <2>2, <2>3, <2>5, <2>7, <3>2
    <3> QED BY <1>6, <3>1, <3>2
  <2> QED BY <1>5, <1>6, <2>8 DEF Cataloged, File
<1>11. \A e : OfEpoch(e)' = IF e = m.epoch THEN OfEpoch(e) \cup {m} ELSE OfEpoch(e)
  BY <1>6 DEF OfEpoch
<1>12. Headed'
  <2> SUFFICES ASSUME NEW e, OfEpoch(e)' # {}
               PROVE  \E k \in OfEpoch(e)' : \A l \in OfEpoch(e)' : l.sequence <= k.sequence
    BY DEF Headed
  <2>1. CASE e = m.epoch
    <3>1. \A l \in OfEpoch(e)' : l.sequence <= m.sequence
      BY <1>3, <1>7, <1>8, <1>11, <2>1
    <3> QED BY <1>11, <2>1, <3>1
  <2>2. CASE e # m.epoch
    BY <1>11, <2>2 DEF IInv, Chained, Headed
  <2> QED BY <2>1, <2>2
<1>13. ChainValid'
  <2>1. ASSUME NEW i \in 1 .. n PROVE ChainAt(catalog', i)
    <3>1. ChainAt(catalog, i)
      BY <1>5, ChainByEntry DEF IInv, Chained
    <3>2. Earlier(catalog', i) = Earlier(catalog, i)
      BY <1>4, <1>5 DEF Earlier
    <3>3. catalog'[i] = catalog[i] /\ (i # 1 => catalog'[i - 1] = catalog[i - 1])
      BY <1>4, <1>5
    <3> QED BY <3>1, <3>2, <3>3 DEF ChainAt
  <2>2. ChainAt(catalog', n + 1)
    <3>1. Earlier(catalog', n + 1) = OfEpoch(m.epoch)
      BY <1>4, <1>5 DEF Earlier, OfEpoch, Committed
    <3>2. m.before = IF n + 1 = 1 THEN 0 ELSE catalog'[(n + 1) - 1].after
      BY <1>1, <1>4, <1>5 DEF IInv, Chained, Genesis
    <3> QED BY <1>3, <1>5, <1>7, <1>8, <1>9, <3>1, <3>2 DEF ChainAt
  <2>3. \A i \in DOMAIN catalog' : ChainAt(catalog', i)
    BY <1>4, <1>5, <2>1, <2>2
  <2>4. ChainValid' <=> \A i \in DOMAIN catalog' : ChainAt(catalog', i)
    BY DEF ChainValid, ChainAt, Earlier
  <2> QED BY <2>3, <2>4
<1>14. Chained'
  <2>1. checkpoint' = catalog'[Len(catalog')]
    BY <1>1, <1>5
  <2>2. \A k \in Committed : k.epoch = m.epoch => k.sequence # m.sequence
    BY <1>3, <1>7, <1>8 DEF OfEpoch
  <2>3. \A k, l \in Committed' : k.epoch = l.epoch /\ k.sequence = l.sequence => k = l
    BY <1>6, <2>2 DEF IInv, Chained
  <2> QED BY <1>5, <1>12, <1>13, <2>1, <2>3 DEF Chained
<1>15. Upstream' /\ Awaited' /\ Stepped'
  BY <1>1 DEF IInv, Upstream, upstream, Awaited, Stepped
<1>16. Accounted'
  BY <1>1, <1>6 DEF IInv, Accounted, Installed
<1> QED BY <1>10, <1>14, <1>15, <1>16 DEF IInv

LEMMA NextStep ==
    ASSUME IInv, [Next]_vars
    PROVE  IInv'
<1>1. CASE Next
  BY <1>1, UpstreamStep, ReadingStep, ReserveStep, SealStep, PrepareStep, InstallStep,
     CommitStep, FailureStep DEF Next, Publisher
<1>2. CASE UNCHANGED vars
  <2>1. UNCHANGED <<upstream, database, archive, process, step>>
    BY <1>2 DEF vars
  <2>2. Cataloged' /\ Chained' /\ Awaited'
    BY <2>1, DatabaseKept DEF Growing, archive, Durable
  <2>3. Upstream' /\ Stepped' /\ Accounted'
    BY <2>1 DEF IInv, Upstream, Stepped, Accounted, upstream, database, archive, process,
                Raw, Normalized, Object, File, Durable, Installed, Committed
  <2> QED BY <2>2, <2>3 DEF IInv
<1> QED BY <1>1, <1>2

LEMMA InitHolds == Init => IInv
<1> SUFFICES ASSUME Init PROVE IInv
  OBVIOUS
<1>1. Committed = {} /\ Installed = {} /\ DOMAIN catalog = {}
  BY DEF Init, Committed, Installed
<1>2. Upstream /\ Awaited /\ Stepped
  BY DEF Init, Upstream, Awaited, Stepped
<1>3. Cataloged /\ Accounted
  BY <1>1 DEF Init, Cataloged, Accounted
<1>4. Chained
  BY <1>1 DEF Init, Chained, ChainValid, Headed, OfEpoch
<1> QED BY <1>2, <1>3, <1>4 DEF IInv

-----------------------------------------------------------------------------
(* The theorems.                                                           *)

(* The invariant holds.                                                    *)
THEOREM Invariance == Spec => []IInv
<1>1. Init => IInv
  BY InitHolds
<1>2. IInv /\ [Next]_vars => IInv'
  BY NextStep
<1> QED BY <1>1, <1>2, PTL DEF Spec

(* Whatever fails and whenever the power goes: the manifests and objects    *)
(* that the catalog or a prepared publication names survive (InstallOutput  *)
(* before Prepare, InstallManifest before CommitPrepared).                  *)
THEOREM Durability == Spec => []NamedFilesAreDurable
<1>1. ASSUME IInv PROVE NamedFilesAreDurable
  <2>1. \A m \in Committed : ({File(m)} \cup m.objects) \subseteq files \ unsynced
    BY <1>1 DEF IInv, Cataloged, Durable
  <2>2. pending # NoPending /\ pending.state = "prepared" =>
           pending.manifest.objects \subseteq files \ unsynced
    BY <1>1 DEF IInv, Awaited, Prepared, Durable
  <2> QED BY <2>1, <2>2 DEF NamedFilesAreDurable
<1> QED BY <1>1, Invariance, PTL

(* The slot of a manifest of this publisher holds nothing else. *)
LEMMA SlotIsItsOwn ==
    ASSUME IInv, NEW m, m \in Committed \/ (pending.state = "prepared" /\ m = pending.manifest)
    PROVE  Slot(m) \subseteq {m}
<1> SUFFICES ASSUME NEW k \in Installed, k.epoch = m.epoch, k.sequence = m.sequence
             PROVE  k = m
  BY DEF Slot
<1>1. k \in Committed \/ (pending.state = "prepared" /\ k = pending.manifest)
  BY DEF IInv, Accounted
<1>2. CASE m \in Committed /\ k \in Committed
  BY <1>2 DEF IInv, Chained
<1>3. ASSUME pending.state = "prepared", NEW o \in Committed, o.epoch = pending.manifest.epoch
      PROVE  o.sequence # pending.manifest.sequence
  <2> PICK p : p = pending.manifest
    OBVIOUS
  <2>1. p.epoch = pending.epoch /\ p.sequence = pending.sequence
        /\ pending.sequence = EpochHead(pending.epoch).sequence + 1
    BY <1>3 DEF IInv, Awaited, NoPending, Prepared, Linked
  <2>2. o.sequence <= EpochHead(pending.epoch).sequence
    BY <1>3, <2>1, HeadIsLast DEF IInv, Chained, OfEpoch
  <2>3. o.sequence \in Nat /\ EpochHead(pending.epoch).sequence \in Nat
    BY CheckpointType DEF IInv, Cataloged, Sound
  <2> QED BY <2>1, <2>2, <2>3
<1> QED BY <1>1, <1>2, <1>3

LEMMA CommittedResolves ==
    ASSUME IInv, NEW m \in Committed
    PROVE  Resolves(m)
<1>1. File(m) \in files /\ m.objects \subseteq files
  BY DEF IInv, Cataloged, Durable
<1>2. m \in Installed
  BY <1>1 DEF Installed, File
<1>3. m \in Slot(m)
  BY <1>2 DEF Slot
<1>4. Slot(m) = {m}
  BY <1>3, SlotIsItsOwn
<1> QED BY <1>1, <1>4 DEF Resolves

(* After any failures, the next opening accepts the database, the archive   *)
(* reconciles with it and the prepared manifest finds its slot free         *)
(* (_validate_rows, _reconcile_history, install_exact).                     *)
THEOREM HistoryIsAccepted == Spec => []NeverRefusesItself
<1>1. ASSUME IInv PROVE NeverRefusesItself
  <2>1. RowsValid
    <3>1. ChainValid /\ checkpoint = IF catalog = <<>> THEN Genesis ELSE catalog[Len(catalog)]
      BY <1>1 DEF IInv, Chained
    <3>2. pending # NoPending => Linked(pending)
      BY <1>1 DEF IInv, Awaited
    <3> QED BY <3>1, <3>2 DEF RowsValid, Linked
  <2>2. Reconciled
    <3>1. ASSUME NEW m \in Installed PROVE Slot(m) = {m}
      <4>1. m \in Slot(m)
        BY DEF Slot
      <4>2. m \in Committed \/ (pending.state = "prepared" /\ m = pending.manifest)
        BY <1>1 DEF IInv, Accounted
      <4> QED BY <1>1, <4>1, <4>2, SlotIsItsOwn
    <3>2. pending.state = "prepared" => pending # NoPending
      BY DEF NoPending
    <3> QED BY <1>1, <3>1, <3>2, CommittedResolves DEF Reconciled, IInv, Accounted
  <2>3. pending.state = "prepared" => Slot(pending.manifest) \subseteq {pending.manifest}
    BY <1>1, SlotIsItsOwn
  <2> QED BY <2>1, <2>2, <2>3 DEF NeverRefusesItself
<1> QED BY <1>1, Invariance, PTL

(* Every entry of the catalog passes PublicationReader.resolve_exact:       *)
(* predecessor, objects and the records between its checkpoints.            *)
THEOREM CatalogIsReadable == Spec => []ReaderResolves
<1>1. ASSUME IInv, NEW m \in Committed
      PROVE  /\ Resolves(m)
             /\ m.previous # Genesis =>
                   /\ Slot(m.previous) = {m.previous}
                   /\ m.previous.epoch = m.epoch
                   /\ m.previous.after < m.after
             /\ {o.role : o \in m.objects} = {"raw", "normalized"}
             /\ \A o \in m.objects : o.before = m.before /\ o.after = m.after
             /\ \A i \in m.before + 1 .. m.after :
                   raw[i].epoch = m.epoch /\ raw[i] = raw[m.after]
  <2>1. /\ Sound(m) /\ Whole(m) /\ Resolves(m)
        /\ m.previous # Genesis => m.previous.after <= m.before
    BY <1>1, CommittedResolves DEF IInv, Cataloged
  <2>2. ASSUME m.previous # Genesis
        PROVE  m.previous \in Committed /\ m.previous.epoch = m.epoch
    <3>1. PICK i \in DOMAIN catalog : catalog[i] = m
      BY DEF Committed
    <3>2. ChainAt(catalog, i)
      BY <1>1, ChainByEntry DEF IInv, Chained
    <3>3. m.previous \in Earlier(catalog, i)
      BY <2>2, <3>1, <3>2 DEF ChainAt
    <3>4. PICK j \in 1 .. i - 1 : catalog[j] = m.previous /\ catalog[j].epoch = m.epoch
      BY <3>1, <3>3 DEF Earlier
    <3>5. j \in DOMAIN catalog
      BY <1>1, <3>1, <3>4 DEF IInv, Cataloged
    <3> QED BY <3>4, <3>5 DEF Committed
  <2>3. m.previous # Genesis =>
           Slot(m.previous) = {m.previous} /\ m.previous.after \in Nat
    BY <1>1, <2>2, CommittedResolves DEF Resolves, IInv, Cataloged, Sound
  <2>4. m.previous # Genesis => m.previous.after < m.after
    BY <2>1, <2>3 DEF Sound
  <2>5. /\ {o.role : o \in m.objects} = {"raw", "normalized"}
        /\ \A o \in m.objects : o.before = m.before /\ o.after = m.after
    BY <2>1 DEF Whole
  <2>6. \A i \in m.before + 1 .. m.after : raw[i].epoch = m.epoch /\ raw[i] = raw[m.after]
    BY <2>1 DEF Sound
  <2> QED BY <2>1, <2>2, <2>3, <2>4, <2>5, <2>6
<1>2. IInv => ReaderResolves
  BY <1>1 DEF ReaderResolves
<1> QED BY <1>2, Invariance, PTL

-----------------------------------------------------------------------------
(* Types.                                                                  *)

LEMMA OutputType ==
    ASSUME IInv, TypeOK
    PROVE  \A f \in Output : IsFile(f)
<1>1. Awaited /\ Stepped
  BY DEF IInv
<1>2. pending # NoPending => IsPending(pending)
  BY DEF TypeOK
<1>3. pending # NoPending => IsObject(Raw) /\ IsObject(Normalized)
  BY <1>2 DEF TypeOK, Raw, Normalized, Object, IsObject, IsPending
<1>4. step \in {"sealRaw", "sealNormalized", "viewRaw", "viewNormalized", "validate", "install"} =>
         pending # NoPending
  BY <1>1 DEF Stepped, NoPending
<1>5. step \in {"validate", "install"} => IsManifest(pending.manifest)
  BY <1>1, <1>2, <1>4 DEF Stepped, IsPending
<1> QED BY <1>3, <1>4, <1>5 DEF Output, IsFile, View, File, IsManifest

LEMMA TypeStep ==
    ASSUME IInv, IInv', TypeOK, [Next]_vars
    PROVE  TypeOK'
<1>1. /\ raw \in Seq(Records) /\ raw' \in Seq(Records)
      /\ normalized' \in 0 .. Len(raw') /\ catalog' \in Seq(Committed')
  BY DEF IInv, Upstream, Cataloged
<1>2. DOMAIN catalog' = 1 .. Len(catalog')
  BY <1>1
<1>3. \A f \in files' : IsFile(f)
  <2>1. files' \subseteq files \cup Output
    BY DEF Next, Publisher, CommitRaw, Normalize, Open, Reconcile, NothingToPublish, Resume,
           Recover, Reserve, Seal, Prepare, Validate, InstallManifest, CommitPrepared, Raise,
           Close, Crash, InstallOutput, vars, archive
  <2> QED BY <2>1, OutputType DEF TypeOK
<1>4. unsynced' \subseteq files'
  BY DEF TypeOK, Next, Publisher, CommitRaw, Normalize, Open, Reconcile, NothingToPublish, Resume,
         Recover, Reserve, Seal, Prepare, Validate, InstallManifest, CommitPrepared, Raise,
         Close, Crash, InstallOutput, vars, archive
<1>5. pending' = NoPending \/ IsPending(pending')
  <2>1. CASE \E last \in 1 .. MaxRaw : Reserve(last)
    <3>1. PICK last \in 1 .. MaxRaw : Reserve(last)
      BY <2>1
    <3>2. last \in Nat /\ checkpoint.after \in Nat
          /\ EpochHead(raw[last].epoch).sequence \in Nat
      BY <3>1, CheckpointType
    <3>3. raw[last].epoch \in Epochs
      <4>1. last \in 1 .. Len(raw)
        BY <3>1, <3>2 DEF Reserve, Selectable, IInv, Upstream
      <4>2. raw[last] \in Records
        BY <1>1, <4>1
      <4> QED BY <4>2 DEF Records
    <3> QED BY <3>1, <3>2, <3>3 DEF Reserve, IsPending
  <2>2. CASE Prepare
    <3>1. IsPending(pending) /\ pending.state = "reserved"
      BY <2>2 DEF TypeOK, IInv, Stepped, Prepare, At, NoPending
    <3>2. IsObject(Raw) /\ IsObject(Normalized)
      BY <3>1 DEF TypeOK, Raw, Normalized, Object, IsObject, IsPending
    <3>3. IsManifest(Manifest)
      BY <3>1, <3>2 DEF Manifest, IsManifest, IsPending
    <3> QED BY <2>2, <3>1, <3>3 DEF Prepare, IsPending
  <2>3. CASE pending' \in {pending, NoPending}
    BY <2>3 DEF TypeOK
  <2> QED BY <2>1, <2>2, <2>3
          DEF Next, Publisher, CommitRaw, Normalize, Open, Reconcile, NothingToPublish, Resume,
              Recover, Seal, Validate, InstallManifest, CommitPrepared, Raise, Close, Crash,
              Shut, vars, database
<1>6. (\A m \in Committed' : IsManifest(m)) /\ (checkpoint' = Genesis \/ IsManifest(checkpoint'))
  <2>1. CASE CommitPrepared
    <3>1. IsManifest(pending.manifest)
      BY <2>1 DEF TypeOK, IInv, Stepped, CommitPrepared, At, NoPending, IsPending
    <3>2. Committed' = Committed \cup {pending.manifest}
      <4>1. catalog \in Seq(Committed) /\ catalog' = Append(catalog, pending.manifest)
        BY <2>1 DEF IInv, Cataloged, CommitPrepared
      <4> QED BY <4>1, Appended DEF Committed
    <3> QED BY <2>1, <3>1, <3>2 DEF TypeOK, CommitPrepared
  <2>2. CASE UNCHANGED <<catalog, checkpoint>>
    BY <2>2 DEF TypeOK, Committed
  <2> QED BY <2>1, <2>2
          DEF Next, Publisher, CommitRaw, Normalize, Open, Reconcile, NothingToPublish, Resume,
              Recover, Reserve, Prepare, Seal, Validate, InstallManifest, Raise, Close, Crash,
              Shut, vars, database
<1>7. store' \in {"closed", "open", "failed"} /\ encoder' \in Encoders
  BY DEF TypeOK, process, Next, Publisher, CommitRaw, Normalize, Open, Reconcile, NothingToPublish,
         Resume, Recover, Reserve, Prepare, Seal, Validate, InstallManifest, CommitPrepared,
         Raise, Close, Crash, Shut, vars
<1>8. checked' \in BOOLEAN
  BY DEF TypeOK, process, Next, Publisher, CommitRaw, Normalize, Open, Reconcile, NothingToPublish,
         Resume, Recover, Reserve, Prepare, Seal, Validate, InstallManifest, CommitPrepared,
         Raise, Close, Crash, Shut, vars
<1>9. step' \in Steps
  <2>1. CASE Seal
    BY <2>1 DEF Seal, Continue, Steps
  <2>2. CASE UNCHANGED step
    BY <2>2 DEF TypeOK
  <2>3. CASE step' \in {"idle", "next", "recover", "sealRaw", "validate", "install", "commit"}
    BY <2>3 DEF Steps, Continue
  <2> QED BY <2>1, <2>2, <2>3
          DEF Next, Publisher, CommitRaw, Normalize, Open, Reconcile, NothingToPublish,
              Resume, Recover, Reserve, Prepare, Validate, InstallManifest, CommitPrepared,
              Raise, Close, Crash, Shut, vars
<1>10. failures' \in 0 .. MaxFailures
  <2>1. failures' = failures \/ Failing
    BY DEF Next, Publisher, CommitRaw, Normalize, Open, Reconcile, NothingToPublish,
           Resume, Recover, Reserve, Prepare, Seal, Validate, InstallManifest, CommitPrepared,
           Raise, Close, Crash, Shut, vars
  <2>2. MaxFailures \in Nat
    BY PublicationAssumption
  <2> QED BY <2>1, <2>2 DEF TypeOK, Failing
<1> QED BY <1>1, <1>2, <1>3, <1>4, <1>5, <1>6, <1>7, <1>8, <1>9, <1>10
        DEF TypeOK, Records

(* Every variable of Publication keeps its type.                           *)
THEOREM Types == Spec => []TypeOK
<1>1. Init => TypeOK
  <2> SUFFICES ASSUME Init PROVE TypeOK
    OBVIOUS
  <2>1. raw \in Seq([epoch : Epochs, partition : Partitions]) /\ normalized \in 0 .. Len(raw)
    BY DEF Init
  <2>2. DOMAIN catalog = 1 .. Len(catalog) /\ Committed = {}
    BY DEF Init, Committed
  <2>3. failures \in 0 .. MaxFailures
    BY PublicationAssumption DEF Init
  <2>4. checked \in BOOLEAN /\ step \in Steps
    BY DEF Init, Steps
  <2> QED BY <2>1, <2>2, <2>3, <2>4 DEF Init, TypeOK
<1>2. IInv /\ IInv' /\ TypeOK /\ [Next]_vars => TypeOK'
  BY TypeStep
<1> QED BY <1>1, <1>2, Invariance, PTL DEF Spec

-----------------------------------------------------------------------------
(* The refinement.                                                         *)

Shown(c) == [i \in DOMAIN c |-> [first |-> c[i].before + 1, last |-> c[i].after]]

LEMMA ShownCatalog ==
    ASSUME IInv
    PROVE  /\ catalog = <<>> <=> Shown(catalog) = <<>>
           /\ Log!Published = checkpoint.after
<1>1. catalog \in Seq(Committed) /\ DOMAIN catalog = 1 .. Len(catalog) /\ Len(catalog) \in Nat
  BY DEF IInv, Cataloged
<1>2. DOMAIN Shown(catalog) = 1 .. Len(catalog) /\ Len(Shown(catalog)) = Len(catalog)
  BY <1>1 DEF Shown
<1>3. catalog = <<>> <=> Shown(catalog) = <<>>
  BY <1>1, <1>2
<1>4. catalog # <<>> => Shown(catalog)[Len(catalog)].last = catalog[Len(catalog)].after
  BY <1>1 DEF Shown
<1>5. Log!Published = IF Shown(catalog) = <<>> THEN 0
                      ELSE Shown(catalog)[Len(Shown(catalog))].last
  BY DEF Log!Published, Shown
<1> QED BY <1>2, <1>3, <1>4, <1>5 DEF IInv, Chained, Genesis

LEMMA ShownAppend ==
    ASSUME NEW S, NEW c \in Seq(S), NEW m
    PROVE  Shown(Append(c, m)) = Append(Shown(c), [first |-> m.before + 1, last |-> m.after])
<1>1. /\ Append(c, m) \in Seq(S \cup {m}) /\ Len(c) \in Nat
      /\ DOMAIN Append(c, m) = 1 .. Len(c) + 1 /\ DOMAIN c = 1 .. Len(c)
      /\ \A i \in 1 .. Len(c) : Append(c, m)[i] = c[i]
      /\ Append(c, m)[Len(c) + 1] = m
  BY Appended
<1> DEFINE batch == [first |-> m.before + 1, last |-> m.after]
           T == {Shown(c)[i] : i \in 1 .. Len(c)}
<1>2. Shown(c) \in Seq(T) /\ Len(Shown(c)) = Len(c)
  BY <1>1 DEF Shown
<1>3. /\ Append(Shown(c), batch) \in Seq(T \cup {batch})
      /\ DOMAIN Append(Shown(c), batch) = 1 .. Len(c) + 1
      /\ \A i \in 1 .. Len(c) : Append(Shown(c), batch)[i] = Shown(c)[i]
      /\ Append(Shown(c), batch)[Len(c) + 1] = batch
  <2> HIDE DEF T, batch
  <2> QED BY <1>2, Appended
<1>4. \A i \in 1 .. Len(c) + 1 : Shown(Append(c, m))[i] = Append(Shown(c), batch)[i]
  BY <1>1, <1>3 DEF Shown
<1>5. DOMAIN Shown(Append(c, m)) = 1 .. Len(c) + 1
  BY <1>1 DEF Shown
<1> QED BY <1>3, <1>4, <1>5 DEF Shown

LEMMA Stuttering ==
    ASSUME UNCHANGED <<raw, normalized, catalog>>
    PROVE  UNCHANGED Log!vars
BY DEF Log!vars

LEMMA RefinedStep ==
    ASSUME IInv, [Next]_vars
    PROVE  [Log!Next]_(Log!vars)
<1>1. CASE UNCHANGED <<raw, normalized, catalog>>
  BY <1>1, Stuttering
<1>2. CASE \E e \in Epochs, p \in Partitions : CommitRaw(e, p)
  BY <1>2 DEF CommitRaw, Log!Next, Log!Commit, database
<1>3. CASE Normalize
  BY <1>3 DEF Normalize, Log!Next, Log!Ready, database
<1>4. CASE CommitPrepared
  <2> PICK m : m = pending.manifest
    OBVIOUS
  <2>1. pending.state = "prepared" /\ pending # NoPending
    BY <1>4 DEF IInv, Stepped, CommitPrepared, At, NoPending
  <2>2. /\ Sound(m) /\ checkpoint.after = m.before /\ catalog' = Append(catalog, m)
        /\ UNCHANGED <<raw, normalized>>
    BY <1>4, <2>1 DEF IInv, Awaited, Sound, Prepared, CommitPrepared, upstream
  <2>3. Log!Published = m.before
    BY <2>2, ShownCatalog
  <2>4. Shown(catalog') = Append(Shown(catalog), [first |-> m.before + 1, last |-> m.after])
    BY <2>2, ShownAppend DEF IInv, Cataloged
  <2>5. /\ m.after \in m.before + 1 .. normalized /\ m.after - m.before <= MaxBatch
        /\ \A i \in m.before + 1 .. m.after : raw[i] = raw[m.after]
    BY <2>2 DEF Sound, IInv, Upstream
  <2>6. Log!Publish
    BY <2>2, <2>3, <2>4, <2>5 DEF Log!Publish, Shown
  <2> QED BY <2>6 DEF Log!Next
<1> QED BY <1>1, <1>2, <1>3, <1>4
        DEF Next, Publisher, Open, Reconcile, NothingToPublish, Resume, Recover, Reserve, Seal,
            Prepare, Validate, InstallManifest, Raise, Close, Crash, Shut, vars, upstream, database

(* The catalog is the log that publication promises its consumers: in       *)
(* order, each normalized record once, in batches of one epoch and one      *)
(* partition (_select, commit_prepared).                                    *)
THEOREM Refinement == Spec => ImplementsPublishedLog
<1>1. Init => Log!Init
  BY DEF Init, Log!Init
<1>2. IInv /\ [Next]_vars => [Log!Next]_(Log!vars)
  BY RefinedStep
<1> QED BY <1>1, <1>2, Invariance, PTL DEF Spec, ImplementsPublishedLog, Log!Spec
=============================================================================
