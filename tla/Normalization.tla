--------------------------- MODULE Normalization ---------------------------
(***************************************************************************)
(* The normalizer (normalization/runner.py over sqlite_store.py): one      *)
(* owning thread reads the next committed raw record, inspects it, and     *)
(* commits one outcome with the checkpoint, or persists a barrier and      *)
(* stays where it is.  The process may die at any step.                    *)
(*                                                                         *)
(* Raw records are numbered by position: the checkpoint is the last        *)
(* processed existing record, and gaps between offsets do not matter.      *)
(***************************************************************************)
EXTENDS Naturals, Sequences

CONSTANTS
    CandleKeys,   \* candle keys, one instrument each
    Prices,       \* what tells two candles of one key apart, finality aside
    MaxRaw,       \* bound: raw records committed upstream
    MaxFailures   \* bound: failed transactions, closings and crashes

ASSUME NormalizationAssumption ==
    MaxRaw \in Nat /\ MaxFailures \in Nat

(* A candle stands for its CandleSemantics, hence for its revision().      *)
Candles == [key : CandleKeys, price : Prices, final : BOOLEAN]

(***************************************************************************)
(* What inspection finds in a payload: a candle of the supported schema, a *)
(* candle of a schema that only a newer normalizer reads, a candle that    *)
(* the domain types refuse once its instrument is known, or bytes that are *)
(* rejected unseen.                                                        *)
(***************************************************************************)
Messages == [shape : {"candle", "newer", "invalid"}, candle : Candles]
                \cup [shape : {"malformed"}]

Kinds == {"accepted", "duplicate", "open_revision", "finalization",
          "conflict", "rejected"}
Reasons == {"unsupported_schema", "metadata_unavailable"}

NoBarrier == [offset |-> 0]

VARIABLES
    raw,           \* the records the spool has committed
    outcomes,      \* processing_outcomes: [offset, predecessor, kind]
    observations,  \* candle_observations: the revisions stored
    checkpoint,    \* processing_checkpoint: the last processed record, or 0
    barrier,       \* processing_barrier: [offset, predecessor, reason]
    store,         \* the NormalizationStore: "closed", "open", "failed"
    known,         \* keys of the instruments mapping
    reads,         \* the installed normalizer reads the newer schema
    runner,        \* where process_next is: "idle", "read", "resolved"
    record,        \* the record it has read, or 0
    verdict,       \* what it is about to do with the record
    failures       \* failures so far

durable  == <<outcomes, observations, checkpoint, barrier>>
progress == <<runner, record, verdict>>
vars == <<raw, durable, store, known, reads, progress, failures>>

Init ==
    /\ raw = <<>>
    /\ outcomes = {} /\ observations = {}
    /\ checkpoint = 0
    /\ barrier = NoBarrier
    /\ store = "closed"
    /\ known = {}
    /\ reads = FALSE
    /\ runner = "idle" /\ record = 0 /\ verdict = "none"
    /\ failures = 0

-----------------------------------------------------------------------------
(* The surroundings: the spool commits records, metadata is discovered.    *)

CommitRaw(m) ==
    /\ Len(raw) < MaxRaw
    /\ raw' = Append(raw, m)
    /\ UNCHANGED <<durable, store, known, reads, progress, failures>>

Discover(k) ==
    /\ store = "open"
    /\ known' = known \cup {k}
    /\ UNCHANGED <<raw, durable, store, reads, progress, failures>>

-----------------------------------------------------------------------------
(* Opening and closing the store *)

IsRoot(o) == o.predecessor = 0
Follows(o, p) == o.predecessor = p.offset

(***************************************************************************)
(* _validate_rows: from the checkpoint the predecessors reach every        *)
(* outcome, and a barrier hangs from the checkpoint.  Each predecessor is  *)
(* a smaller offset and has one successor, so that the walk reaches        *)
(* everything is: one root, no missing predecessor, the checkpoint last.   *)
(***************************************************************************)
RowsValid ==
    /\ \A o \in outcomes :
        /\ o.predecessor < o.offset /\ o.offset <= checkpoint
        /\ IsRoot(o) \/ \E p \in outcomes : Follows(o, p)
    /\ \A o, p \in outcomes : o.predecessor = p.predecessor => o = p
    /\ checkpoint # 0 => \E o \in outcomes : o.offset = checkpoint
    /\ barrier # NoBarrier => barrier.predecessor = checkpoint

(* A new process: nothing is known, and it may be a newer release. *)
Open ==
    /\ store = "closed"
    /\ RowsValid
    /\ store' = "open"
    /\ known' = {}
    /\ reads' \in BOOLEAN
    /\ UNCHANGED <<raw, durable, progress, failures>>

Release ==
    /\ store' = "closed"
    /\ runner' = "idle" /\ record' = 0 /\ verdict' = "none"
    /\ UNCHANGED <<raw, durable, known, reads>>

Close ==
    /\ store = "open" /\ runner = "idle"
    /\ failures < MaxFailures
    /\ failures' = failures + 1
    /\ Release

(* The owner of a failed store can only close it. *)
CloseFailed ==
    /\ store = "failed" /\ runner = "idle"
    /\ Release
    /\ UNCHANGED failures

Crash ==
    /\ store # "closed"
    /\ failures < MaxFailures
    /\ failures' = failures + 1
    /\ Release

-----------------------------------------------------------------------------
(* process_next, up to the transaction *)

(* Mutant: a barrier is never looked at again. *)
ReadUnblocked ==
    /\ store = "open" /\ runner = "idle"
    /\ checkpoint < Len(raw)
    /\ barrier = NoBarrier
    /\ record' = checkpoint + 1
    /\ runner' = "read"
    /\ UNCHANGED <<raw, durable, store, known, reads, verdict, failures>>

(* status(), then records_after(checkpoint, limit=1) and _read_next. *)
Read ==
    /\ store = "open" /\ runner = "idle"
    /\ checkpoint < Len(raw)
    /\ barrier # NoBarrier => /\ barrier.offset = checkpoint + 1
                              /\ barrier.predecessor = checkpoint
    /\ record' = checkpoint + 1
    /\ runner' = "read"
    /\ UNCHANGED <<raw, durable, store, known, reads, verdict, failures>>

Shape == raw[record].shape
Candle == raw[record].candle

(* inspect_*_candle, instruments.get and normalize_parsed_candle, in order. *)
Verdict ==
    CASE Shape = "malformed" -> "reject"
      [] Shape = "newer" /\ ~reads -> "unsupported_schema"
      [] Shape # "malformed" /\ (Shape = "newer" => reads) ->
            IF Candle.key \notin known THEN "metadata_unavailable"
            ELSE IF Shape = "invalid" THEN "reject" ELSE "normalize"

Resolve ==
    /\ runner = "read"
    /\ verdict' = Verdict
    /\ runner' = "resolved"
    /\ UNCHANGED <<raw, durable, store, known, reads, record, failures>>

Return == runner' = "idle" /\ record' = 0 /\ verdict' = "none"

-----------------------------------------------------------------------------
(* NormalizationStore.process *)

SameKey(c) == {o \in observations : o.key = c.key}
Finalized(S) == \E o \in S : o.final

(* Mutant: finality is looked at before the revision. *)
ObservationKindFinalFirst(c) ==
    IF Finalized(SameKey(c)) THEN "conflict"
    ELSE IF c \in observations THEN "duplicate"
    ELSE IF SameKey(c) = {} THEN "accepted"
    ELSE IF c.final THEN "finalization" ELSE "open_revision"

(* _store_semantics: the kind of an observation, by what is stored. *)
ObservationKind(c) ==
    CASE c \in observations -> "duplicate"
      [] c \notin observations /\ SameKey(c) = {} -> "accepted"
      [] c \notin observations /\ Finalized(SameKey(c)) -> "conflict"
      [] c \notin observations /\ SameKey(c) # {} /\ ~Finalized(SameKey(c)) ->
            IF c.final THEN "finalization" ELSE "open_revision"

(* _check_predecessor and the comparison with the stored barrier. *)
InOrder ==
    /\ record > checkpoint
    /\ barrier # NoBarrier => /\ barrier.offset = record
                              /\ barrier.predecessor = checkpoint

InsertOutcome(kind) ==
    outcomes' = outcomes \cup
        {[offset |-> record, predecessor |-> checkpoint, kind |-> kind]}

(* Mutant: the barrier row outlives the outcome. *)
ProcessKeepsBarrier ==
    /\ runner = "resolved" /\ store = "open"
    /\ InOrder
    /\ \/ /\ verdict = "normalize"
          /\ InsertOutcome(ObservationKind(Candle))
          /\ observations' = observations \cup {Candle}
       \/ /\ verdict = "reject"
          /\ InsertOutcome("rejected")
          /\ UNCHANGED observations
    /\ checkpoint' = record
    /\ Return
    /\ UNCHANGED <<raw, barrier, store, known, reads, failures>>

(* One transaction: observation, outcome, checkpoint, barrier. *)
Process ==
    /\ runner = "resolved" /\ store = "open"
    /\ InOrder
    /\ \/ /\ verdict = "normalize"
          /\ InsertOutcome(ObservationKind(Candle))
          /\ observations' = observations \cup {Candle}
       \/ /\ verdict = "reject"
          /\ InsertOutcome("rejected")
          /\ UNCHANGED observations
    /\ checkpoint' = record
    /\ barrier' = NoBarrier
    /\ Return
    /\ UNCHANGED <<raw, store, known, reads, failures>>

(* Mutant: a blocked record is passed over. *)
BlockAdvances ==
    /\ runner = "resolved" /\ store = "open"
    /\ verdict \in Reasons
    /\ checkpoint' = record
    /\ Return
    /\ UNCHANGED <<raw, outcomes, observations, barrier, store, known, reads, failures>>

(* NormalizationStore.block: nothing but the barrier is written.  It is    *)
(* refused when another barrier is stored, whatever its reason.            *)
Block ==
    /\ runner = "resolved" /\ store = "open"
    /\ verdict \in Reasons
    /\ record > checkpoint
    /\ LET b == [offset |-> record, predecessor |-> checkpoint, reason |-> verdict]
       IN IF barrier = NoBarrier THEN barrier' = b ELSE UNCHANGED barrier
    /\ Return
    /\ UNCHANGED <<raw, outcomes, observations, checkpoint, store, known, reads, failures>>

(* The transaction raises and is rolled back. *)
RollBack ==
    /\ runner = "resolved" /\ store = "open"
    /\ failures < MaxFailures
    /\ failures' = failures + 1
    /\ Return
    /\ UNCHANGED <<raw, durable, store, known, reads>>

(* _rollback itself fails: the connection is closed for good. *)
RollBackFails ==
    /\ runner = "resolved" /\ store = "open"
    /\ failures < MaxFailures
    /\ failures' = failures + 1
    /\ store' = "failed"
    /\ Return
    /\ UNCHANGED <<raw, durable, known, reads>>

-----------------------------------------------------------------------------
ProcessNext == Read \/ Resolve \/ Process \/ Block

Next ==
    \/ \E m \in Messages : CommitRaw(m)
    \/ \E k \in CandleKeys : Discover(k)
    \/ Open \/ Close \/ CloseFailed \/ Crash
    \/ ProcessNext
    \/ RollBack \/ RollBackFails

Spec == Init /\ [][Next]_vars

(* process_next is called again and again, a closed store is reopened, and *)
(* the metadata of every instrument is found in the end.                   *)
Fairness ==
    /\ WF_vars(ProcessNext)
    /\ WF_vars(Open) /\ WF_vars(CloseFailed)
    /\ \A k \in CandleKeys : WF_vars(Discover(k))

FairSpec == Spec /\ Fairness

-----------------------------------------------------------------------------
TypeOK ==
    /\ raw \in Seq(Messages)
    /\ outcomes \subseteq [offset : Nat, predecessor : Nat, kind : Kinds]
    /\ observations \subseteq Candles
    /\ checkpoint \in Nat
    /\ barrier \in {NoBarrier} \cup [offset : Nat, predecessor : Nat, reason : Reasons]
    /\ store \in {"closed", "open", "failed"}
    /\ known \subseteq CandleKeys
    /\ reads \in BOOLEAN
    /\ runner \in {"idle", "read", "resolved"}
    /\ record \in Nat
    /\ verdict \in {"none", "reject", "normalize"} \cup Reasons
    /\ failures \in 0 .. MaxFailures

Observes(m) == m.shape \in {"candle", "newer"}

(* The revisions of the records before record i. *)
Earlier(i) == {raw[j].candle : j \in {k \in 1 .. i - 1 : Observes(raw[k])}}

EarlierOfKey(i) == {c \in Earlier(i) : c.key = raw[i].candle.key}

(* The table of docs/data/NORMALIZATION.md, "Classification": each kind is *)
(* decided by the raw records alone, so no crash, barrier or retry changes *)
(* what a record becomes.                                                  *)
OutcomesMatchTable ==
    \A o \in outcomes :
        LET m == raw[o.offset]
            new == Observes(m) /\ m.candle \notin Earlier(o.offset)
        IN
        /\ o.kind = "rejected" <=> ~Observes(m)
        /\ o.kind = "duplicate" <=> Observes(m) /\ ~new
        /\ o.kind = "accepted" <=> new /\ EarlierOfKey(o.offset) = {}
        /\ o.kind = "open_revision" <=>
              /\ new /\ EarlierOfKey(o.offset) # {} /\ ~m.candle.final
              /\ ~Finalized(EarlierOfKey(o.offset))
        /\ o.kind = "finalization" <=>
              /\ new /\ EarlierOfKey(o.offset) # {} /\ m.candle.final
              /\ ~Finalized(EarlierOfKey(o.offset))
        /\ o.kind = "conflict" <=> new /\ Finalized(EarlierOfKey(o.offset))

(* Every record up to the checkpoint has exactly one outcome, and no       *)
(* record after it has one.                                                *)
OneOutcomePerRecord ==
    /\ checkpoint <= Len(raw)
    /\ {o.offset : o \in outcomes} = 1 .. checkpoint
    /\ \A o, p \in outcomes : o.offset = p.offset => o = p

(* Whatever the process was doing when it died, the next one opens the     *)
(* database: _validate_rows accepts what every transaction leaves.         *)
ReopenSucceeds == RowsValid

(* A barrier stands on the first unprocessed record and only goes away     *)
(* with the outcome of that record, in one step.                           *)
BarrierLiftedByItsOutcome ==
    [][barrier # NoBarrier =>
        \/ barrier' = barrier
        \/ /\ barrier' = NoBarrier
           /\ \E o \in outcomes' \ outcomes : o.offset = barrier.offset
           /\ checkpoint' = barrier.offset]_vars

(* Every committed record is processed in the end, unless the installed    *)
(* normalizer cannot read the schema of one before it.                     *)
Progress ==
    \A i \in 1 .. MaxRaw :
        (Len(raw) >= i) ~>
            (checkpoint >= i \/ (~reads /\ barrier # NoBarrier))
=============================================================================
