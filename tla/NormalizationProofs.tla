------------------------ MODULE NormalizationProofs ------------------------
(***************************************************************************)
(* Proofs about the normalizer, for raw logs of any length and any number  *)
(* of closings, failures and crashes.  The invariant IInv says where the   *)
(* runner is against the checkpoint (InStep), that the outcomes number the *)
(* records (Numbered), and that the observations are the revisions of the  *)
(* records processed (Observed): from the last, the kind of an outcome is  *)
(* decided by the raw records alone.                                       *)
(***************************************************************************)
EXTENDS Normalization, TLAPS

(* What the runner holds is about the record after the checkpoint. *)
InStep ==
    /\ checkpoint <= Len(raw)
    /\ runner \in {"read", "resolved"} =>
        /\ record = checkpoint + 1
        /\ record <= Len(raw)
    /\ runner = "resolved" =>
        /\ verdict = "normalize" => Observes(raw[record])
        /\ verdict = "reject" => ~Observes(raw[record])
    /\ barrier # NoBarrier =>
        /\ barrier.offset = checkpoint + 1
        /\ barrier.predecessor = checkpoint

Numbered ==
    /\ \A o \in outcomes : o.offset \in 1 .. checkpoint /\ o.predecessor + 1 = o.offset
    /\ \A i \in 1 .. checkpoint : \E o \in outcomes : o.offset = i
    /\ \A o, p \in outcomes : o.offset = p.offset => o = p

Observed == observations = Earlier(checkpoint + 1)

IInv == TypeOK /\ InStep /\ Numbered /\ Observed /\ OutcomesMatchTable

-----------------------------------------------------------------------------
(* The raw log only grows, so what came before a record stays the same. *)

LEMMA EarlierGrows ==
    ASSUME NEW n \in 1 .. Len(raw), Observes(raw[n])
    PROVE  Earlier(n + 1) = Earlier(n) \cup {raw[n].candle}
BY DEF Earlier

LEMMA EarlierSkips ==
    ASSUME NEW n \in 1 .. Len(raw), ~Observes(raw[n])
    PROVE  Earlier(n + 1) = Earlier(n)
BY DEF Earlier

LEMMA EarlierKept ==
    ASSUME TypeOK, NEW m \in Messages, raw' = Append(raw, m), NEW n \in 1 .. Len(raw) + 1
    PROVE  Earlier(n)' = Earlier(n)
<1>1. \A j \in 1 .. n - 1 : raw'[j] = raw[j]
  BY DEF TypeOK
<1> QED
  BY <1>1 DEF Earlier

-----------------------------------------------------------------------------
(* Types, and what Process writes. *)

(* The CASE of _store_semantics covers every candle. *)
LEMMA KindKnown == \A c \in Candles : ObservationKind(c) \in Kinds \ {"rejected"}
BY DEF ObservationKind, Kinds

(* A record that is observed holds a candle. *)
LEMMA CandleOfRecord ==
    ASSUME TypeOK, NEW i \in 1 .. Len(raw), Observes(raw[i])
    PROVE  raw[i].candle \in Candles
<1>1. raw[i] \in Messages
  BY DEF TypeOK
<1> QED
  BY <1>1 DEF Messages, Observes

LEMMA TypeStep ==
    ASSUME TypeOK, InStep, [Next]_vars
    PROVE  TypeOK'
<1> USE NormalizationAssumption DEF TypeOK
<1>1. CASE UNCHANGED vars
  BY <1>1 DEF vars, durable, progress
<1>2. ASSUME NEW m \in Messages, CommitRaw(m) PROVE TypeOK'
  BY <1>2 DEF CommitRaw, durable, progress
<1>3. ASSUME NEW k \in CandleKeys, Discover(k) PROVE TypeOK'
  BY <1>3 DEF Discover, durable, progress
<1>4. CASE Open
  BY <1>4 DEF Open, durable, progress
<1>5. CASE Close \/ CloseFailed \/ Crash
  BY <1>5 DEF Close, CloseFailed, Crash, Release, durable
<1>6. CASE Read
  BY <1>6 DEF Read, durable
<1>7. CASE Resolve
  <2>1. Verdict \in {"none", "reject", "normalize"} \cup Reasons
    BY <1>7 DEF Resolve, Verdict, Reasons
  <2> QED
    BY <1>7, <2>1 DEF Resolve, durable
<1>8. CASE Process
  <2>1. CASE verdict = "normalize"
    <3>1. Candle \in Candles
      BY <1>8, <2>1, CandleOfRecord DEF Process, InStep, Candle
    <3>2. [offset |-> record, predecessor |-> checkpoint,
           kind |-> ObservationKind(Candle)]
             \in [offset : Nat, predecessor : Nat, kind : Kinds]
      BY <3>1, KindKnown
    <3> QED
      BY <1>8, <2>1, <3>1, <3>2 DEF Process, InsertOutcome, Return
  <2>2. CASE verdict = "reject"
    <3>1. [offset |-> record, predecessor |-> checkpoint, kind |-> "rejected"]
             \in [offset : Nat, predecessor : Nat, kind : Kinds]
      BY DEF Kinds
    <3> QED
      BY <1>8, <2>2, <3>1 DEF Process, InsertOutcome, Return
  <2> QED
    BY <1>8, <2>1, <2>2 DEF Process
<1>9. CASE Block
  BY <1>9 DEF Block, Return, Reasons
<1>10. CASE RollBack \/ RollBackFails
  BY <1>10 DEF RollBack, RollBackFails, Return, durable
<1> QED
  BY <1>1, <1>2, <1>3, <1>4, <1>5, <1>6, <1>7, <1>8, <1>9, <1>10
  DEF Next, ProcessNext

-----------------------------------------------------------------------------
(* The runner against the checkpoint *)

LEMMA InStepStep ==
    ASSUME TypeOK, InStep, [Next]_vars
    PROVE  InStep'
<1> USE DEF InStep
<1>1. CASE UNCHANGED vars
  BY <1>1 DEF vars, durable, progress, Observes
<1>2. ASSUME NEW m \in Messages, CommitRaw(m) PROVE InStep'
  <2>1. /\ Len(raw') = Len(raw) + 1
        /\ \A j \in 1 .. Len(raw) : raw'[j] = raw[j]
    BY <1>2 DEF CommitRaw, TypeOK
  <2> QED
    BY <1>2, <2>1 DEF CommitRaw, TypeOK, durable, progress, Observes
<1>3. ASSUME NEW k \in CandleKeys, Discover(k) PROVE InStep'
  BY <1>3 DEF Discover, durable, progress, Observes
<1>4. CASE Open
  BY <1>4 DEF Open, durable, progress, Observes
<1>5. CASE Close \/ CloseFailed \/ Crash
  BY <1>5 DEF Close, CloseFailed, Crash, Release, durable
<1>6. CASE Read
  BY <1>6 DEF Read, durable, TypeOK
<1>7. CASE Resolve
  <2>1. raw[record] \in Messages
    BY <1>7 DEF Resolve, TypeOK
  <2>2. /\ Verdict = "normalize" => Observes(raw[record])
        /\ Verdict = "reject" => ~Observes(raw[record])
    BY <2>1 DEF Verdict, Shape, Observes, Messages
  <2> QED
    BY <1>7, <2>2 DEF Resolve, durable, Observes
<1>8. CASE Process
  BY <1>8 DEF Process, Return, TypeOK
<1>9. CASE Block
  BY <1>9 DEF Block, Return, NoBarrier
<1>10. CASE RollBack \/ RollBackFails
  BY <1>10 DEF RollBack, RollBackFails, Return, durable
<1> QED
  BY <1>1, <1>2, <1>3, <1>4, <1>5, <1>6, <1>7, <1>8, <1>9, <1>10
  DEF Next, ProcessNext

-----------------------------------------------------------------------------
(***************************************************************************)
(* Outcomes and observations.  Only Process writes them, and only          *)
(* CommitRaw changes the log they are about.                               *)
(***************************************************************************)
Recorded == Numbered /\ Observed /\ OutcomesMatchTable

(* The table, for one outcome. *)
Matches(o) ==
    LET m == raw[o.offset]
        new == Observes(m) /\ m.candle \notin Earlier(o.offset)
    IN
    /\ o.kind = "rejected" <=> ~Observes(m)
    /\ o.kind = "duplicate" <=> Observes(m) /\ ~new
    /\ o.kind = "accepted" <=> new /\ EarlierOfKey(o.offset) = {}
    /\ o.kind = "open_revision" <=>
          /\ new /\ EarlierOfKey(o.offset) # {} /\ ~m.candle.final
          /\ ~Finalized(EarlierOfKey(o.offset))
    /\ o.kind = "finalization" <=>
          /\ new /\ EarlierOfKey(o.offset) # {} /\ m.candle.final
          /\ ~Finalized(EarlierOfKey(o.offset))
    /\ o.kind = "conflict" <=> new /\ Finalized(EarlierOfKey(o.offset))

LEMMA TableIsMatches == OutcomesMatchTable <=> \A o \in outcomes : Matches(o)
BY DEF OutcomesMatchTable, Matches

LEMMA RecordedKept ==
    ASSUME Recorded, UNCHANGED <<raw, outcomes, observations, checkpoint>>
    PROVE  Recorded'
BY DEF Recorded, Numbered, Observed, OutcomesMatchTable, Earlier, EarlierOfKey,
   Observes, Finalized

LEMMA CommitRawRecorded ==
    ASSUME IInv, NEW m \in Messages, CommitRaw(m)
    PROVE  Recorded'
<1>1. /\ UNCHANGED durable
      /\ raw' = Append(raw, m)
      /\ \A j \in 1 .. Len(raw) : raw'[j] = raw[j]
  BY DEF IInv, TypeOK, CommitRaw
<1>2. checkpoint + 1 \in 1 .. Len(raw) + 1
  BY DEF IInv, TypeOK, InStep
<1>3. Numbered' /\ Observed'
  BY <1>1, <1>2, EarlierKept DEF IInv, Numbered, Observed, durable
<1>4. ASSUME NEW o \in outcomes PROVE Matches(o)'
  <2>1. o.offset \in 1 .. Len(raw)
    BY DEF IInv, Numbered, TypeOK, InStep
  <2>2. raw'[o.offset] = raw[o.offset] /\ Earlier(o.offset)' = Earlier(o.offset)
    BY <1>1, <2>1, EarlierKept DEF IInv, TypeOK
  <2>3. EarlierOfKey(o.offset)' = EarlierOfKey(o.offset)
    BY <2>2 DEF EarlierOfKey
  <2> QED
    BY <2>2, <2>3, TableIsMatches DEF IInv, Matches, Observes, Finalized
<1> QED
  BY <1>1, <1>3, <1>4, TableIsMatches DEF Recorded, durable, OutcomesMatchTable, Matches

(* The kind that _store_semantics finds is the one the table gives. *)
LEMMA KindMatches ==
    ASSUME TypeOK, Observed, NEW n \in 1 .. Len(raw), n = checkpoint + 1,
           Observes(raw[n]),
           NEW o, o.offset = n, o.kind = ObservationKind(raw[n].candle)
    PROVE  Matches(o)
<1> DEFINE c == raw[n].candle
<1>1. observations = Earlier(n) /\ SameKey(c) = EarlierOfKey(n)
  BY DEF Observed, SameKey, EarlierOfKey
<1>2. c \in Earlier(n) => EarlierOfKey(n) # {}
  BY DEF EarlierOfKey
<1>3. Finalized(EarlierOfKey(n)) => EarlierOfKey(n) # {}
  BY DEF Finalized
<1>4. c.final \in BOOLEAN
  BY CandleOfRecord DEF Candles
<1>5. CASE c \in Earlier(n)
  <2>1. o.kind = "duplicate"
    BY <1>1, <1>5 DEF ObservationKind
  <2> QED
    BY <1>5, <2>1 DEF Matches
<1>6. CASE c \notin Earlier(n) /\ EarlierOfKey(n) = {}
  <2>1. o.kind = "accepted"
    BY <1>1, <1>3, <1>6 DEF ObservationKind
  <2> QED
    BY <1>3, <1>6, <2>1 DEF Matches
<1>7. CASE c \notin Earlier(n) /\ Finalized(EarlierOfKey(n))
  <2>1. o.kind = "conflict"
    BY <1>1, <1>3, <1>7 DEF ObservationKind
  <2> QED
    BY <1>3, <1>7, <2>1 DEF Matches
<1>8. CASE c \notin Earlier(n) /\ EarlierOfKey(n) # {} /\ ~Finalized(EarlierOfKey(n))
  <2>1. o.kind = IF c.final THEN "finalization" ELSE "open_revision"
    BY <1>1, <1>8 DEF ObservationKind
  <2> QED
    BY <1>4, <1>8, <2>1 DEF Matches
<1> QED
  BY <1>5, <1>6, <1>7, <1>8

LEMMA ProcessRecorded ==
    ASSUME IInv, Process
    PROVE  Recorded'
<1> DEFINE n == checkpoint + 1
<1> USE DEF IInv
<1>1. /\ record = n /\ n \in 1 .. Len(raw) /\ checkpoint \in Nat
      /\ checkpoint' = n /\ raw' = raw
  BY DEF TypeOK, InStep, Process
<1>2. Earlier(n) = observations
  BY DEF Observed
<1>3. \A i : Earlier(i)' = Earlier(i) /\ EarlierOfKey(i)' = EarlierOfKey(i)
  BY <1>1 DEF Earlier, EarlierOfKey, Observes
<1>4. PICK o \in [offset : {n}, predecessor : {checkpoint}, kind : Kinds] :
        outcomes' = outcomes \cup {o} /\ Matches(o) /\ Observed'
  <2>1. CASE verdict = "normalize"
    <3> DEFINE o == [offset |-> n, predecessor |-> checkpoint,
                     kind |-> ObservationKind(Candle)]
    <3>1. Observes(raw[n]) /\ Candle = raw[n].candle
      BY <1>1, <2>1 DEF InStep, Process, Candle
    <3>2. Matches(o)
      BY <1>1, <3>1, KindMatches
    <3>3. outcomes' = outcomes \cup {o} /\ observations' = observations \cup {Candle}
      BY <1>1, <2>1 DEF Process, InsertOutcome
    <3>4. Observed'
      BY <1>1, <1>2, <1>3, <3>1, <3>3, EarlierGrows DEF Observed
    <3>5. ObservationKind(Candle) \in Kinds
      BY <1>1, <3>1, CandleOfRecord, KindKnown
    <3> QED
      BY <3>2, <3>3, <3>4, <3>5
  <2>2. CASE verdict = "reject"
    <3> DEFINE o == [offset |-> n, predecessor |-> checkpoint, kind |-> "rejected"]
    <3>1. ~Observes(raw[n])
      BY <1>1, <2>2 DEF InStep, Process
    <3>2. Matches(o)
      BY <3>1 DEF Matches
    <3>3. outcomes' = outcomes \cup {o} /\ observations' = observations
      BY <1>1, <2>2 DEF Process, InsertOutcome
    <3>4. Observed'
      BY <1>1, <1>2, <1>3, <3>1, <3>3, EarlierSkips DEF Observed
    <3> QED
      BY <3>2, <3>3, <3>4 DEF Kinds
  <2> QED
    BY <2>1, <2>2 DEF Process
<1>5. Numbered'
  BY <1>1, <1>4 DEF Numbered, TypeOK
<1>6. \A q \in outcomes' : Matches(q)'
  <2>1. \A q \in outcomes' : Matches(q)
    BY <1>4, TableIsMatches
  <2>2. \A q : Matches(q)' <=> Matches(q)
    BY <1>1, <1>3 DEF Matches, Observes, Finalized
  <2> QED
    BY <2>1, <2>2
<1> QED
  BY <1>4, <1>5, <1>6 DEF Recorded, OutcomesMatchTable, Matches

LEMMA RecordedStep ==
    ASSUME IInv, [Next]_vars
    PROVE  Recorded'
<1>1. ASSUME UNCHANGED <<raw, outcomes, observations, checkpoint>> PROVE Recorded'
  BY <1>1, RecordedKept DEF IInv, Recorded
<1>2. CASE UNCHANGED vars
  BY <1>1, <1>2 DEF vars, durable
<1>3. ASSUME NEW m \in Messages, CommitRaw(m) PROVE Recorded'
  BY <1>3, CommitRawRecorded
<1>4. ASSUME NEW k \in CandleKeys, Discover(k) PROVE Recorded'
  BY <1>1, <1>4 DEF Discover, durable
<1>5. CASE Open \/ Close \/ CloseFailed \/ Crash
  BY <1>1, <1>5 DEF Open, Close, CloseFailed, Crash, Release, durable
<1>6. CASE Read \/ Resolve \/ Block
  BY <1>1, <1>6 DEF Read, Resolve, Block, durable
<1>7. CASE Process
  BY <1>7, ProcessRecorded
<1>8. CASE RollBack \/ RollBackFails
  BY <1>1, <1>8 DEF RollBack, RollBackFails, durable
<1> QED
  BY <1>2, <1>3, <1>4, <1>5, <1>6, <1>7, <1>8 DEF Next, ProcessNext

-----------------------------------------------------------------------------
(* The invariant holds, and with it what it was made for. *)

LEMMA InitInvariant == Init => IInv
<1> SUFFICES ASSUME Init PROVE IInv
  OBVIOUS
<1>1. TypeOK
  <2>1. raw \in Seq(Messages)
    BY DEF Init
  <2>2. failures \in 0 .. MaxFailures
    BY NormalizationAssumption DEF Init
  <2> QED
    BY <2>1, <2>2 DEF Init, TypeOK
<1>2. InStep /\ Numbered /\ OutcomesMatchTable
  BY DEF Init, InStep, Numbered, OutcomesMatchTable
<1>3. Observed
  BY DEF Init, Observed, Earlier
<1> QED
  BY <1>1, <1>2, <1>3 DEF IInv

(* IInv is inductive, whatever fails and whenever the process dies.        *)
THEOREM Invariance == Spec => []IInv
<1>1. ASSUME IInv, [Next]_vars PROVE IInv'
  BY <1>1, TypeStep, InStepStep, RecordedStep DEF IInv, Recorded
<1> QED
  BY <1>1, InitInvariant, PTL DEF Spec

(* Every variable has its type.                                            *)
THEOREM TypeCorrect == Spec => []TypeOK
<1>1. IInv => TypeOK
  BY DEF IInv
<1> QED
  BY <1>1, Invariance, PTL

(* What a record becomes is decided by the raw records alone.              *)
THEOREM Classified == Spec => []OutcomesMatchTable
<1>1. IInv => OutcomesMatchTable
  BY DEF IInv
<1> QED
  BY <1>1, Invariance, PTL

(* The records up to the checkpoint have one outcome each, the others none. *)
THEOREM ProcessedOnce == Spec => []OneOutcomePerRecord
<1>1. ASSUME IInv PROVE OneOutcomePerRecord
  <2>1. \A o \in outcomes : o.offset \in 1 .. checkpoint
    BY <1>1 DEF IInv, Numbered
  <2>2. \A i \in 1 .. checkpoint : \E o \in outcomes : o.offset = i
    BY <1>1 DEF IInv, Numbered
  <2> QED
    BY <1>1, <2>1, <2>2 DEF IInv, Numbered, InStep, OneOutcomePerRecord
<1> QED
  BY <1>1, Invariance, PTL

(* The next process finds a database that _validate_rows accepts.          *)
THEOREM Reopens == Spec => []ReopenSucceeds
<1>1. ASSUME IInv PROVE RowsValid
  <2> USE <1>1 DEF IInv, TypeOK, Numbered
  <2>1. ASSUME NEW o \in outcomes
        PROVE  /\ o.predecessor < o.offset /\ o.offset <= checkpoint
               /\ IsRoot(o) \/ \E q \in outcomes : Follows(o, q)
    <3>1. o.offset \in 1 .. checkpoint /\ o.predecessor + 1 = o.offset
          /\ o.predecessor \in Nat
      OBVIOUS
    <3>2. CASE o.predecessor = 0
      BY <3>1, <3>2 DEF IsRoot
    <3>3. CASE o.predecessor # 0
      <4>1. o.predecessor \in 1 .. checkpoint
        <5> HIDE DEF TypeOK, Numbered, IInv
        <5>1. checkpoint \in Nat
          BY DEF IInv, TypeOK
        <5> QED
          BY <3>1, <3>3, <5>1
      <4>2. PICK q \in outcomes : q.offset = o.predecessor
        BY <4>1
      <4>3. Follows(o, q)
        BY <4>2 DEF Follows
      <4>4. o.predecessor < o.offset /\ o.offset <= checkpoint
        BY <3>1
      <4> QED
        BY <4>3, <4>4
    <3> QED
      BY <3>2, <3>3
  <2>2. \A o, q \in outcomes : o.predecessor = q.predecessor => o = q
    OBVIOUS
  <2>3. checkpoint # 0 => \E o \in outcomes : o.offset = checkpoint
    OBVIOUS
  <2>4. barrier # NoBarrier => barrier.predecessor = checkpoint
    BY DEF InStep
  <2> QED
    BY <2>1, <2>2, <2>3, <2>4 DEF RowsValid
<1> QED
  BY <1>1, Invariance, PTL DEF ReopenSucceeds

(* A barrier goes away only in the transaction that gives its record an    *)
(* outcome.                                                                *)
THEOREM BarrierStays == Spec => BarrierLiftedByItsOutcome
<1> DEFINE Lifted ==
      barrier # NoBarrier =>
        \/ barrier' = barrier
        \/ /\ barrier' = NoBarrier
           /\ \E o \in outcomes' \ outcomes : o.offset = barrier.offset
           /\ checkpoint' = barrier.offset
<1>1. ASSUME IInv, [Next]_vars PROVE Lifted
  <2>1. ASSUME UNCHANGED barrier PROVE Lifted
    BY <2>1
  <2>2. CASE Process
    <3>1. ASSUME barrier # NoBarrier
          PROVE  \E o \in outcomes' \ outcomes : o.offset = barrier.offset
      <4>1. barrier.offset = checkpoint + 1 /\ record = checkpoint + 1
            /\ checkpoint \in Nat
        BY <1>1, <2>2, <3>1 DEF IInv, InStep, Process, TypeOK
      <4>2. \A o \in outcomes : o.offset # checkpoint + 1
        BY <1>1, <4>1 DEF IInv, Numbered
      <4>3. ASSUME NEW kind, InsertOutcome(kind)
            PROVE  \E o \in outcomes' : o.offset = record
        <5> DEFINE o == [offset |-> record, predecessor |-> checkpoint, kind |-> kind]
        <5>1. o \in outcomes' /\ o.offset = record
          BY <4>3 DEF InsertOutcome
        <5> QED
          BY <5>1
      <4>4. \E o \in outcomes' : o.offset = record
        BY <2>2, <4>3 DEF Process
      <4> QED
        BY <4>1, <4>2, <4>4
    <3> QED
      BY <1>1, <2>2, <3>1 DEF IInv, InStep, Process
  <2>3. CASE Block
    BY <2>3 DEF Block
  <2>4. CASE UNCHANGED vars
    BY <2>1, <2>4 DEF vars, durable
  <2>5. ASSUME NEW m \in Messages, CommitRaw(m) PROVE Lifted
    BY <2>1, <2>5 DEF CommitRaw, durable
  <2>6. ASSUME NEW k \in CandleKeys, Discover(k) PROVE Lifted
    BY <2>1, <2>6 DEF Discover, durable
  <2>7. CASE Open \/ Close \/ CloseFailed \/ Crash
    BY <2>1, <2>7 DEF Open, Close, CloseFailed, Crash, Release, durable
  <2>8. CASE Read \/ Resolve \/ RollBack \/ RollBackFails
    BY <2>1, <2>8 DEF Read, Resolve, RollBack, RollBackFails, durable
  <2> QED
    BY <1>1, <2>2, <2>3, <2>4, <2>5, <2>6, <2>7, <2>8 DEF Next, ProcessNext
<1> QED
  BY <1>1, Invariance, PTL DEF Spec, BarrierLiftedByItsOutcome
=============================================================================
