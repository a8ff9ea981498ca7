--------------------------- MODULE RecoveryProofs ---------------------------
(***************************************************************************)
(* Proofs about Recovery, for every interval, quota, market and number of   *)
(* troubles: no gap is silent, completeness is earned, and a noticed loss   *)
(* stays visible.                                                           *)
(*                                                                          *)
(* The invariant follows the three ledgers apart.  Candles: what lies       *)
(* between the cursor and the live edge is stored or in a span.  Trades:    *)
(* every number from the first to the cursor is, unless the stream was      *)
(* never counted.  Books: a valid one was fed every number.  To it come the *)
(* facts about a session and the page in its hands: that a page is what the *)
(* market had, and that a message was taken once.                           *)
(***************************************************************************)
EXTENDS Recovery, SequenceTheorems, FiniteSetTheorems, WellFoundedInduction, TLAPS

(***************************************************************************)
(* Least elements: every nonempty set of natural numbers has one.           *)
(***************************************************************************)
LessNat == {ss \in Nat \X Nat : ss[1] < ss[2]}

LEMMA LeastNatural ==
  ASSUME NEW T \in SUBSET Nat, T # {}
  PROVE  \E m \in T : \A n \in T : m <= n
<1>1. LessNat = OpToRel(<, Nat)
  BY DEF OpToRel, LessNat
<1>2. IsWellFoundedOn(LessNat, Nat)
  BY <1>1, NatLessThanWellFounded
<1>3. \E x \in T : \A y \in T : <<y, x>> \notin LessNat
  BY <1>2, WFMin
<1>4. PICK m \in T : \A y \in T : <<y, m>> \notin LessNat
  BY <1>3
<1>5. ASSUME NEW n \in T PROVE m <= n
  <2>1. m \in Nat /\ n \in Nat
    OBVIOUS
  <2>2. <<n, m>> \notin LessNat
    BY <1>4
  <2>3. n < m => <<n, m>> \in LessNat
    BY <2>1 DEF LessNat
  <2> QED BY <2>1, <2>2, <2>3
<1> QED BY <1>5

LEMMA MinOfNats ==
  ASSUME NEW T \in SUBSET Nat, T # {}
  PROVE  Min(T) \in T /\ \A n \in T : Min(T) <= n
BY LeastNatural DEF Min

(***************************************************************************)
(* The market: candles are Interval apart.                                  *)
(***************************************************************************)
LEMMA Multiples ==
  ASSUME NEW a \in Nat, NEW b \in Nat
  PROVE  /\ a * Interval \in Nat
         /\ (a + 1) * Interval = a * Interval + Interval
         /\ a <= b => a * Interval <= b * Interval
         /\ a * Interval < b * Interval => a < b
<1>1. Interval \in Nat \ {0}
  BY RecoveryAssumption
<1>2. (a + 1) * Interval = a * Interval + Interval
  BY <1>1
<1>3. a <= b => a * Interval <= b * Interval
  <2> SUFFICES ASSUME a <= b PROVE a * Interval <= b * Interval
    OBVIOUS
  <2> DEFINE k == b - a
  <2>1. k \in Nat /\ b = a + k
    OBVIOUS
  <2>2. b * Interval = a * Interval + k * Interval
    BY <1>1, <2>1
  <2>3. k * Interval \in Nat /\ a * Interval \in Nat
    BY <1>1, <2>1
  <2> QED BY <2>2, <2>3
<1>4. a * Interval < b * Interval => a < b
  <2> SUFFICES ASSUME b <= a PROVE b * Interval <= a * Interval
    BY <1>1
  <2> DEFINE k == a - b
  <2>1. k \in Nat /\ a = b + k
    OBVIOUS
  <2>2. a * Interval = b * Interval + k * Interval
    BY <1>1, <2>1
  <2>3. k * Interval \in Nat /\ b * Interval \in Nat
    BY <1>1, <2>1
  <2> QED BY <2>2, <2>3
<1> QED BY <1>1, <1>2, <1>3, <1>4

LEMMA StartIsTime ==
  ASSUME NEW c \in Starts
  PROVE  c \in Nat /\ c \in Times /\ c + Interval \in Times
<1>1. PICK h \in 0..MaxHead : c = (h \div 2) * Interval
  BY DEF Starts, CandleStart
<1>2. MaxHead \in Nat /\ Interval \in Nat \ {0}
  BY RecoveryAssumption
<1>3. h \div 2 \in Nat /\ h \div 2 <= MaxHead
  BY <1>1, <1>2
<1>4. c \in Nat /\ c <= MaxHead * Interval
  BY <1>1, <1>2, <1>3, Multiples
<1>5. MaxHead * Interval \in Nat /\ (MaxHead + 1) * Interval = MaxHead * Interval + Interval
  BY <1>2, Multiples
<1> QED BY <1>2, <1>4, <1>5 DEF Times

LEMMA StartsApart ==
  ASSUME NEW c \in Starts, NEW d \in Starts, c < d
  PROVE  c + Interval <= d
<1>1. PICK h \in 0..MaxHead : c = (h \div 2) * Interval
  BY DEF Starts, CandleStart
<1>2. PICK k \in 0..MaxHead : d = (k \div 2) * Interval
  BY DEF Starts, CandleStart
<1>3. MaxHead \in Nat /\ Interval \in Nat \ {0}
  BY RecoveryAssumption
<1>4. h \div 2 \in Nat /\ k \div 2 \in Nat
  BY <1>1, <1>2, <1>3
<1>5. h \div 2 < k \div 2
  BY <1>1, <1>2, <1>4, Multiples
<1>6. ((h \div 2) + 1) * Interval <= (k \div 2) * Interval
  BY <1>4, <1>5, Multiples
<1> QED BY <1>1, <1>2, <1>4, <1>6, Multiples

LEMMA CandleStarts ==
  ASSUME NEW h \in 0..MaxHead
  PROVE  CandleStart(h) \in Starts
BY DEF Starts

LEMMA CandleStartMonotone ==
  ASSUME NEW h \in Nat
  PROVE  CandleStart(h) \in Nat /\ CandleStart(h) <= CandleStart(h + 1)
<1>1. h \div 2 \in Nat /\ (h + 1) \div 2 \in Nat /\ h \div 2 <= (h + 1) \div 2
  OBVIOUS
<1> QED BY <1>1, Multiples DEF CandleStart

LEMMA HeadIsTime ==
  ASSUME NEW h \in 0..MaxHead
  PROVE  h \in Times
<1>1. MaxHead \in Nat /\ Interval \in Nat \ {0}
  BY RecoveryAssumption
<1>2. PICK k \in Nat : Interval = k + 1
  <2>1. Interval - 1 \in Nat /\ Interval = (Interval - 1) + 1
    BY <1>1
  <2> QED BY <2>1
<1>3. (MaxHead + 1) * Interval = (MaxHead + 1) * k + (MaxHead + 1)
  BY <1>1, <1>2
<1>4. (MaxHead + 1) * k \in Nat
  BY <1>1, <1>2
<1> QED BY <1>1, <1>3, <1>4 DEF Times

(***************************************************************************)
(* The inductive invariant                                                  *)
(***************************************************************************)
\* Supervision runs over a ledger that was begun, and its tasks are its own.
SessionSound ==
    /\ up # "down" => stored # NewStream
    /\ up = "down" => repair.at = "idle" /\ live # "accepted"
    /\ stored = NewStream => first = None
    /\ repair.at \in {"fetch", "rows"} =>
         /\ family = "candle"
         /\ repair.index \in DOMAIN stored.spans
         /\ stored.spans[repair.index].status = "pending"
         /\ stored.spans[repair.index].end # None

\* What a span says of its candles is in the journal h.
SpanSound(p, h) ==
    /\ p.repaired \subseteq h
    /\ p.status = "complete" => p.end # None /\ Grid(p) \subseteq h

\* The ledger s against the journal h and the first candle observed f.
CandleLedger(s, h, f) ==
    /\ \A i \in DOMAIN s.spans : SpanSound(s.spans[i], h) /\ s.spans[i].status # "unrecoverable"
    /\ s.finals \subseteq h
    /\ f = None => s.last = None
    /\ f # None => /\ f \in Starts /\ s.last # None /\ f <= s.last
                   /\ s.checkpoint <= s.last + Interval
                   /\ s.checkpoint > s.last => s.last \in h
    /\ \A c \in Starts : f # None /\ f <= c =>
         /\ c + Interval <= s.checkpoint => c \in h
         /\ c < s.last => c \in h \/ Outstanding(s, c)

\* Every trade number of the claim is stored or in a span, if the extent of all
\* losses is known.
TradesIn(s, h, f) ==
    Uncounted(s) \/
        \A n \in f..s.sequence :
            \/ n \in h
            \/ \E i \in DOMAIN s.spans : s.spans[i].low <= n /\ n <= s.spans[i].high

TradeLedger(s, h, f, hd) ==
    /\ s.sequence <= hd
    /\ f = None => s.sequence = None
    /\ f # None => f \in Nat
    /\ f # None /\ s.sequence = None => Uncounted(s)
    /\ s.sequence # None => TradesIn(s, h, f)

BookLedger(s, h, f) == s.valid => f \in Nat /\ s.sequence # None /\ f..s.sequence \subseteq h

LedgerSound(fam, s, h, f, hd) ==
    /\ fam = "candle" => /\ CandleLedger(s, h, f)
                         /\ s.last <= CandleStart(hd)
                         /\ f = None => s.checkpoint <= CandleStart(hd)
    /\ fam = "trade" => TradeLedger(s, h, f, hd)
    /\ fam = "book" => BookLedger(s, h, f)

\* A message on its way to the ledger: it is stored if its kind is, and not
\* older than what the ledger knows.
MessageSound(fam, m, s, h, f, hd) ==
    /\ fam = "candle" => /\ m.kind \in {"malformed", "provisional", "final"}
                         /\ m.at \in Starts /\ m.at <= CandleStart(hd)
                         /\ m.kind = "final" => m.at \in h
                         /\ s.last <= m.at
                         /\ f = None => s.checkpoint <= m.at
    /\ fam # "candle" => m.at \in 0..hd
    /\ fam = "trade" => m.kind = "plain" /\ m.at \in h /\ s.sequence <= m.at
    /\ fam = "book" => /\ m.kind \in {"malformed", "delta", "snapshot"}
                       /\ m.kind # "malformed" => m.at \in h
    /\ fam = "other" => m.kind = "plain"

\* The inductive invariant: sessions, the ledger, the page under repair and the
\* message in flight agree with the journal.
RecoveryInv ==
    /\ SessionSound
    /\ stored # NewStream => LedgerSound(family, stored, held, first, head)
    /\ repair.proven \subseteq held /\ repair.finals \subseteq held
    /\ live = "accepted" => MessageSound(family, message, stored, held, first, head)

(***************************************************************************)
(* The ledger's operations: what each does to the fields of a snapshot.     *)
(***************************************************************************)
LEMMA StartsFinite ==
  ASSUME NEW S \in SUBSET Starts
  PROVE  IsFiniteSet(S) /\ Cardinality(S) \in Nat
<1>1. MaxHead \in Nat /\ Interval \in Nat
  BY RecoveryAssumption
<1>2. (MaxHead + 1) * Interval \in Nat
  BY <1>1
<1>3. S \in SUBSET Nat /\ \A c \in S : c <= (MaxHead + 1) * Interval
  BY <1>2, StartIsTime DEF Times
<1> QED BY <1>2, <1>3, FS_BoundedSetOfNaturals, FS_CardinalityType

\* The cache of finalized candles keeps known ones, as many as it may.
LEMMA RecentBounded ==
  ASSUME NEW S \in SUBSET Starts
  PROVE  Recent(S) \subseteq S /\ Cardinality(Recent(S)) <= RepairCandles
<1> DEFINE R == Recent(S)
<1>1. R \subseteq S /\ \A c \in R : Cardinality({d \in S : d > c}) < RepairCandles
  BY DEF Recent
<1>2. R \in SUBSET Starts /\ R \in SUBSET Nat
  BY <1>1, StartIsTime
<1>3. RepairCandles \in Nat \ {0}
  BY RecoveryAssumption
<1>4. ASSUME R # {} PROVE Cardinality(R) <= RepairCandles
  <2>1. PICK m \in R : \A n \in R : m <= n
    BY <1>2, <1>4, LeastNatural
  <2> DEFINE later == {d \in S : d > m}
  <2>2. later \in SUBSET Starts /\ R \ {m} \in SUBSET later
    BY <1>1, <1>2, <2>1
  <2>3. Cardinality(later) < RepairCandles
    BY <1>1, <2>1
  <2>4. IsFiniteSet(later) /\ IsFiniteSet(R)
    BY <1>2, <2>2, StartsFinite
  <2>5. Cardinality(R \ {m}) <= Cardinality(later)
    BY <2>2, <2>4, FS_Subset
  <2>6. Cardinality(R \ {m}) = Cardinality(R) - 1
    BY <2>1, <2>4, FS_RemoveElement
  <2>7. Cardinality(R) \in Nat /\ Cardinality(later) \in Nat
    BY <1>2, <2>2, StartsFinite
  <2> QED BY <1>3, <2>3, <2>5, <2>6, <2>7
<1>5. ASSUME R = {} PROVE Cardinality(R) <= RepairCandles
  BY <1>3, <1>5, FS_EmptySet
<1> QED BY <1>1, <1>4, <1>5

LEMMA SpansOf ==
  ASSUME NEW s \in SnapshotType
  PROVE  /\ Len(s.spans) \in Nat /\ DOMAIN s.spans = 1..Len(s.spans)
         /\ \A i \in DOMAIN s.spans : s.spans[i] \in SpanType
<1>1. s.spans \in Seq(SpanType)
  BY DEF SnapshotType
<1> QED BY <1>1, LenProperties, ElementOfSeq

\* Every span of s is in t, no smaller; only an open one may be changed.
SpansKept(s, t) ==
    \A i \in DOMAIN s.spans :
        /\ i \in DOMAIN t.spans
        /\ t.spans[i].start = s.spans[i].start
        /\ t.spans[i].low = s.spans[i].low /\ t.spans[i].high = s.spans[i].high
        /\ t.spans[i].repaired = s.spans[i].repaired
        /\ s.spans[i].end # None => t.spans[i] = s.spans[i]
        /\ t.spans[i].status = "complete" => s.spans[i].status = "complete"

\* A new span: at the end, and nothing else of the ledger changes.
Lost(s, p) == [s EXCEPT !.valid = FALSE, !.spans = Append(s.spans, p)]

LEMMA LostFields ==
  ASSUME NEW s \in SnapshotType, NEW p \in SpanType
  PROVE  LET t == Lost(s, p)  n == Len(s.spans) + 1
         IN  /\ t \in SnapshotType
             /\ t.checkpoint = s.checkpoint /\ t.last = s.last /\ t.sequence = s.sequence
             /\ t.since = s.since /\ t.finals = s.finals /\ t.valid = FALSE
             /\ n \in Nat /\ Len(t.spans) = n /\ DOMAIN t.spans = 1..n
             /\ DOMAIN s.spans = 1..(n - 1)
             /\ \A i \in DOMAIN s.spans : i \in DOMAIN t.spans /\ t.spans[i] = s.spans[i]
             /\ t.spans[n] = p
<1>1. s.spans \in Seq(SpanType)
  BY DEF SnapshotType
<1>2. /\ Append(s.spans, p) \in Seq(SpanType)
      /\ Len(Append(s.spans, p)) = Len(s.spans) + 1
      /\ \A i \in 1..Len(s.spans) : Append(s.spans, p)[i] = s.spans[i]
      /\ Append(s.spans, p)[Len(s.spans) + 1] = p
  BY <1>1, AppendProperties
<1> DEFINE t == Lost(s, p)
<1>3. t = [s EXCEPT !.valid = FALSE, !.spans = Append(s.spans, p)]
  BY DEF Lost
<1>4. t.spans = Append(s.spans, p) /\ t \in SnapshotType
  BY <1>2, <1>3 DEF SnapshotType
<1>5. /\ t.checkpoint = s.checkpoint /\ t.last = s.last /\ t.sequence = s.sequence
      /\ t.since = s.since /\ t.finals = s.finals /\ t.valid = FALSE
  BY <1>3 DEF SnapshotType
<1>6. Len(t.spans) = Len(s.spans) + 1 /\ DOMAIN t.spans = 1..(Len(s.spans) + 1)
  BY <1>2, <1>4, SpansOf
<1> QED BY <1>2, <1>4, <1>5, <1>6, SpansOf

\* A span without numbers, as candles and losses of unknown extent have.
LEMMA NewSpan ==
  ASSUME NEW start \in Times, NEW end \in Times \union {None}
  PROVE  LET p == Span(start, end, LossStatus(end), None, None)
         IN  /\ p \in SpanType /\ p.start = start /\ p.end = end /\ p.status # "complete"
             /\ p.repaired = {} /\ p.low = None
             /\ family = "candle" => p.status \in {"pending", "unknown"}
<1>1. /\ LossStatus(end) \in Statuses /\ LossStatus(end) # "complete"
      /\ family = "candle" => LossStatus(end) \in {"pending", "unknown"}
  BY DEF LossStatus, Statuses
<1>2. MaxPages \in Nat
  BY RecoveryAssumption
<1> QED BY <1>1, <1>2 DEF Span, SpanType

\* An open span that began before the candle ends at it.
LEMMA CloseFields ==
  ASSUME NEW s \in SnapshotType, NEW start \in Times
  PROVE  LET t == CloseUncertain(s, start)
         IN  /\ t \in SnapshotType
             /\ t.checkpoint = s.checkpoint /\ t.last = s.last /\ t.sequence = s.sequence
             /\ t.since = s.since /\ t.finals = s.finals /\ t.valid = s.valid
             /\ Len(t.spans) = Len(s.spans) /\ DOMAIN t.spans = DOMAIN s.spans
             /\ \A i \in DOMAIN s.spans :
                  IF s.spans[i].end = None /\ start > s.spans[i].start
                  THEN /\ t.spans[i].start = s.spans[i].start
                       /\ t.spans[i].end = start /\ t.spans[i].status = "pending"
                       /\ t.spans[i].low = s.spans[i].low /\ t.spans[i].high = s.spans[i].high
                       /\ t.spans[i].repaired = s.spans[i].repaired
                  ELSE t.spans[i] = s.spans[i]
<1> DEFINE f == [i \in DOMAIN s.spans |->
                  IF s.spans[i].end = None /\ start > s.spans[i].start
                  THEN [s.spans[i] EXCEPT !.end = start, !.status = "pending"]
                  ELSE s.spans[i]]
           t == CloseUncertain(s, start)
<1>1. Len(s.spans) \in Nat /\ DOMAIN s.spans = 1..Len(s.spans)
  BY SpansOf
<1>2. ASSUME NEW i \in DOMAIN s.spans
      PROVE  /\ f[i] \in SpanType
             /\ IF s.spans[i].end = None /\ start > s.spans[i].start
                THEN /\ f[i].start = s.spans[i].start
                     /\ f[i].end = start /\ f[i].status = "pending"
                     /\ f[i].low = s.spans[i].low /\ f[i].high = s.spans[i].high
                     /\ f[i].repaired = s.spans[i].repaired
                ELSE f[i] = s.spans[i]
  <2> DEFINE p == s.spans[i]
  <2>1. p \in SpanType
    BY SpansOf
  <2>2. f[i] = IF p.end = None /\ start > p.start
               THEN [p EXCEPT !.end = start, !.status = "pending"] ELSE p
    OBVIOUS
  <2> HIDE DEF p, f
  <2> QED BY <2>1, <2>2 DEF SpanType, Statuses, p
<1>3. f \in [1..Len(s.spans) -> SpanType]
  BY <1>1, <1>2
<1> HIDE DEF f
<1>4. f \in Seq(SpanType) /\ Len(f) = Len(s.spans) /\ DOMAIN f = DOMAIN s.spans
  <2>1. f \in Seq(SpanType)
    BY <1>1, <1>3, SeqDef
  <2>2. Len(f) \in Nat /\ DOMAIN f = 1..Len(f)
    BY <2>1, LenProperties
  <2> QED BY <1>1, <1>3, <2>1, <2>2
<1>5. t = [s EXCEPT !.spans = f]
  BY DEF CloseUncertain, f
<1>6. t.spans = f /\ t \in SnapshotType
  BY <1>4, <1>5 DEF SnapshotType
<1>7. /\ t.checkpoint = s.checkpoint /\ t.last = s.last /\ t.sequence = s.sequence
      /\ t.since = s.since /\ t.finals = s.finals /\ t.valid = s.valid
  BY <1>5 DEF SnapshotType
<1> QED BY <1>2, <1>4, <1>6, <1>7

LEMMA CloseKeeps ==
  ASSUME NEW s \in SnapshotType, NEW start \in Times
  PROVE  SpansKept(s, CloseUncertain(s, start))
BY CloseFields DEF SpansKept

\* The checkpoint never moves back, nor past the candle or an unresolved span.
LEMMA FinalizeFields ==
  ASSUME NEW s \in SnapshotType, NEW start \in Starts
  PROVE  LET t == Finalize(s, start)
         IN  /\ t \in SnapshotType
             /\ t.last = s.last /\ t.spans = s.spans
             /\ t.finals \subseteq s.finals \union {start}
             /\ Cardinality(t.finals) <= RepairCandles
             /\ \/ t.checkpoint = s.checkpoint
                \/ /\ t.checkpoint <= start + Interval
                   /\ \A i \in Unresolved(s) : t.checkpoint <= s.spans[i].start
<1> DEFINE T == {start + Interval} \union {s.spans[i].start : i \in Unresolved(s)}
           t == Finalize(s, start)
<1>1. start \in Nat /\ start + Interval \in Times
  BY StartIsTime
<1>2. \A i \in Unresolved(s) : i \in DOMAIN s.spans /\ s.spans[i].start \in Times
  BY SpansOf DEF Unresolved, SpanType
<1>3. T \in SUBSET Nat /\ T \in SUBSET Times /\ T # {}
  BY <1>1, <1>2 DEF Times
<1>4. Min(T) \in Times /\ \A x \in T : Min(T) <= x
  BY <1>3, MinOfNats
<1>5. s.finals \union {start} \in SUBSET Starts
  BY DEF SnapshotType
<1>6. /\ Recent(s.finals \union {start}) \subseteq s.finals \union {start}
      /\ Cardinality(Recent(s.finals \union {start})) <= RepairCandles
  BY <1>5, RecentBounded
<1>7. t = [s EXCEPT !.checkpoint = IF Min(T) > s.checkpoint THEN Min(T) ELSE s.checkpoint,
                    !.finals = Recent(s.finals \union {start})]
  BY DEF Finalize
<1> HIDE DEF T, t
<1>8. t \in SnapshotType
  BY <1>4, <1>5, <1>6, <1>7 DEF SnapshotType
<1>9. t.last = s.last /\ t.spans = s.spans /\ t.finals = Recent(s.finals \union {start})
  BY <1>7 DEF SnapshotType
<1>10. t.checkpoint = s.checkpoint \/ t.checkpoint = Min(T)
  BY <1>7 DEF SnapshotType
<1>11. Min(T) <= start + Interval /\ \A i \in Unresolved(s) : Min(T) <= s.spans[i].start
  BY <1>4 DEF T
<1> QED BY <1>6, <1>8, <1>9, <1>10, <1>11 DEF t

\* Only the span named is replaced.
LEMMA WithSpanFields ==
  ASSUME NEW s \in SnapshotType, NEW i \in DOMAIN s.spans, NEW p \in SpanType
  PROVE  LET t == WithSpan(s, i, p)
         IN  /\ t \in SnapshotType
             /\ t.checkpoint = s.checkpoint /\ t.last = s.last /\ t.sequence = s.sequence
             /\ t.since = s.since /\ t.finals = s.finals /\ t.valid = s.valid
             /\ Len(t.spans) = Len(s.spans) /\ DOMAIN t.spans = DOMAIN s.spans
             /\ \A j \in DOMAIN s.spans : t.spans[j] = IF j = i THEN p ELSE s.spans[j]
<1> DEFINE f == [s.spans EXCEPT ![i] = p]
           t == WithSpan(s, i, p)
<1>1. s.spans \in Seq(SpanType) /\ DOMAIN s.spans = 1..Len(s.spans)
  BY SpansOf DEF SnapshotType
<1>2. /\ f \in Seq(SpanType) /\ Len(f) = Len(s.spans)
      /\ \A j \in DOMAIN s.spans : f[j] = IF j = i THEN p ELSE s.spans[j]
  BY <1>1, ExceptSeq
<1>3. DOMAIN f = DOMAIN s.spans
  OBVIOUS
<1> HIDE DEF f
<1>4. t = [s EXCEPT !.spans = f]
  BY DEF WithSpan, f
<1>5. t.spans = f /\ t \in SnapshotType
  BY <1>2, <1>4 DEF SnapshotType
<1>6. /\ t.checkpoint = s.checkpoint /\ t.last = s.last /\ t.sequence = s.sequence
      /\ t.since = s.since /\ t.finals = s.finals /\ t.valid = s.valid
  BY <1>4 DEF SnapshotType
<1> QED BY <1>2, <1>3, <1>5, <1>6

LEMMA BegunFields ==
  ASSUME NEW s \in SnapshotType
  PROVE  LET t == Begun(s)
         IN  /\ t \in SnapshotType
             /\ t.checkpoint = s.checkpoint /\ t.last = s.last /\ t.finals = s.finals
             /\ t.sequence = None /\ t.valid = FALSE
             /\ Len(s.spans) < SpanLimit => Len(t.spans) < SpanLimit
             /\ SpansKept(s, t)
             /\ \A i \in DOMAIN s.spans : t.spans[i] = s.spans[i]
             /\ \A i \in DOMAIN t.spans \ DOMAIN s.spans :
                  t.spans[i] = Span(s.checkpoint, None, "unknown", None, None)
             /\ Uncounted(t)
<1> DEFINE p == Span(s.checkpoint, None, "unknown", None, None)
           t == Begun(s)
<1>1. /\ s.spans \in Seq(SpanType) /\ DOMAIN s.spans = 1..Len(s.spans) /\ Len(s.spans) \in Nat
      /\ s.checkpoint \in Times /\ s.since \in Times \union {None}
  BY SpansOf DEF SnapshotType
<1>2. MaxPages \in Nat /\ MaxHead \in Nat /\ SpanLimit \in Nat
  BY RecoveryAssumption
<1>3. p \in SpanType /\ p.low = None
  BY <1>1, <1>2 DEF Span, SpanType, Statuses
<1>4. CASE HasRoom(s)
  <2>1. /\ Append(s.spans, p) \in Seq(SpanType)
        /\ Len(Append(s.spans, p)) = Len(s.spans) + 1
        /\ \A i \in 1..Len(s.spans) : Append(s.spans, p)[i] = s.spans[i]
        /\ Append(s.spans, p)[Len(s.spans) + 1] = p
    BY <1>1, <1>3, AppendProperties
  <2> HIDE DEF p
  <2>2. t = [[s EXCEPT !.valid = FALSE, !.sequence = None] EXCEPT !.spans = Append(s.spans, p)]
    BY <1>4 DEF Begun, p, SnapshotType
  <2>3. t \in SnapshotType /\ t.spans = Append(s.spans, p)
    BY <2>1, <2>2 DEF SnapshotType
  <2>4. /\ t.checkpoint = s.checkpoint /\ t.last = s.last /\ t.finals = s.finals
        /\ t.sequence = None /\ t.valid = FALSE
    BY <2>2 DEF SnapshotType
  <2>5. Len(t.spans) < SpanLimit
    BY <1>1, <1>2, <1>4, <2>1, <2>3 DEF HasRoom
  <2>6. DOMAIN t.spans = 1..(Len(s.spans) + 1)
    BY <2>1, <2>3, SpansOf
  <2>7. \A i \in DOMAIN s.spans : i \in DOMAIN t.spans /\ t.spans[i] = s.spans[i]
    BY <1>1, <2>1, <2>3, <2>6
  <2>8. \A i \in DOMAIN t.spans \ DOMAIN s.spans : t.spans[i] = p
    BY <1>1, <2>1, <2>3, <2>6
  <2>9. Uncounted(t)
    BY <1>1, <1>3, <2>1, <2>3, <2>6 DEF Uncounted
  <2> QED BY <2>3, <2>4, <2>5, <2>7, <2>8, <2>9 DEF SpansKept, p
<1>5. CASE ~HasRoom(s)
  <2> DEFINE since == IF s.since = None THEN s.checkpoint ELSE Min({s.since, s.checkpoint})
  <2>1. since \in Times /\ since # None
    <3>1. CASE s.since = None
      BY <1>1, <3>1 DEF Times, None
    <3>2. CASE s.since # None
      <4>1. {s.since, s.checkpoint} \in SUBSET Nat
        BY <1>1, <3>2 DEF Times
      <4>2. Min({s.since, s.checkpoint}) \in {s.since, s.checkpoint}
        BY <4>1, MinOfNats
      <4> QED BY <1>1, <3>2, <4>2 DEF Times, None
    <3> QED BY <3>1, <3>2
  <2> HIDE DEF since
  <2>2. t = [[s EXCEPT !.valid = FALSE, !.sequence = None] EXCEPT !.since = since]
    BY <1>5 DEF Begun, since, SnapshotType
  <2>3. t \in SnapshotType /\ t.spans = s.spans /\ t.since = since
    BY <2>1, <2>2 DEF SnapshotType
  <2>4. /\ t.checkpoint = s.checkpoint /\ t.last = s.last /\ t.finals = s.finals
        /\ t.sequence = None /\ t.valid = FALSE
    BY <2>2 DEF SnapshotType
  <2> QED BY <2>1, <2>3, <2>4 DEF SpansKept, Uncounted
<1> QED BY <1>4, <1>5

(***************************************************************************)
(* The ledger of a stream of candles.                                       *)
(***************************************************************************)
LEMMA JournalGrows ==
  ASSUME NEW s, NEW h, NEW g, NEW f, h \subseteq g, CandleLedger(s, h, f)
  PROVE  CandleLedger(s, g, f)
BY DEF CandleLedger, SpanSound

LEMMA CandleLoss ==
  ASSUME NEW s \in SnapshotType, NEW h, NEW f, CandleLedger(s, h, f),
         NEW p \in SpanType, p.repaired = {}, p.status \in {"pending", "unknown"}
  PROVE  CandleLedger(Lost(s, p), h, f)
<1> DEFINE t == Lost(s, p)  n == Len(s.spans) + 1
<1>1. /\ t.checkpoint = s.checkpoint /\ t.last = s.last /\ t.finals = s.finals
      /\ DOMAIN t.spans = 1..n /\ DOMAIN s.spans = 1..(n - 1) /\ n \in Nat
      /\ \A i \in DOMAIN s.spans : i \in DOMAIN t.spans /\ t.spans[i] = s.spans[i]
      /\ t.spans[n] = p
  BY LostFields
<1> HIDE DEF t
<1>2. SpanSound(t.spans[n], h) /\ t.spans[n].status # "unrecoverable"
  BY <1>1 DEF SpanSound
<1>3. \A c \in Starts : Outstanding(s, c) => Outstanding(t, c)
  BY <1>1 DEF Outstanding, Unresolved
<1>4. \A i \in DOMAIN t.spans : SpanSound(t.spans[i], h) /\ t.spans[i].status # "unrecoverable"
  <2> SUFFICES ASSUME NEW i \in DOMAIN t.spans
               PROVE  SpanSound(t.spans[i], h) /\ t.spans[i].status # "unrecoverable"
    OBVIOUS
  <2>1. CASE i = n
    BY <2>1, <1>2
  <2>2. CASE i # n
    <3>1. i \in DOMAIN s.spans
      BY <1>1, <2>2
    <3> QED BY <3>1, <1>1 DEF CandleLedger
  <2> QED BY <2>1, <2>2
<1>5. CandleLedger(t, h, f)
  BY <1>1, <1>3, <1>4 DEF CandleLedger
<1> QED BY <1>5 DEF t

LEMMA CandleClose ==
  ASSUME NEW s \in SnapshotType, NEW h, NEW f, CandleLedger(s, h, f),
         NEW start \in Starts, s.last <= start
  PROVE  CandleLedger(CloseUncertain(s, start), h, f)
<1> DEFINE t == CloseUncertain(s, start)
<1>0. start \in Times /\ start \in Nat /\ start # None
  BY StartIsTime DEF None
<1>1. /\ t.checkpoint = s.checkpoint /\ t.last = s.last /\ t.finals = s.finals
      /\ DOMAIN t.spans = DOMAIN s.spans
  BY <1>0, CloseFields
<1>2. ASSUME NEW i \in DOMAIN s.spans
      PROVE IF s.spans[i].end = None /\ start > s.spans[i].start
            THEN /\ t.spans[i].start = s.spans[i].start
                 /\ t.spans[i].end = start /\ t.spans[i].status = "pending"
                 /\ t.spans[i].repaired = s.spans[i].repaired
            ELSE t.spans[i] = s.spans[i]
  BY <1>0, CloseFields
<1> HIDE DEF t
<1>3. \A i \in DOMAIN t.spans : SpanSound(t.spans[i], h) /\ t.spans[i].status # "unrecoverable"
  BY <1>1, <1>2 DEF CandleLedger, SpanSound
<1>4. ASSUME NEW c \in Starts, c < s.last, Outstanding(s, c) PROVE Outstanding(t, c)
  <2>1. PICK i \in DOMAIN s.spans :
           /\ s.spans[i].status # "complete" /\ s.spans[i].start <= c
           /\ s.spans[i].end = None \/ c < s.spans[i].end
    BY <1>4 DEF Outstanding, Unresolved
  <2>2. c < start /\ c \in Nat
    <3>1. s.last \in Int
      BY StartIsTime DEF SnapshotType, None
    <3>2. c \in Nat
      BY StartIsTime
    <3> QED BY <1>0, <1>4, <3>1, <3>2
  <2>3. s.spans[i].start \in Nat
    BY SpansOf DEF SpanType, Times
  <2>4. i \in DOMAIN t.spans /\ t.spans[i].status # "complete" /\ t.spans[i].start <= c
    BY <1>1, <1>2, <2>1
  <2>5. t.spans[i].end = None \/ c < t.spans[i].end
    BY <1>0, <1>2, <2>1, <2>2, <2>3
  <2> QED BY <2>4, <2>5 DEF Outstanding, Unresolved
<1>5. CandleLedger(t, h, f)
  BY <1>1, <1>3, <1>4 DEF CandleLedger
<1> QED BY <1>5 DEF t

\* The pieces ObservedCandle is made of.
Marked(s, start) ==
    LET closed == CloseUncertain(s, start)
    IN  IF GapFound(s, start) THEN Loss(closed, MissingStart(closed, s.last), start, None, None)
        ELSE closed

Latest(m, start) == [m EXCEPT !.last = IF start > @ THEN start ELSE @]

LEMMA ObservedCandleIs ==
  ASSUME NEW s, NEW start, NEW final
  PROVE  ObservedCandle(s, start, final) =
           IF final THEN Finalize(Latest(Marked(s, start), start), start)
           ELSE Latest(Marked(s, start), start)
BY DEF ObservedCandle, Marked, Latest

LEMMA LastIsInt ==
  ASSUME NEW s \in SnapshotType
  PROVE  s.last \in Int /\ (s.last # None => s.last \in Starts /\ s.last \in Nat)
<1>1. s.last \in Starts \union {None}
  BY DEF SnapshotType
<1> QED BY <1>1, StartIsTime DEF None

\* A candle that skips others leaves a span over them, or meets one that is there.
LEMMA MarkedFields ==
  ASSUME NEW s \in SnapshotType, NEW h, NEW f, CandleLedger(s, h, f), family = "candle",
         NEW start \in Starts, s.last <= start
  PROVE  LET m == Marked(s, start)
         IN  /\ m \in SnapshotType
             /\ m.checkpoint = s.checkpoint /\ m.last = s.last /\ m.finals = s.finals
             /\ CandleLedger(m, h, f)
             /\ SpansKept(s, m)
             /\ Len(m.spans) <= Len(s.spans) + 1
             /\ ~GapFound(s, start) => Len(m.spans) = Len(s.spans)
             /\ \A c \in Starts : f # None /\ s.last <= c /\ c < start => c \in h \/ Outstanding(m, c)
<1> DEFINE closed == CloseUncertain(s, start)
           missing == MissingStart(closed, s.last)
           p == Span(missing, start, LossStatus(start), None, None)
           m == Marked(s, start)
<1>1. start \in Times /\ start \in Nat /\ start # None /\ Interval \in Nat \ {0}
  BY StartIsTime, RecoveryAssumption DEF None
<1>2. /\ closed \in SnapshotType /\ closed.checkpoint = s.checkpoint /\ closed.last = s.last
      /\ closed.finals = s.finals /\ Len(closed.spans) = Len(s.spans)
      /\ DOMAIN closed.spans = DOMAIN s.spans
  BY <1>1, CloseFields
<1>3. CandleLedger(closed, h, f) /\ SpansKept(s, closed)
  BY <1>1, CandleClose, CloseKeeps
<1>4. s.checkpoint \in Times /\ s.last \in Int
  BY LastIsInt DEF SnapshotType
<1>5. missing = IF s.checkpoint <= s.last THEN s.last ELSE s.last + Interval
  BY <1>2 DEF MissingStart
<1>6. s.last # None => missing \in Times /\ missing \in Nat
  BY <1>5, LastIsInt, StartIsTime DEF Times
<1>7. ASSUME f # None, NEW c \in Starts, s.last <= c, c < missing PROVE c \in h
  <2>1. s.last \in Starts /\ s.checkpoint > s.last => s.last \in h
    BY <1>7, LastIsInt DEF CandleLedger
  <2>2. c \in Nat /\ s.last \in Starts
    BY <1>7, StartIsTime, LastIsInt DEF CandleLedger
  <2>3. ~(s.checkpoint <= s.last) /\ c < s.last + Interval
    BY <1>4, <1>5, <1>7, <2>2
  <2>4. c = s.last
    BY <1>1, <1>4, <1>7, <2>2, <2>3, StartsApart
  <2>5. s.checkpoint > s.last
    BY <1>4, <2>3 DEF Times
  <2> QED BY <2>1, <2>2, <2>4, <2>5
<1>8. CASE GapFound(s, start)
  <2>1. s.last # None /\ start > missing
    BY <1>8 DEF GapFound, GapAt
  <2>2. missing \in Times /\ missing \in Nat
    BY <1>6, <2>1
  <2>3. /\ p \in SpanType /\ p.start = missing /\ p.end = start /\ p.status # "complete"
        /\ p.repaired = {} /\ p.status \in {"pending", "unknown"}
    BY <1>1, <2>2, NewSpan
  <2> HIDE DEF p, closed, missing
  <2>4. m = Lost(closed, p)
    BY <1>8 DEF Marked, Loss, Lost, p, closed, missing
  <2> HIDE DEF m
  <2>5. /\ m \in SnapshotType /\ m.checkpoint = s.checkpoint /\ m.last = s.last /\ m.finals = s.finals
        /\ Len(m.spans) = Len(s.spans) + 1 /\ DOMAIN m.spans = 1..(Len(s.spans) + 1)
        /\ Len(s.spans) + 1 \in Nat
        /\ m.spans[Len(s.spans) + 1] = p
        /\ \A i \in DOMAIN s.spans : i \in DOMAIN m.spans /\ m.spans[i] = closed.spans[i]
    <3>1. /\ m \in SnapshotType /\ m.checkpoint = closed.checkpoint /\ m.last = closed.last
          /\ m.finals = closed.finals
          /\ Len(m.spans) = Len(closed.spans) + 1 /\ DOMAIN m.spans = 1..(Len(closed.spans) + 1)
          /\ Len(closed.spans) + 1 \in Nat
          /\ m.spans[Len(closed.spans) + 1] = p
          /\ \A i \in DOMAIN closed.spans : i \in DOMAIN m.spans /\ m.spans[i] = closed.spans[i]
      BY <1>2, <2>3, <2>4, LostFields
    <3> QED BY <1>2, <3>1
  <2>6. CandleLedger(m, h, f)
    BY <1>2, <1>3, <2>3, <2>4, CandleLoss
  <2>7. SpansKept(s, m)
    BY <1>3, <2>5 DEF SpansKept
  <2>8. ASSUME f # None, NEW c \in Starts, s.last <= c, c < start PROVE c \in h \/ Outstanding(m, c)
    <3>1. CASE c < missing
      BY <1>7, <2>8, <3>1
    <3>2. CASE ~(c < missing)
      <4>1. c \in Nat
        BY StartIsTime
      <4>2. /\ Len(s.spans) + 1 \in DOMAIN m.spans
            /\ m.spans[Len(s.spans) + 1].status # "complete"
            /\ m.spans[Len(s.spans) + 1].start <= c /\ c < m.spans[Len(s.spans) + 1].end
        BY <2>2, <2>3, <2>5, <2>8, <3>2, <4>1, SpansOf
      <4> QED BY <4>2 DEF Outstanding, Unresolved
    <3> QED BY <3>1, <3>2
  <2>9. Len(m.spans) <= Len(s.spans) + 1
    BY <2>5
  <2> QED BY <1>8, <2>5, <2>6, <2>7, <2>8, <2>9 DEF m
<1>9. CASE ~GapFound(s, start)
  <2>1. m = closed
    BY <1>9 DEF Marked
  <2>2. ASSUME f # None, NEW c \in Starts, s.last <= c, c < start
        PROVE  c \in h \/ Outstanding(closed, c)
    <3>1. CASE c < missing
      BY <1>7, <2>2, <3>1
    <3>2. CASE ~(c < missing)
      <4>1. c \in Nat /\ s.last # None /\ missing \in Nat
        BY <1>6, <2>2, StartIsTime DEF CandleLedger
      <4>2. start > missing
        BY <1>1, <2>2, <3>2, <4>1
      <4>3. PICK i \in DOMAIN closed.spans :
              closed.spans[i].start <= missing /\ closed.spans[i].end # None /\ closed.spans[i].end >= start
        BY <1>9, <4>1, <4>2 DEF GapFound, GapAt
      <4>4. closed.spans[i] \in SpanType
        BY <1>2, SpansOf
      <4>5. closed.spans[i].start <= c /\ c < closed.spans[i].end
        BY <1>1, <2>2, <3>2, <4>1, <4>3, <4>4 DEF SpanType, Times
      <4>6. CASE closed.spans[i].status = "complete"
        <5>1. Grid(closed.spans[i]) \subseteq h
          BY <1>3, <4>6 DEF CandleLedger, SpanSound
        <5> QED BY <4>5, <5>1 DEF Grid
      <4>7. CASE closed.spans[i].status # "complete"
        BY <4>5, <4>7 DEF Outstanding, Unresolved
      <4> QED BY <4>6, <4>7
    <3> QED BY <3>1, <3>2
  <2>3. Len(s.spans) <= Len(s.spans) + 1
    BY SpansOf
  <2> HIDE DEF closed, m
  <2> QED BY <1>2, <1>3, <1>9, <2>1, <2>2, <2>3 DEF m
<1> QED BY <1>8, <1>9

\* Once observed, a candle is the last one, and everything skipped is recorded.
LEMMA LatestSound ==
  ASSUME NEW s \in SnapshotType, NEW h, NEW f, CandleLedger(s, h, f), family = "candle",
         NEW start \in Starts, s.last <= start, f = None => s.checkpoint <= start
  PROVE  LET t == Latest(Marked(s, start), start)
         IN  /\ t \in SnapshotType /\ t.last = start /\ t.spans = Marked(s, start).spans
             /\ t.finals = s.finals /\ t.checkpoint = s.checkpoint
             /\ CandleLedger(t, h, IF f = None THEN start ELSE f)
<1> DEFINE m == Marked(s, start)  t == Latest(m, start)  g == IF f = None THEN start ELSE f
<1>1. /\ m \in SnapshotType
      /\ m.checkpoint = s.checkpoint /\ m.last = s.last /\ m.finals = s.finals
      /\ CandleLedger(m, h, f)
      /\ \A c \in Starts : f # None /\ s.last <= c /\ c < start => c \in h \/ Outstanding(m, c)
  BY MarkedFields
<1>2. start \in Nat /\ start # None /\ Interval \in Nat \ {0} /\ s.last \in Int /\ s.checkpoint \in Nat
  BY StartIsTime, RecoveryAssumption, LastIsInt DEF None, SnapshotType, Times
<1> HIDE DEF m
<1>3. t \in SnapshotType /\ t.spans = m.spans /\ t.finals = s.finals /\ t.checkpoint = s.checkpoint
  BY <1>1 DEF Latest, SnapshotType
<1>4. t.last = start
  BY <1>1, <1>2 DEF Latest, SnapshotType
<1> HIDE DEF t
<1>5. \A c \in Starts : Outstanding(m, c) <=> Outstanding(t, c)
  BY <1>3 DEF Outstanding, Unresolved
<1>6. \A i \in DOMAIN t.spans : SpanSound(t.spans[i], h) /\ t.spans[i].status # "unrecoverable"
  BY <1>1, <1>3 DEF CandleLedger
<1>7. t.finals \subseteq h
  BY <1>1, <1>3 DEF CandleLedger
<1>8. CASE f = None
  <2>1. t.checkpoint <= t.last + Interval /\ ~(t.checkpoint > t.last)
    BY <1>2, <1>3, <1>4, <1>8
  <2>2. \A c \in Starts : start <= c => ~(c + Interval <= t.checkpoint) /\ ~(c < t.last)
    <3> SUFFICES ASSUME NEW c \in Starts, start <= c
                 PROVE  ~(c + Interval <= t.checkpoint) /\ ~(c < t.last)
      OBVIOUS
    <3>1. c \in Nat
      BY StartIsTime
    <3> QED BY <1>2, <1>3, <1>4, <1>8, <3>1
  <2>3. CandleLedger(t, h, start)
    BY <1>2, <1>4, <1>6, <1>7, <2>1, <2>2 DEF CandleLedger
  <2> QED BY <1>3, <1>4, <1>8, <2>3 DEF t, m
<1>9. CASE f # None
  <2>1. /\ f \in Starts /\ s.last \in Starts /\ f <= s.last /\ s.checkpoint <= s.last + Interval
        /\ s.checkpoint > s.last => s.last \in h
    BY <1>1, <1>9, LastIsInt DEF CandleLedger
  <2>2. f \in Nat /\ f <= start
    BY <1>2, <2>1, StartIsTime
  <2>3. t.checkpoint <= t.last + Interval
    BY <1>2, <1>3, <1>4, <2>1
  <2>4. t.checkpoint > t.last => t.last \in h
    <3>1. CASE s.last = start
      BY <1>3, <1>4, <2>1, <3>1
    <3>2. CASE s.last # start
      <4>1. s.last + Interval <= start
        BY <1>2, <2>1, <3>2, StartsApart
      <4> QED BY <1>2, <1>3, <1>4, <2>1, <4>1
    <3> QED BY <3>1, <3>2
  <2>5. \A c \in Starts : f <= c /\ c + Interval <= t.checkpoint => c \in h
    BY <1>1, <1>3, <1>9 DEF CandleLedger
  <2>6. ASSUME NEW c \in Starts, f <= c, c < t.last PROVE c \in h \/ Outstanding(t, c)
    <3>1. c \in Nat
      BY StartIsTime
    <3>2. CASE c < s.last
      BY <1>1, <1>5, <1>9, <2>6, <3>2 DEF CandleLedger
    <3>3. CASE s.last <= c
      BY <1>1, <1>4, <1>5, <1>9, <2>6, <3>3
    <3> QED BY <1>2, <3>1, <3>2, <3>3
  <2>7. CandleLedger(t, h, f)
    BY <1>2, <1>4, <1>6, <1>7, <1>9, <2>1, <2>2, <2>3, <2>4, <2>5, <2>6 DEF CandleLedger
  <2> QED BY <1>3, <1>4, <1>9, <2>7 DEF t, m
<1> QED BY <1>8, <1>9

\* The lemma the checkpoint stands on: it may pass a candle only when nothing
\* unresolved lies before it.
LEMMA CandleObserved ==
  ASSUME NEW s \in SnapshotType, NEW h, NEW f, CandleLedger(s, h, f), family = "candle",
         NEW start \in Starts, s.last <= start, f = None => s.checkpoint <= start,
         NEW final \in BOOLEAN, final => start \in h,
         Cardinality(s.finals) <= RepairCandles
  PROVE  LET t == ObservedCandle(s, start, final)
         IN  /\ t \in SnapshotType /\ t.last = start
             /\ CandleLedger(t, h, IF f = None THEN start ELSE f)
             /\ SpansKept(s, t)
             /\ Len(t.spans) <= Len(s.spans) + 1
             /\ ~GapFound(s, start) => Len(t.spans) = Len(s.spans)
             /\ Cardinality(t.finals) <= RepairCandles
<1> DEFINE m == Marked(s, start)  l == Latest(m, start)  t == ObservedCandle(s, start, final)
           g == IF f = None THEN start ELSE f
<1>1. /\ l \in SnapshotType /\ l.last = start /\ l.spans = m.spans
      /\ l.finals = s.finals /\ l.checkpoint = s.checkpoint
      /\ CandleLedger(l, h, g)
  BY LatestSound
<1>2. /\ SpansKept(s, m) /\ Len(m.spans) <= Len(s.spans) + 1
      /\ ~GapFound(s, start) => Len(m.spans) = Len(s.spans)
  BY MarkedFields
<1>3. SpansKept(s, l)
  BY <1>1, <1>2 DEF SpansKept
<1>4. t = IF final THEN Finalize(l, start) ELSE l
  BY ObservedCandleIs
<1>5. CASE ~final
  <2>1. t = l
    BY <1>4, <1>5
  <2> HIDE DEF l, t, m
  <2> QED BY <1>1, <1>2, <1>3, <2>1 DEF t
<1>6. CASE final
  <2> HIDE DEF l, m
  <2>1. t = Finalize(l, start)
    BY <1>4, <1>6
  <2> HIDE DEF t
  <2>2. /\ t \in SnapshotType /\ t.last = start /\ t.spans = m.spans
        /\ t.finals \subseteq l.finals \union {start}
        /\ Cardinality(t.finals) <= RepairCandles
        /\ \/ t.checkpoint = l.checkpoint
           \/ /\ t.checkpoint <= start + Interval
              /\ \A i \in Unresolved(l) : t.checkpoint <= l.spans[i].start
    BY <1>1, <2>1, FinalizeFields
  <2>3. /\ start \in Nat /\ start # None /\ Interval \in Nat \ {0} /\ t.checkpoint \in Nat
        /\ start \in h
    BY <1>6, <2>2, StartIsTime, RecoveryAssumption DEF None, SnapshotType, Times
  <2>4. /\ g # None /\ g \in Starts /\ g <= start /\ l.checkpoint <= start + Interval
        /\ \A c \in Starts : g <= c =>
             /\ c + Interval <= l.checkpoint => c \in h
             /\ c < start => c \in h \/ Outstanding(l, c)
    <3>1. g # None
      BY <1>1, <2>3 DEF CandleLedger
    <3> QED BY <1>1, <3>1 DEF CandleLedger
  <2> HIDE DEF g
  <2>5. \A c \in Starts : Outstanding(l, c) <=> Outstanding(t, c)
    BY <1>1, <2>2 DEF Outstanding, Unresolved
  <2>6. ASSUME NEW c \in Starts, g <= c, c + Interval <= t.checkpoint PROVE c \in h
    <3>1. CASE t.checkpoint = l.checkpoint
      BY <2>4, <2>6, <3>1
    <3>2. CASE /\ t.checkpoint <= start + Interval
               /\ \A i \in Unresolved(l) : t.checkpoint <= l.spans[i].start
      <4>1. c \in Nat /\ c <= start
        <5>1. c \in Nat
          BY StartIsTime
        <5> QED BY <2>3, <2>6, <3>2, <5>1
      <4>2. CASE c = start
        BY <2>3, <4>2
      <4>3. CASE c < start
        <5>1. ASSUME Outstanding(l, c) PROVE FALSE
          <6>1. PICK i \in Unresolved(l) : l.spans[i].start <= c
            BY <5>1 DEF Outstanding
          <6>2. t.checkpoint <= l.spans[i].start
            BY <3>2, <6>1
          <6>3. l.spans[i].start \in Nat
            BY <1>1, <6>1, SpansOf DEF Unresolved, SpanType, Times
          <6> QED BY <2>3, <2>6, <4>1, <6>1, <6>2, <6>3
        <5> QED BY <2>4, <2>6, <4>3, <5>1
      <4> QED BY <2>3, <4>1, <4>2, <4>3
    <3> QED BY <2>2, <3>1, <3>2
  <2>7. \A c \in Starts : g <= c /\ c < t.last => c \in h \/ Outstanding(t, c)
    BY <2>2, <2>4, <2>5
  <2>8. t.checkpoint <= t.last + Interval /\ t.last # None /\ t.last \in h
    BY <2>2, <2>3, <2>4
  <2>9. \A i \in DOMAIN t.spans : SpanSound(t.spans[i], h) /\ t.spans[i].status # "unrecoverable"
    BY <1>1, <2>2 DEF CandleLedger
  <2>10. t.finals \subseteq h
    BY <1>1, <2>2, <2>3 DEF CandleLedger
  <2>11. CandleLedger(t, h, g)
    BY <2>2, <2>4, <2>6, <2>7, <2>8, <2>9, <2>10 DEF CandleLedger
  <2>12. SpansKept(s, t)
    BY <1>1, <1>3, <2>2 DEF SpansKept
  <2> QED BY <1>2, <2>2, <2>11, <2>12 DEF t, g
<1> QED BY <1>5, <1>6

\* A span may change what it says, not what it covers.
LEMMA CandleReplace ==
  ASSUME NEW s \in SnapshotType, NEW h, NEW f, CandleLedger(s, h, f),
         NEW i \in DOMAIN s.spans, NEW q \in SpanType,
         SpanSound(q, h), q.status # "unrecoverable",
         q.start = s.spans[i].start, q.end = s.spans[i].end
  PROVE  CandleLedger(WithSpan(s, i, q), h, f)
<1> DEFINE t == WithSpan(s, i, q)
<1>1. /\ t.checkpoint = s.checkpoint /\ t.last = s.last /\ t.finals = s.finals
      /\ DOMAIN t.spans = DOMAIN s.spans
      /\ \A j \in DOMAIN s.spans : t.spans[j] = IF j = i THEN q ELSE s.spans[j]
  BY WithSpanFields
<1> HIDE DEF t
<1>2. \A j \in DOMAIN t.spans : SpanSound(t.spans[j], h) /\ t.spans[j].status # "unrecoverable"
  BY <1>1 DEF CandleLedger
<1>3. ASSUME NEW c \in Starts, Outstanding(s, c) PROVE c \in h \/ Outstanding(t, c)
  <2>1. PICK j \in DOMAIN s.spans :
          /\ s.spans[j].status # "complete" /\ s.spans[j].start <= c
          /\ s.spans[j].end = None \/ c < s.spans[j].end
    BY <1>3 DEF Outstanding, Unresolved
  <2>2. t.spans[j].start <= c /\ (t.spans[j].end = None \/ c < t.spans[j].end)
    BY <1>1, <2>1
  <2>3. CASE t.spans[j].status # "complete"
    BY <1>1, <2>2, <2>3 DEF Outstanding, Unresolved
  <2>4. CASE t.spans[j].status = "complete"
    <3>1. t.spans[j].end # None /\ Grid(t.spans[j]) \subseteq h
      BY <1>1, <1>2, <2>4 DEF SpanSound
    <3> QED BY <2>2, <3>1 DEF Grid
  <2> QED BY <2>3, <2>4
<1>4. CandleLedger(t, h, f)
  BY <1>1, <1>2, <1>3 DEF CandleLedger
<1> QED BY <1>4 DEF t

\* A repaired page proves candles of its span, and settles what it says.
LEMMA PageSaved ==
  ASSUME NEW s \in SnapshotType, NEW h, NEW f, CandleLedger(s, h, f),
         NEW i \in DOMAIN s.spans, s.spans[i].end # None,
         NEW page \in PageType, page.proven \subseteq h, page.finals \subseteq h
  PROVE  LET t == RepairPage(s, i, page)
         IN  /\ t \in SnapshotType /\ t.last = s.last /\ t.checkpoint = s.checkpoint
             /\ CandleLedger(t, h, f)
             /\ DOMAIN t.spans = DOMAIN s.spans /\ Len(t.spans) = Len(s.spans)
             /\ \A j \in DOMAIN s.spans \ {i} : t.spans[j] = s.spans[j]
             /\ t.spans[i].start = s.spans[i].start /\ t.spans[i].end = s.spans[i].end
             /\ t.spans[i].status # "unrecoverable"
             /\ Cardinality(t.finals) <= RepairCandles
<1> DEFINE p == s.spans[i]
           proven == p.repaired \union (page.proven \intersect Grid(p))
           status == IF proven = Grid(p) THEN "complete"
                     ELSE IF page.next \in {None, p.cursor} THEN "unknown" ELSE "pending"
           q == [p EXCEPT !.repaired = proven, !.cursor = page.next, !.status = status]
           w == WithSpan(s, i, q)
           t == RepairPage(s, i, page)
<1>1. p \in SpanType
  BY SpansOf
<1>2. proven \subseteq h /\ proven \in SUBSET Starts
  BY <1>1 DEF CandleLedger, SpanSound, SpanType, PageType
<1>3. status \in {"complete", "unknown", "pending"} /\ (status = "complete" => Grid(p) \subseteq h)
  BY <1>2
<1>4. page.next \in Times \union {None}
  BY StartIsTime DEF PageType
<1>5. s.finals \union page.finals \in SUBSET Starts /\ s.finals \union page.finals \subseteq h
  BY DEF SnapshotType, PageType, CandleLedger
<1>6. t = [w EXCEPT !.finals = Recent(w.finals \union page.finals)]
  BY DEF RepairPage
<1> HIDE DEF proven, status
<1>7. q \in SpanType
  BY <1>1, <1>2, <1>3, <1>4 DEF SpanType, Statuses
<1>8. /\ q.start = p.start /\ q.end = p.end /\ q.status = status /\ q.repaired = proven
      /\ Grid(q) = Grid(p)
  <2>1. q.start = p.start /\ q.end = p.end /\ q.status = status /\ q.repaired = proven
    BY <1>1 DEF SpanType
  <2> HIDE DEF q
  <2> QED BY <2>1 DEF Grid
<1> HIDE DEF q
<1>9. SpanSound(q, h) /\ q.status # "unrecoverable"
  BY <1>2, <1>3, <1>8 DEF SpanSound
<1>10. /\ w \in SnapshotType
       /\ w.checkpoint = s.checkpoint /\ w.last = s.last /\ w.finals = s.finals
       /\ Len(w.spans) = Len(s.spans) /\ DOMAIN w.spans = DOMAIN s.spans
       /\ \A j \in DOMAIN s.spans : w.spans[j] = IF j = i THEN q ELSE s.spans[j]
  BY <1>7, WithSpanFields
<1>11. CandleLedger(w, h, f)
  BY <1>7, <1>8, <1>9, CandleReplace
<1> HIDE DEF w, p
<1>12. /\ Recent(s.finals \union page.finals) \subseteq s.finals \union page.finals
       /\ Cardinality(Recent(s.finals \union page.finals)) <= RepairCandles
  BY <1>5, RecentBounded
<1>13. t = [w EXCEPT !.finals = Recent(s.finals \union page.finals)]
  BY <1>6, <1>10
<1> HIDE DEF t
<1>14. t \in SnapshotType
  BY <1>5, <1>10, <1>12, <1>13 DEF SnapshotType
<1>15. /\ t.last = w.last /\ t.checkpoint = w.checkpoint /\ t.spans = w.spans
       /\ t.finals = Recent(s.finals \union page.finals)
  BY <1>10, <1>13 DEF SnapshotType
<1>16. CandleLedger(t, h, f)
  <2>1. \A c \in Starts : Outstanding(w, c) <=> Outstanding(t, c)
    BY <1>15 DEF Outstanding, Unresolved
  <2> QED BY <1>5, <1>11, <1>12, <1>15, <2>1 DEF CandleLedger
<1> QED BY <1>8, <1>9, <1>10, <1>12, <1>14, <1>15, <1>16 DEF t, p

LEMMA SpanExhausted ==
  ASSUME NEW s \in SnapshotType, NEW i \in DOMAIN s.spans
  PROVE  LET q == [s.spans[i] EXCEPT !.status = "unknown", !.cursor = None]
         IN  /\ q \in SpanType /\ Exhaust(s, i) = WithSpan(s, i, q)
             /\ q.start = s.spans[i].start /\ q.end = s.spans[i].end /\ q.status = "unknown"
             /\ \A h : SpanSound(s.spans[i], h) => SpanSound(q, h)
<1> DEFINE p == s.spans[i]  q == [p EXCEPT !.status = "unknown", !.cursor = None]
<1>1. p \in SpanType
  BY SpansOf
<1>2. Exhaust(s, i) = WithSpan(s, i, q)
  BY DEF Exhaust
<1> HIDE DEF p
<1>3. q \in SpanType /\ q.start = p.start /\ q.end = p.end /\ q.status = "unknown" /\ q.repaired = p.repaired
  BY <1>1 DEF SpanType, Statuses
<1> HIDE DEF q
<1>4. \A h : SpanSound(p, h) => SpanSound(q, h)
  BY <1>3 DEF SpanSound
<1> QED BY <1>2, <1>3, <1>4 DEF p, q

LEMMA SpanAttempted ==
  ASSUME NEW s \in SnapshotType, NEW i \in DOMAIN s.spans, s.spans[i].attempts < MaxPages
  PROVE  LET q == [s.spans[i] EXCEPT !.attempts = @ + 1]
         IN  /\ q \in SpanType /\ Attempted(s, i) = WithSpan(s, i, q)
             /\ q.start = s.spans[i].start /\ q.end = s.spans[i].end /\ q.status = s.spans[i].status
             /\ \A h : SpanSound(s.spans[i], h) => SpanSound(q, h)
<1> DEFINE p == s.spans[i]  q == [p EXCEPT !.attempts = @ + 1]
<1>1. p \in SpanType
  BY SpansOf
<1>2. Attempted(s, i) = WithSpan(s, i, q)
  BY DEF Attempted
<1>0. MaxPages \in Nat /\ p.attempts < MaxPages
  BY RecoveryAssumption
<1> HIDE DEF p
<1>3. /\ q \in SpanType /\ q.start = p.start /\ q.end = p.end /\ q.status = p.status
      /\ q.repaired = p.repaired
  BY <1>0, <1>1 DEF SpanType
<1> HIDE DEF q
<1>5. Grid(q) = Grid(p)
  BY <1>3 DEF Grid
<1>4. \A h : SpanSound(p, h) => SpanSound(q, h)
  BY <1>3, <1>5 DEF SpanSound
<1> QED BY <1>2, <1>3, <1>4 DEF p, q

\* finish() leaves all but the validity of a book.
LEMMA FinishFields ==
  ASSUME NEW s \in SnapshotType
  PROVE  LET t == [s EXCEPT !.valid = FALSE]
         IN  /\ t \in SnapshotType /\ t.valid = FALSE
             /\ t.checkpoint = s.checkpoint /\ t.last = s.last /\ t.sequence = s.sequence
             /\ t.spans = s.spans /\ t.since = s.since /\ t.finals = s.finals
BY DEF SnapshotType

LEMMA CandleSame ==
  ASSUME NEW s, NEW t, NEW h, NEW f, CandleLedger(s, h, f),
         t.checkpoint = s.checkpoint, t.last = s.last, t.spans = s.spans, t.finals = s.finals
  PROVE  CandleLedger(t, h, f)
<1>1. \A c \in Starts : Outstanding(s, c) <=> Outstanding(t, c)
  BY DEF Outstanding, Unresolved
<1> QED BY <1>1 DEF CandleLedger

LEMMA CandleBegun ==
  ASSUME NEW s \in SnapshotType, NEW h, NEW f, CandleLedger(s, h, f)
  PROVE  CandleLedger(Begun(s), h, f)
<1> DEFINE t == Begun(s)
<1>1. /\ t.checkpoint = s.checkpoint /\ t.last = s.last /\ t.finals = s.finals
      /\ SpansKept(s, t)
      /\ \A i \in DOMAIN s.spans : t.spans[i] = s.spans[i]
      /\ \A i \in DOMAIN t.spans \ DOMAIN s.spans :
           t.spans[i] = Span(s.checkpoint, None, "unknown", None, None)
  BY BegunFields
<1> HIDE DEF t
<1>2. \A c \in Starts : Outstanding(s, c) => Outstanding(t, c)
  BY <1>1 DEF Outstanding, Unresolved, SpansKept
<1>3. ASSUME NEW i \in DOMAIN t.spans
      PROVE  SpanSound(t.spans[i], h) /\ t.spans[i].status # "unrecoverable"
  <2>1. CASE i \in DOMAIN s.spans
    BY <1>1, <2>1 DEF CandleLedger
  <2>2. CASE i \notin DOMAIN s.spans
    BY <1>1, <2>2 DEF SpanSound, Span
  <2> QED BY <2>1, <2>2
<1>4. CandleLedger(t, h, f)
  BY <1>1, <1>2, <1>3 DEF CandleLedger
<1> QED BY <1>4 DEF t

(***************************************************************************)
(* The ledgers of trades and books.                                         *)
(***************************************************************************)
\* A trade that skips numbers leaves a span over them.
LEMMA TradeObserved ==
  ASSUME NEW s \in SnapshotType, NEW h, NEW f, family = "trade",
         NEW number \in 0..MaxHead, number \in h, TradeLedger(s, h, f, number)
  PROVE  LET t == ObservedTrade(s, number)
         IN  /\ t \in SnapshotType /\ t.sequence = number /\ t.finals = s.finals
             /\ TradesIn(t, h, IF f = None THEN number ELSE f)
             /\ \A i \in DOMAIN s.spans : i \in DOMAIN t.spans /\ t.spans[i] = s.spans[i]
             /\ Len(t.spans) <= Len(s.spans) + 1
             /\ ~Skipped(s, number) => Len(t.spans) = Len(s.spans)
<1> DEFINE p == Span(s.checkpoint, None, LossStatus(None), s.sequence + 1, number - 1)
           m == IF Skipped(s, number) THEN Lost(s, p) ELSE s
           t == ObservedTrade(s, number)
           g == IF f = None THEN number ELSE f
<1>1. /\ number \in Nat /\ number # None /\ s.sequence \in (0..MaxHead) \union {None} /\ MaxHead \in Nat
      /\ s.sequence <= number /\ s.checkpoint \in Times /\ MaxPages \in Nat
      /\ s.sequence # None => s.sequence \in Nat
      /\ Len(s.spans) <= Len(s.spans) + 1
  BY RecoveryAssumption, SpansOf DEF SnapshotType, TradeLedger, None
<1>2. Skipped(s, number) => p \in SpanType /\ p.low = s.sequence + 1 /\ p.high = number - 1
  <2> SUFFICES ASSUME Skipped(s, number)
               PROVE  p \in SpanType /\ p.low = s.sequence + 1 /\ p.high = number - 1
    OBVIOUS
  <2>1. s.sequence # None /\ number > s.sequence + 1
    BY DEF Skipped
  <2>2. s.sequence + 1 \in 0..MaxHead + 1 /\ number - 1 \in 0..MaxHead
    BY <1>1, <2>1 DEF None
  <2>3. LossStatus(None) \in Statuses
    BY DEF LossStatus, Statuses
  <2> QED BY <1>1, <2>2, <2>3 DEF Span, SpanType
<1>3. t = [m EXCEPT !.sequence = IF number > m.sequence THEN number ELSE m.sequence]
  <2>1. t = [(IF Skipped(s, number)
              THEN Loss(s, s.checkpoint, None, s.sequence + 1, number - 1) ELSE s)
               EXCEPT !.sequence = IF number > @ THEN number ELSE @]
    BY DEF ObservedTrade
  <2>2. Loss(s, s.checkpoint, None, s.sequence + 1, number - 1) = Lost(s, p)
    BY DEF Loss, Lost
  <2> QED BY <2>1, <2>2
<1>4. /\ m \in SnapshotType /\ m.sequence = s.sequence /\ m.finals = s.finals /\ m.since = s.since
      /\ \A i \in DOMAIN s.spans : i \in DOMAIN m.spans /\ m.spans[i] = s.spans[i]
      /\ Len(m.spans) <= Len(s.spans) + 1
      /\ ~Skipped(s, number) => Len(m.spans) = Len(s.spans)
      /\ Skipped(s, number) => Len(s.spans) + 1 \in DOMAIN m.spans /\ m.spans[Len(s.spans) + 1] = p
  <2>1. CASE Skipped(s, number)
    <3> HIDE DEF p
    <3>1. m = Lost(s, p)
      BY <2>1
    <3> HIDE DEF m
    <3>2. p \in SpanType
      BY <1>2, <2>1
    <3>3. /\ m \in SnapshotType /\ m.sequence = s.sequence /\ m.finals = s.finals /\ m.since = s.since
          /\ Len(s.spans) + 1 \in Nat /\ Len(m.spans) = Len(s.spans) + 1
          /\ DOMAIN m.spans = 1..(Len(s.spans) + 1)
          /\ \A i \in DOMAIN s.spans : i \in DOMAIN m.spans /\ m.spans[i] = s.spans[i]
          /\ m.spans[Len(s.spans) + 1] = p
      BY <3>1, <3>2, LostFields
    <3>4. Len(s.spans) + 1 \in DOMAIN m.spans /\ Len(m.spans) <= Len(s.spans) + 1
      BY <3>3, SpansOf
    <3> QED BY <2>1, <3>3, <3>4
  <2>2. CASE ~Skipped(s, number)
    BY <1>1, <2>2
  <2> QED BY <2>1, <2>2
<1> HIDE DEF m, p, t
<1>5. t.sequence = number /\ t \in SnapshotType /\ t.spans = m.spans /\ t.since = m.since /\ t.finals = m.finals
  <2>1. (IF number > m.sequence THEN number ELSE m.sequence) = number
    BY <1>1, <1>4 DEF None
  <2>2. t = [m EXCEPT !.sequence = number]
    BY <1>3, <2>1
  <2>3. m \in SnapshotType
    BY <1>4
  <2> QED BY <1>1, <2>2, <2>3 DEF SnapshotType
<1>6. Uncounted(s) => Uncounted(t)
  BY <1>4, <1>5 DEF Uncounted
<1>7. ASSUME ~Uncounted(t), NEW n \in g..number
      PROVE  n \in h \/ \E i \in DOMAIN t.spans : t.spans[i].low <= n /\ n <= t.spans[i].high
  <2>1. CASE f = None
    BY <1>1, <1>7, <2>1
  <2>2. CASE f # None
    <3>1. s.sequence \in Nat /\ TradesIn(s, h, f) /\ f \in Nat /\ ~Uncounted(s)
      BY <1>1, <1>6, <1>7, <2>2 DEF TradeLedger
    <3>2. CASE n <= s.sequence
      <4>1. n \in f..s.sequence
        BY <1>1, <1>7, <2>2, <3>1, <3>2
      <4>2. n \in h \/ \E i \in DOMAIN s.spans : s.spans[i].low <= n /\ n <= s.spans[i].high
        BY <3>1, <4>1 DEF TradesIn
      <4> QED BY <1>4, <1>5, <4>2
    <3>3. CASE n = number
      BY <3>3
    <3>4. CASE ~(n <= s.sequence) /\ n # number
      <4>1. n \in Nat /\ n > s.sequence /\ n < number
        BY <1>1, <1>7, <2>2, <3>1, <3>4
      <4>2. Skipped(s, number)
        BY <1>1, <3>1, <4>1 DEF Skipped, None
      <4>3. p.low <= n /\ n <= p.high
        BY <1>1, <1>2, <3>1, <4>1, <4>2
      <4> QED BY <1>4, <1>5, <4>2, <4>3
    <3> QED BY <3>2, <3>3, <3>4
  <2> QED BY <2>1, <2>2
<1>8. TradesIn(t, h, g)
  BY <1>5, <1>7 DEF TradesIn
<1> QED BY <1>4, <1>5, <1>8 DEF t, g

LEMMA PlainObserved ==
  ASSUME NEW s \in SnapshotType, NEW number, family = "other"
  PROVE  ObservedTrade(s, number) = s
BY DEF ObservedTrade, Skipped

\* A valid book is fed the next number, or is valid no more.
LEMMA DeltaObserved ==
  ASSUME NEW s \in SnapshotType, NEW h, NEW f, family = "book",
         NEW number \in 0..MaxHead, number \in h, BookLedger(s, h, f)
  PROVE  LET t == ObservedDelta(s, number)
         IN  /\ t \in SnapshotType /\ t.finals = s.finals
             /\ BookLedger(t, h, f)
             /\ \A i \in DOMAIN s.spans : i \in DOMAIN t.spans /\ t.spans[i] = s.spans[i]
             /\ Len(t.spans) <= Len(s.spans) + 1
             /\ ~Skipped(s, number) => Len(t.spans) = Len(s.spans)
<1> DEFINE p == Span(s.checkpoint, None, LossStatus(None), s.sequence + 1, number)
           t == ObservedDelta(s, number)
<1>1. /\ number \in Nat /\ s.sequence \in (0..MaxHead) \union {None} /\ MaxHead \in Nat
      /\ s.checkpoint \in Times /\ MaxPages \in Nat
      /\ s.sequence # None => s.sequence \in Nat
      /\ Len(s.spans) <= Len(s.spans) + 1
  BY RecoveryAssumption, SpansOf DEF SnapshotType, None
<1>2. CASE Skipped(s, number)
  <2>1. s.sequence + 1 \in 0..MaxHead + 1 /\ LossStatus(None) \in Statuses
    BY <1>1, <1>2 DEF Skipped, LossStatus, Statuses
  <2>2. p \in SpanType
    BY <1>1, <2>1 DEF Span, SpanType
  <2>3. t = Lost(s, p)
    BY <1>2 DEF ObservedDelta, Loss, Lost
  <2> HIDE DEF p, t
  <2>4. /\ t \in SnapshotType /\ t.finals = s.finals /\ t.valid = FALSE
        /\ \A i \in DOMAIN s.spans : i \in DOMAIN t.spans /\ t.spans[i] = s.spans[i]
        /\ Len(t.spans) = Len(s.spans) + 1
    BY <2>2, <2>3, LostFields
  <2>5. Len(t.spans) <= Len(s.spans) + 1
    BY <2>4, SpansOf
  <2> QED BY <1>2, <2>4, <2>5 DEF BookLedger, t
<1>3. CASE ~Skipped(s, number) /\ s.valid
  <2>1. t = [s EXCEPT !.sequence = number]
    BY <1>3 DEF ObservedDelta
  <2> HIDE DEF t
  <2>2. t \in SnapshotType /\ t.finals = s.finals /\ t.spans = s.spans /\ t.sequence = number
    BY <1>1, <2>1 DEF SnapshotType
  <2>3. f \in Nat /\ s.sequence \in Nat /\ number = s.sequence + 1 /\ f..s.sequence \subseteq h
    BY <1>1, <1>3 DEF BookLedger, Skipped
  <2>4. f..number \subseteq h /\ number # None
    BY <1>1, <2>3 DEF None
  <2> QED BY <1>1, <1>3, <2>2, <2>3, <2>4 DEF BookLedger, t
<1>4. CASE ~Skipped(s, number) /\ ~s.valid
  <2>1. t = s
    BY <1>4 DEF ObservedDelta
  <2> QED BY <1>1, <1>4, <2>1
<1> QED BY <1>2, <1>3, <1>4

LEMMA Resnapshotted ==
  ASSUME NEW s \in SnapshotType, NEW h, NEW number \in 0..MaxHead, number \in h
  PROVE  LET t == Resnapshot(s, number)
         IN  /\ t \in SnapshotType /\ t.finals = s.finals /\ t.spans = s.spans
             /\ BookLedger(t, h, number)
<1> DEFINE t == Resnapshot(s, number)
<1>1. number \in Nat /\ number # None
  BY RecoveryAssumption DEF None
<1>2. t \in SnapshotType /\ t.finals = s.finals /\ t.spans = s.spans /\ t.sequence = number
  BY DEF Resnapshot, SnapshotType
<1>3. number..number \subseteq h
  BY <1>1
<1> HIDE DEF t
<1>4. BookLedger(t, h, number)
  BY <1>1, <1>2, <1>3 DEF BookLedger
<1> QED BY <1>2, <1>4 DEF t

(***************************************************************************)
(* Every step keeps the invariant and every recorded loss.                  *)
(***************************************************************************)
Inv == TypeOK /\ RecoveryInv

LossesKept == stored # NewStream => LossesVisible(stored, stored')

LEMMA Constants ==
  /\ SpanLimit \in Nat \ {0} /\ RepairCandles \in Nat \ {0} /\ PageRecords \in Nat \ {0}
  /\ MaxPages \in Nat \ {0} /\ MaxRejections \in Nat \ {0} /\ MaxHead \in Nat
  /\ MaxSequence \in 0..MaxHead
  /\ \A x \in Families : x \in {"candle", "trade", "book", "other"}
BY RecoveryAssumption

LEMMA LossesSame ==
  ASSUME stored' = stored
  PROVE  LossesKept
BY DEF LossesKept, LossesVisible

\* A ledger is stored with a baseline, a new stream without.
LEMMA StoredLedger ==
  ASSUME NEW s \in SnapshotType
  PROVE  s # NewStream
<1>1. s.checkpoint \in Nat
  BY DEF SnapshotType, Times
<1>2. NewStream.checkpoint = None
  BY DEF NewStream, Snapshot
<1> QED BY <1>1, <1>2 DEF None

LEMMA OpenLossSound ==
  ASSUME Inv, stored # NewStream, HasRoom(stored)
  PROVE  LET t == OpenLoss(stored)
         IN  /\ t \in SnapshotType
             /\ LedgerSound(family, t, held, first, head)
             /\ LossesVisible(stored, t)
             /\ Len(t.spans) < SpanLimit /\ Cardinality(t.finals) <= RepairCandles
             /\ t.checkpoint = stored.checkpoint /\ t.last = stored.last
             /\ t.sequence = stored.sequence
             /\ \A i \in DOMAIN stored.spans : i \in DOMAIN t.spans /\ t.spans[i] = stored.spans[i]
<1> DEFINE p == Span(stored.checkpoint, None, LossStatus(None), None, None)
           t == OpenLoss(stored)
<1>1. /\ stored \in SnapshotType /\ stored.checkpoint \in Times
      /\ Len(stored.spans) \in Nat /\ Cardinality(stored.finals) <= RepairCandles
  BY SpansOf DEF Inv, TypeOK, WithinQuotas, SnapshotType
<1>2. None \in Times \union {None}
  OBVIOUS
<1>3. /\ p \in SpanType /\ p.status # "complete" /\ p.repaired = {} /\ p.low = None
      /\ family = "candle" => p.status \in {"pending", "unknown"}
  BY <1>1, <1>2, NewSpan
<1>4. t = Lost(stored, p)
  BY DEF OpenLoss, Loss, Lost
<1> HIDE DEF p, t
<1>5. /\ t \in SnapshotType
      /\ t.checkpoint = stored.checkpoint /\ t.last = stored.last /\ t.sequence = stored.sequence
      /\ t.since = stored.since /\ t.finals = stored.finals /\ t.valid = FALSE
      /\ Len(t.spans) = Len(stored.spans) + 1 /\ DOMAIN t.spans = 1..(Len(stored.spans) + 1)
      /\ \A i \in DOMAIN stored.spans : i \in DOMAIN t.spans /\ t.spans[i] = stored.spans[i]
      /\ t.spans[Len(stored.spans) + 1] = p
  BY <1>1, <1>3, <1>4, LostFields
<1>6. LossesVisible(stored, t)
  BY <1>5 DEF LossesVisible
<1>7. Len(t.spans) < SpanLimit
  BY <1>1, <1>5, Constants DEF HasRoom
<1>8. family = "candle" => CandleLedger(t, held, first)
  BY <1>1, <1>3, <1>4, CandleLoss DEF Inv, RecoveryInv, LedgerSound
<1>9. Uncounted(t)
  BY <1>1, <1>3, <1>5 DEF Uncounted
<1>10. family = "trade" => TradeLedger(t, held, first, head)
  BY <1>5, <1>9 DEF Inv, RecoveryInv, LedgerSound, TradeLedger, TradesIn
<1>11. family = "book" => BookLedger(t, held, first)
  BY <1>5 DEF BookLedger
<1>12. LedgerSound(family, t, held, first, head)
  BY <1>5, <1>8, <1>10, <1>11 DEF Inv, RecoveryInv, LedgerSound
<1> QED BY <1>1, <1>5, <1>6, <1>7, <1>12 DEF t

\* When both tasks are gone only the ledger is left to be sound.
LEMMA AfterTasksGone ==
  ASSUME Inv, TasksGone, UNCHANGED <<family, held, head>>,
         first' \in Times \union {None},
         stored' # NewStream =>
            /\ stored' \in SnapshotType
            /\ LedgerSound(family, stored', held, first', head),
         Len(stored'.spans) < SpanLimit, Cardinality(stored'.finals) <= RepairCandles,
         stored' = NewStream => first' = None
  PROVE  Inv'
<1>1. /\ up' = "down" /\ live' = "connecting" /\ message' = Quiet /\ rejections' = 0
      /\ repair' = Idle /\ required' = FALSE /\ requests' = 0
  BY DEF TasksGone
<1>2. Idle \in PageType /\ Quiet \in MessageType /\ Cardinality(Idle.rows) <= PageRecords
  BY HeadIsTime, Constants, FS_EmptySet DEF Idle, Quiet, PageType, MessageType
<1>3. /\ Idle.at = "idle" /\ Idle.proven = {} /\ Idle.finals = {}
  BY DEF Idle
<1>4. WithinQuotas'
  BY <1>1, <1>2 DEF WithinQuotas
<1>5. TypeOK'
  <2>1. 0 \in 0..(MaxRejections - 1) /\ 0 \in 0..MaxPages
    BY Constants
  <2>2. family' \in Families /\ held' \subseteq Times /\ head' \in 0..MaxHead
    BY DEF Inv, TypeOK
  <2>3. repair' \in PageType /\ message' \in MessageType
    BY <1>1, <1>2
  <2> QED BY <1>1, <1>4, <2>1, <2>2, <2>3 DEF TypeOK
<1>6. SessionSound'
  BY <1>1, <1>3 DEF SessionSound
<1>7. RecoveryInv'
  BY <1>1, <1>3, <1>6 DEF RecoveryInv
<1> QED BY <1>5, <1>7 DEF Inv

LEMMA DieStep ==
  ASSUME Inv, TasksGone, UNCHANGED <<family, stored, held, head, first>>
  PROVE  Inv' /\ LossesKept
<1>1. Inv'
  BY AfterTasksGone DEF Inv, TypeOK, WithinQuotas, RecoveryInv, SessionSound
<1> QED BY <1>1, LossesSame

LEMMA FinishStep ==
  ASSUME Inv, Finish
  PROVE  Inv' /\ LossesKept
<1>1. /\ up # "down" /\ stored' = [stored EXCEPT !.valid = FALSE] /\ TasksGone
      /\ UNCHANGED <<family, held, head, first>>
  BY DEF Finish
<1>2. stored # NewStream /\ stored \in SnapshotType /\ LedgerSound(family, stored, held, first, head)
  BY <1>1 DEF Inv, TypeOK, RecoveryInv, SessionSound
<1>3. /\ stored' \in SnapshotType /\ stored'.valid = FALSE
      /\ stored'.checkpoint = stored.checkpoint /\ stored'.last = stored.last
      /\ stored'.sequence = stored.sequence
      /\ stored'.spans = stored.spans /\ stored'.since = stored.since /\ stored'.finals = stored.finals
  BY <1>1, <1>2, FinishFields
<1>4. family = "candle" => CandleLedger(stored', held, first)
  BY <1>2, <1>3, CandleSame DEF LedgerSound
<1>5. family = "trade" => TradeLedger(stored', held, first, head)
  BY <1>2, <1>3 DEF LedgerSound, TradeLedger, TradesIn, Uncounted
<1>6. LedgerSound(family, stored', held, first, head)
  BY <1>2, <1>3, <1>4, <1>5 DEF LedgerSound, BookLedger
<1>7. Inv'
  BY <1>1, <1>3, <1>6, AfterTasksGone, StoredLedger DEF Inv, TypeOK, WithinQuotas
<1>8. LossesKept
  BY <1>3 DEF LossesKept, LossesVisible
<1> QED BY <1>7, <1>8

LEMMA BeginStep ==
  ASSUME Inv, Begin
  PROVE  Inv' /\ LossesKept
<1>1. /\ up = "down" /\ up' = "running" /\ required' = (family = "book")
      /\ UNCHANGED <<family, held, live, message, rejections, repair, requests, head, first>>
  BY DEF Begin
<1>2. live # "accepted" /\ repair.at = "idle"
  BY <1>1 DEF Inv, RecoveryInv, SessionSound
<1>3. /\ stored' \in SnapshotType /\ LedgerSound(family, stored', held, first, head)
      /\ Len(stored'.spans) < SpanLimit /\ Cardinality(stored'.finals) <= RepairCandles
      /\ LossesKept
  <2>1. CASE stored = NewStream
    <3>1. PICK baseline \in Baselines : baseline <= CandleStart(head) /\ stored' = Snapshot(baseline)
      BY <2>1 DEF Begin
    <3>2. first = None
      BY <2>1 DEF Inv, RecoveryInv, SessionSound
    <3>3. baseline \in Nat /\ head \in 0..MaxHead
      BY RecoveryAssumption DEF Inv, TypeOK
    <3>4. CandleStart(head) \in Starts /\ CandleStart(head) \in Nat /\ CandleStart(head) \in Times
      BY <3>3, CandleStarts, StartIsTime
    <3>5. baseline \in Times
      <4>1. (MaxHead + 1) * Interval \in Nat
        BY RecoveryAssumption
      <4> QED BY <3>1, <3>3, <3>4, <4>1 DEF Times
    <3>6. <<>> \in Seq(SpanType) /\ Len(<<>>) = 0
      OBVIOUS
    <3>7. stored' \in SnapshotType
      BY <3>1, <3>5, <3>6 DEF Snapshot, SnapshotType
    <3>8. /\ stored'.spans = <<>> /\ stored'.finals = {} /\ stored'.last = None
          /\ stored'.checkpoint = baseline /\ stored'.valid = FALSE /\ stored'.sequence = None
      BY <3>1 DEF Snapshot
    <3>9. DOMAIN stored'.spans = {}
      BY <3>8
    <3>10. CandleLedger(stored', held, first)
      BY <3>2, <3>8, <3>9 DEF CandleLedger
    <3>11. stored'.last <= CandleStart(head) /\ stored'.sequence <= head
      BY <3>3, <3>4, <3>8 DEF None
    <3>12. LedgerSound(family, stored', held, first, head)
      BY <3>1, <3>2, <3>8, <3>10, <3>11 DEF LedgerSound, TradeLedger, BookLedger
    <3>13. Len(stored'.spans) < SpanLimit /\ Cardinality(stored'.finals) <= RepairCandles
      BY <3>6, <3>8, FS_EmptySet, Constants
    <3> QED BY <2>1, <3>7, <3>12, <3>13 DEF LossesKept
  <2>2. CASE stored # NewStream
    <3>1. /\ stored' = Begun(stored) /\ stored \in SnapshotType
          /\ LedgerSound(family, stored, held, first, head)
          /\ Len(stored.spans) < SpanLimit /\ Cardinality(stored.finals) <= RepairCandles
      BY <2>2 DEF Begin, Inv, TypeOK, WithinQuotas, RecoveryInv
    <3>2. /\ stored' \in SnapshotType
          /\ stored'.checkpoint = stored.checkpoint /\ stored'.last = stored.last
          /\ stored'.finals = stored.finals
          /\ stored'.sequence = None /\ stored'.valid = FALSE
          /\ Len(stored'.spans) < SpanLimit
          /\ SpansKept(stored, stored')
          /\ \A i \in DOMAIN stored.spans : stored'.spans[i] = stored.spans[i]
          /\ Uncounted(stored')
      BY <3>1, BegunFields
    <3>3. family = "candle" => CandleLedger(stored', held, first)
      BY <3>1, CandleBegun DEF LedgerSound
    <3>4. family = "trade" => TradeLedger(stored', held, first, head)
      <4>1. None <= head
        BY DEF Inv, TypeOK, None
      <4> QED BY <3>1, <3>2, <4>1 DEF LedgerSound, TradeLedger
    <3>5. LedgerSound(family, stored', held, first, head)
      BY <3>1, <3>2, <3>3, <3>4 DEF LedgerSound, BookLedger
    <3>6. LossesVisible(stored, stored')
      BY <3>2 DEF LossesVisible, SpansKept
    <3> QED BY <3>1, <3>2, <3>5, <3>6 DEF LossesKept
  <2> QED BY <2>1, <2>2
<1>4. stored' # NewStream
  BY <1>3, StoredLedger
<1>5. WithinQuotas'
  BY <1>1, <1>3 DEF WithinQuotas, Inv, TypeOK
<1>6. TypeOK'
  <2>1. (family = "book") \in BOOLEAN
    OBVIOUS
  <2> QED BY <1>1, <1>3, <1>5, <2>1 DEF Inv, TypeOK
<1>7. SessionSound'
  BY <1>1, <1>2, <1>4 DEF SessionSound
<1>8. RecoveryInv'
  BY <1>1, <1>2, <1>3, <1>7 DEF Inv, RecoveryInv
<1> QED BY <1>3, <1>6, <1>8 DEF Inv

LEMMA StopIntakeStep ==
  ASSUME Inv, StopIntake
  PROVE  Inv'
<1>1. /\ up = "running" /\ up' = "stopping"
      /\ UNCHANGED <<family, stored, held, live, message, rejections, repair, required, requests, head, first>>
  BY DEF StopIntake, snapshots
<1>2. TypeOK'
  BY <1>1 DEF Inv, TypeOK, WithinQuotas
<1>3. RecoveryInv'
  BY <1>1 DEF Inv, RecoveryInv, SessionSound
<1> QED BY <1>2, <1>3 DEF Inv

LEMMA MarketStep ==
  ASSUME Inv, Market
  PROVE  Inv'
<1>1. /\ head < (IF family = "candle" THEN MaxHead ELSE MaxSequence) /\ head' = head + 1
      /\ UNCHANGED <<family, stored, held, up, live, message, rejections, repair, required, requests, first>>
  BY DEF Market, snapshots, task
<1>2. head \in 0..MaxHead /\ head \in Nat
  BY Constants DEF Inv, TypeOK
<1>3. head' \in 0..MaxHead
  BY <1>1, <1>2, Constants
<1>4. /\ CandleStart(head) <= CandleStart(head') /\ CandleStart(head) \in Nat
      /\ CandleStart(head') \in Nat
  BY <1>1, <1>2, CandleStartMonotone
<1>5. TypeOK'
  BY <1>1, <1>3 DEF Inv, TypeOK, WithinQuotas
<1>6. ASSUME stored # NewStream
      PROVE  LedgerSound(family, stored, held, first, head')
  <2>1. stored \in SnapshotType /\ LedgerSound(family, stored, held, first, head)
    BY <1>6 DEF Inv, TypeOK, RecoveryInv
  <2>2. stored.last \in Int /\ stored.checkpoint \in Nat /\ stored.sequence \in Int
    BY <2>1, LastIsInt DEF SnapshotType, Times, None
  <2> QED BY <1>1, <1>2, <1>4, <2>1, <2>2 DEF LedgerSound, TradeLedger
<1>7. ASSUME live = "accepted"
      PROVE  MessageSound(family, message, stored, held, first, head')
  <2>1. MessageSound(family, message, stored, held, first, head)
    BY <1>7 DEF Inv, RecoveryInv
  <2>2. message.at \in Nat
    BY DEF Inv, TypeOK, MessageType, Times
  <2> QED BY <1>1, <1>2, <1>4, <2>1, <2>2 DEF MessageSound
<1>8. RecoveryInv'
  BY <1>1, <1>6, <1>7 DEF Inv, RecoveryInv, SessionSound
<1> QED BY <1>5, <1>8 DEF Inv

LEMMA ConnectStep ==
  ASSUME Inv, Connect
  PROVE  Inv'
<1>1. /\ up = "running" /\ live' = "streaming"
      /\ UNCHANGED <<family, stored, held, up, message, rejections, repair, required, requests, head, first>>
  BY DEF Connect, snapshots
<1>2. TypeOK'
  BY <1>1 DEF Inv, TypeOK, WithinQuotas
<1>3. RecoveryInv'
  BY <1>1 DEF Inv, RecoveryInv, SessionSound
<1> QED BY <1>2, <1>3 DEF Inv

\* A larger journal proves what a smaller one did.
LEMMA LedgerGrows ==
  ASSUME NEW h \in SUBSET Times, held \subseteq h
  PROVE  LedgerSound(family, stored, held, first, head)
           => LedgerSound(family, stored, h, first, head)
<1>1. CandleLedger(stored, held, first) => CandleLedger(stored, h, first)
  BY JournalGrows
<1>2. TradeLedger(stored, held, first, head) => TradeLedger(stored, h, first, head)
  BY DEF TradeLedger, TradesIn
<1>3. BookLedger(stored, held, first) => BookLedger(stored, h, first)
  BY DEF BookLedger
<1> QED BY <1>1, <1>2, <1>3 DEF LedgerSound

LEMMA AcceptStep ==
  ASSUME Inv, NEW kind \in Kinds, Accept(kind)
  PROVE  Inv'
<1>1. /\ up = "running" /\ live = "streaming" /\ live' = "accepted"
      /\ message' = [kind |-> kind, at |-> At]
      /\ held' = IF Stores(kind) THEN held \union {At} ELSE held
      /\ UNCHANGED <<family, stored, up, rejections, repair, required, requests, head, first>>
  BY DEF Accept, snapshots
<1>2. /\ stored # NewStream /\ stored \in SnapshotType /\ LedgerSound(family, stored, held, first, head)
      /\ head \in 0..MaxHead /\ head \in Nat /\ family \in Families /\ held \subseteq Times
  BY <1>1, Constants DEF Inv, TypeOK, RecoveryInv, SessionSound
<1>3. /\ CandleStart(head) \in Starts /\ CandleStart(head) \in Nat /\ CandleStart(head) \in Times
      /\ head \in Times
  BY <1>2, CandleStarts, StartIsTime, HeadIsTime
<1>4. /\ family = "candle" => At = CandleStart(head)
      /\ family # "candle" => At = head
      /\ At \in Times
  BY <1>3 DEF At
<1>5. /\ family = "candle" => kind \in {"malformed", "provisional", "final"}
      /\ family = "book" => kind \in {"malformed", "delta", "snapshot"}
      /\ family \in {"trade", "other"} => kind = "plain"
  BY DEF Kinds
<1>6. kind \in {"none", "malformed", "provisional", "final", "plain", "delta", "snapshot"}
  BY <1>2, <1>5, Constants
<1>7. held' \subseteq Times /\ held \subseteq held'
  BY <1>1, <1>2, <1>4
<1>8. message' \in MessageType /\ message'.kind = kind /\ message'.at = At
  BY <1>1, <1>4, <1>6 DEF MessageType
<1>9. TypeOK'
  BY <1>1, <1>7, <1>8 DEF Inv, TypeOK, WithinQuotas
<1>10. LedgerSound(family, stored, held', first, head)
  BY <1>2, <1>7, LedgerGrows
<1>11. /\ kind \in {"final", "delta", "snapshot"} => At \in held'
       /\ family = "trade" => At \in held'
  BY <1>1 DEF Stores
<1>12. MessageSound(family, message', stored, held', first, head)
  <2>1. family = "candle" => /\ stored.last <= CandleStart(head)
                             /\ first = None => stored.checkpoint <= CandleStart(head)
    BY <1>2 DEF LedgerSound
  <2>2. family = "trade" => stored.sequence <= head
    BY <1>2 DEF LedgerSound, TradeLedger
  <2> QED BY <1>2, <1>3, <1>4, <1>5, <1>8, <1>11, <2>1, <2>2 DEF MessageSound
<1>13. RecoveryInv'
  BY <1>1, <1>7, <1>10, <1>12 DEF Inv, RecoveryInv, SessionSound
<1> QED BY <1>9, <1>13 DEF Inv

\* The heart of the module: what a message does to the ledger.
LEMMA ObservedSound ==
  ASSUME Inv, up # "down", live = "accepted", NeedsSpan => HasRoom(stored),
         NEW g, g = IF StartsClaim THEN message.at ELSE first
  PROVE  LET t == Observed(stored)
         IN  /\ t \in SnapshotType
             /\ LedgerSound(family, t, held, g, head)
             /\ LossesVisible(stored, t)
             /\ Len(t.spans) < SpanLimit /\ Cardinality(t.finals) <= RepairCandles
             /\ \A i \in DOMAIN stored.spans :
                  /\ i \in DOMAIN t.spans
                  /\ stored.spans[i].end # None => t.spans[i] = stored.spans[i]
             /\ g \in Times \union {None}
<1> DEFINE t == Observed(stored)
<1>1. /\ stored # NewStream /\ stored \in SnapshotType /\ LedgerSound(family, stored, held, first, head)
      /\ MessageSound(family, message, stored, held, first, head)
      /\ head \in 0..MaxHead /\ family \in {"candle", "trade", "book", "other"}
      /\ Len(stored.spans) \in Nat /\ Len(stored.spans) < SpanLimit
      /\ Cardinality(stored.finals) <= RepairCandles
      /\ message.at \in Times /\ first \in Times \union {None}
  BY Constants, SpansOf DEF Inv, TypeOK, WithinQuotas, RecoveryInv, SessionSound, MessageType
<1>2. g \in Times \union {None}
  BY <1>1
<1>3. CASE message.kind = "malformed"
  <2>1. t = OpenLoss(stored) /\ HasRoom(stored)
    BY <1>3 DEF Observed, NeedsSpan
  <2>2. g = first
    BY <1>3 DEF StartsClaim
  <2> HIDE DEF t
  <2> QED BY <1>1, <1>2, <2>1, <2>2, OpenLossSound DEF t
<1>4. CASE family = "candle" /\ message.kind \in {"provisional", "final"}
  <2> DEFINE final == message.kind = "final"
  <2>1. t = ObservedCandle(stored, message.at, final)
    BY <1>4 DEF Observed
  <2>2. g = IF first = None THEN message.at ELSE first
    BY <1>4 DEF StartsClaim
  <2>3. /\ CandleLedger(stored, held, first) /\ message.at \in Starts /\ stored.last <= message.at
        /\ first = None => stored.checkpoint <= message.at
        /\ final => message.at \in held
        /\ message.at <= CandleStart(head)
        /\ final \in BOOLEAN
    BY <1>1, <1>4 DEF LedgerSound, MessageSound
  <2> HIDE DEF t, final
  <2>4. /\ t \in SnapshotType /\ t.last = message.at
        /\ CandleLedger(t, held, g)
        /\ SpansKept(stored, t)
        /\ Len(t.spans) <= Len(stored.spans) + 1
        /\ ~GapFound(stored, message.at) => Len(t.spans) = Len(stored.spans)
        /\ Cardinality(t.finals) <= RepairCandles
    BY <1>1, <1>4, <2>1, <2>2, <2>3, CandleObserved
  <2>5. g # None
    BY <2>2, <2>3, StartIsTime DEF None
  <2>6. LedgerSound(family, t, held, g, head)
    BY <1>4, <2>3, <2>4, <2>5 DEF LedgerSound
  <2>7. Len(t.spans) < SpanLimit
    <3>1. CASE GapFound(stored, message.at)
      <4>1. HasRoom(stored)
        BY <1>4, <3>1 DEF NeedsSpan
      <4>2. Len(t.spans) \in Nat
        BY <2>4, SpansOf
      <4> QED BY <1>1, <2>4, <4>1, <4>2, Constants DEF HasRoom
    <3>2. CASE ~GapFound(stored, message.at)
      BY <1>1, <2>4, <3>2
    <3> QED BY <3>1, <3>2
  <2>8. LossesVisible(stored, t)
    BY <2>3, <2>4 DEF LossesVisible, SpansKept, CandleLedger
  <2> QED BY <1>2, <2>4, <2>6, <2>7, <2>8 DEF SpansKept, t
<1>5. CASE family = "trade"
  <2>1. t = ObservedTrade(stored, message.at) /\ message.kind = "plain"
    BY <1>1, <1>5 DEF Observed, MessageSound
  <2>2. g = IF first = None THEN message.at ELSE first
    BY <2>1 DEF StartsClaim
  <2>3. /\ message.at \in 0..head /\ message.at \in 0..MaxHead /\ message.at \in held
        /\ stored.sequence <= message.at
    BY <1>1, <1>5, Constants DEF MessageSound
  <2>4. TradeLedger(stored, held, first, message.at)
    BY <1>1, <1>5, <2>3 DEF LedgerSound, TradeLedger
  <2> HIDE DEF t
  <2>5. /\ t \in SnapshotType /\ t.sequence = message.at /\ t.finals = stored.finals
        /\ TradesIn(t, held, g)
        /\ \A i \in DOMAIN stored.spans : i \in DOMAIN t.spans /\ t.spans[i] = stored.spans[i]
        /\ Len(t.spans) <= Len(stored.spans) + 1
        /\ ~Skipped(stored, message.at) => Len(t.spans) = Len(stored.spans)
    BY <1>1, <1>5, <2>1, <2>2, <2>3, <2>4, TradeObserved
  <2>6. message.at # None /\ g # None /\ g \in Nat /\ message.at <= head
    BY <1>1, <2>2, <2>3, Constants DEF None, Times
  <2>7. LedgerSound(family, t, held, g, head)
    BY <1>5, <2>5, <2>6 DEF LedgerSound, TradeLedger
  <2>8. Len(t.spans) < SpanLimit
    <3>1. CASE Skipped(stored, message.at)
      <4>1. HasRoom(stored)
        BY <2>1, <3>1 DEF NeedsSpan
      <4>2. Len(t.spans) \in Nat
        BY <2>5, SpansOf
      <4> QED BY <1>1, <2>5, <4>1, <4>2, Constants DEF HasRoom
    <3>2. CASE ~Skipped(stored, message.at)
      BY <1>1, <2>5, <3>2
    <3> QED BY <3>1, <3>2
  <2>9. LossesVisible(stored, t)
    BY <2>5 DEF LossesVisible
  <2> QED BY <1>1, <1>2, <2>5, <2>7, <2>8, <2>9 DEF t
<1>6. CASE family = "other"
  <2>1. t = stored
    BY <1>1, <1>6, PlainObserved DEF Observed, MessageSound
  <2>2. LedgerSound(family, stored, held, g, head)
    BY <1>6 DEF LedgerSound
  <2> QED BY <1>1, <1>2, <2>1, <2>2 DEF LossesVisible
<1>7. CASE family = "book" /\ message.kind = "delta"
  <2>1. t = ObservedDelta(stored, message.at)
    BY <1>7 DEF Observed
  <2>2. g = first
    BY <1>7 DEF StartsClaim
  <2>3. /\ message.at \in 0..MaxHead /\ message.at \in held
        /\ BookLedger(stored, held, first)
    BY <1>1, <1>7, Constants DEF MessageSound, LedgerSound
  <2> HIDE DEF t
  <2>4. /\ t \in SnapshotType /\ t.finals = stored.finals
        /\ BookLedger(t, held, first)
        /\ \A i \in DOMAIN stored.spans : i \in DOMAIN t.spans /\ t.spans[i] = stored.spans[i]
        /\ Len(t.spans) <= Len(stored.spans) + 1
        /\ ~Skipped(stored, message.at) => Len(t.spans) = Len(stored.spans)
    BY <1>1, <1>7, <2>1, <2>3, DeltaObserved
  <2>5. LedgerSound(family, t, held, g, head)
    BY <1>7, <2>2, <2>4 DEF LedgerSound
  <2>6. Len(t.spans) < SpanLimit
    <3>1. CASE Skipped(stored, message.at)
      <4>1. HasRoom(stored)
        BY <1>7, <3>1 DEF NeedsSpan
      <4>2. Len(t.spans) \in Nat
        BY <2>4, SpansOf
      <4> QED BY <1>1, <2>4, <4>1, <4>2, Constants DEF HasRoom
    <3>2. CASE ~Skipped(stored, message.at)
      BY <1>1, <2>4, <3>2
    <3> QED BY <3>1, <3>2
  <2>7. LossesVisible(stored, t)
    BY <2>4 DEF LossesVisible
  <2> QED BY <1>1, <1>2, <2>4, <2>5, <2>6, <2>7 DEF t
<1>8. CASE family = "book" /\ message.kind = "snapshot"
  <2>1. t = Resnapshot(stored, message.at) /\ g = message.at
    BY <1>8 DEF Observed, StartsClaim
  <2>2. message.at \in 0..MaxHead /\ message.at \in held
    BY <1>1, <1>8, Constants DEF MessageSound
  <2> HIDE DEF t
  <2>3. t \in SnapshotType /\ t.finals = stored.finals /\ t.spans = stored.spans /\ BookLedger(t, held, g)
    BY <1>1, <2>1, <2>2, Resnapshotted
  <2>4. LedgerSound(family, t, held, g, head)
    BY <1>8, <2>3 DEF LedgerSound
  <2>5. LossesVisible(stored, t)
    BY <2>3 DEF LossesVisible
  <2> QED BY <1>1, <1>2, <2>3, <2>4, <2>5 DEF t
<1> QED BY <1>1, <1>3, <1>4, <1>5, <1>6, <1>7, <1>8 DEF MessageSound

LEMMA ObserveStep ==
  ASSUME Inv, Observe
  PROVE  Inv' /\ LossesKept
<1>1. up # "down" /\ live = "accepted" /\ UNCHANGED <<family, held, head>>
  BY DEF Observe
<1>2. stored # NewStream /\ stored \in SnapshotType
  BY <1>1 DEF Inv, TypeOK, RecoveryInv, SessionSound
<1>3. CASE NeedsSpan /\ ~HasRoom(stored)
  BY <1>1, <1>3, DieStep DEF Observe
<1>4. CASE ~(NeedsSpan /\ ~HasRoom(stored))
  <2>1. stored' = Observed(stored) /\ first' = IF StartsClaim THEN message.at ELSE first
    BY <1>4 DEF Observe
  <2>2. /\ stored' \in SnapshotType
        /\ LedgerSound(family, stored', held, first', head)
        /\ LossesVisible(stored, stored')
        /\ Len(stored'.spans) < SpanLimit /\ Cardinality(stored'.finals) <= RepairCandles
        /\ \A i \in DOMAIN stored.spans :
             /\ i \in DOMAIN stored'.spans
             /\ stored.spans[i].end # None => stored'.spans[i] = stored.spans[i]
        /\ first' \in Times \union {None}
    BY <1>1, <1>4, <2>1, ObservedSound
  <2>3. stored' # NewStream
    BY <2>2, StoredLedger
  <2>4. CASE Rejects
    <3>1. TasksGone
      BY <1>4, <2>4 DEF Observe
    <3> QED BY <1>1, <2>2, <2>3, <3>1, AfterTasksGone DEF LossesKept
  <2>5. CASE ~Rejects
    <3>1. /\ live' = "streaming" /\ message' = Quiet
          /\ rejections' = IF message.kind = "malformed" THEN rejections + 1 ELSE rejections
          /\ required' = IF message.kind \in {"delta", "snapshot"}
                         THEN ~Observed(stored).valid ELSE required
          /\ requests' = IF message.kind = "snapshot" THEN 0 ELSE requests
          /\ UNCHANGED <<up, repair>>
      BY <1>4, <2>5 DEF Observe
    <3>2. Quiet \in MessageType
      BY HeadIsTime, Constants DEF Quiet, MessageType
    <3>3. rejections' \in 0..(MaxRejections - 1)
      <4>1. rejections \in 0..(MaxRejections - 1)
        BY DEF Inv, TypeOK
      <4> QED BY <2>5, <3>1, <4>1, Constants DEF Rejects
    <3>4. (~Observed(stored).valid) \in BOOLEAN
      OBVIOUS
    <3>5. required' \in BOOLEAN
      BY <3>1, <3>4 DEF Inv, TypeOK
    <3>6. requests' \in 0..MaxPages
      BY <3>1, Constants DEF Inv, TypeOK
    <3>7. WithinQuotas'
      BY <2>2, <3>1 DEF WithinQuotas, Inv, TypeOK
    <3>8. TypeOK'
      BY <1>1, <2>2, <3>1, <3>2, <3>3, <3>5, <3>6, <3>7 DEF Inv, TypeOK
    <3>9. SessionSound'
      BY <1>1, <2>2, <2>3, <3>1 DEF Inv, RecoveryInv, SessionSound
    <3>10. RecoveryInv'
      BY <1>1, <2>2, <3>1, <3>9 DEF Inv, RecoveryInv
    <3> QED BY <2>2, <3>8, <3>10 DEF Inv, LossesKept
  <2> QED BY <2>4, <2>5
<1> QED BY <1>3, <1>4

LEMMA TransportLossStep ==
  ASSUME Inv, up = "running", NEW after \in {"connecting", "streaming", "dropping"},
         TransportLoss(after)
  PROVE  Inv' /\ LossesKept
<1>1. UNCHANGED <<family, held, head, first>> /\ stored # NewStream
  BY DEF TransportLoss, Inv, RecoveryInv, SessionSound
<1>2. CASE ~HasRoom(stored)
  BY <1>1, <1>2, DieStep DEF TransportLoss
<1>3. CASE HasRoom(stored)
  <2>1. /\ stored' = OpenLoss(stored) /\ required' = (required \/ family = "book")
        /\ live' = after /\ UNCHANGED <<up, message, rejections, repair, requests>>
    BY <1>3 DEF TransportLoss
  <2>2. /\ stored' \in SnapshotType
        /\ LedgerSound(family, stored', held, first, head)
        /\ LossesVisible(stored, stored')
        /\ Len(stored'.spans) < SpanLimit /\ Cardinality(stored'.finals) <= RepairCandles
        /\ \A i \in DOMAIN stored.spans : i \in DOMAIN stored'.spans /\ stored'.spans[i] = stored.spans[i]
    BY <1>1, <1>3, <2>1, OpenLossSound
  <2>3. stored' # NewStream
    BY <2>2, StoredLedger
  <2>4. (required \/ family = "book") \in BOOLEAN
    OBVIOUS
  <2>5. WithinQuotas'
    BY <2>1, <2>2 DEF WithinQuotas, Inv, TypeOK
  <2>6. TypeOK'
    BY <1>1, <2>1, <2>2, <2>4, <2>5 DEF Inv, TypeOK
  <2>7. SessionSound'
    BY <1>1, <2>1, <2>2, <2>3 DEF Inv, RecoveryInv, SessionSound
  <2>8. RecoveryInv'
    BY <1>1, <2>1, <2>2, <2>7 DEF Inv, RecoveryInv
  <2> QED BY <2>2, <2>6, <2>8 DEF Inv, LossesKept
<1> QED BY <1>2, <1>3

(***************************************************************************)
(* The repair task                                                          *)
(***************************************************************************)
\* Where the repair task is, and that what it has proved is stored.
PageAt(at, page) ==
    page \in PageType /\ page.at = at /\ page.proven = {} /\ page.finals = {} /\ page.rows = {}

LEMMA IdlePages ==
  /\ PageAt("idle", Idle)
  /\ PageAt("asking", [Idle EXCEPT !.at = "asking"])
  /\ \A i \in Nat : LET q == [Idle EXCEPT !.at = "fetch", !.index = i]
                    IN  PageAt("fetch", q) /\ q.index = i
BY DEF Idle, PageAt, PageType

\* The repair task starts another page or none, and the ledger stays.
LEMMA PageStep ==
  ASSUME Inv, NEW at \in {"idle", "asking"}, PageAt(at, repair'),
         UNCHANGED <<family, stored, held, up, live, message, rejections, head, first>>,
         required' \in BOOLEAN, requests' \in 0..MaxPages, up # "down"
  PROVE  Inv'
<1>1. Cardinality(repair'.rows) <= PageRecords
  BY FS_EmptySet, Constants DEF PageAt
<1>2. TypeOK'
  BY <1>1 DEF Inv, TypeOK, WithinQuotas, PageAt
<1>3. RecoveryInv'
  BY DEF Inv, RecoveryInv, SessionSound, PageAt
<1> QED BY <1>2, <1>3 DEF Inv

LEMMA RepairFailsStep ==
  ASSUME Inv, FetchFails \/ Asked \/ AskFails
  PROVE  Inv'
<1>1. /\ repair.at \in {"fetch", "asking"} /\ repair' = Idle
      /\ UNCHANGED <<family, stored, held, up, live, message, rejections, requests, head, first>>
      /\ required' = FALSE \/ required' = required
  BY DEF FetchFails, Asked, AskFails, task, snapshots
<1>2. required' \in BOOLEAN /\ requests' \in 0..MaxPages
  BY <1>1 DEF Inv, TypeOK
<1>3. up # "down"
  BY <1>1 DEF Inv, RecoveryInv, SessionSound
<1> QED BY <1>1, <1>2, <1>3, IdlePages, PageStep

LEMMA AskSnapshotStep ==
  ASSUME Inv, AskSnapshot
  PROVE  Inv'
<1>1. up = "running" /\ UNCHANGED <<family, stored, held, head, first>>
  BY DEF AskSnapshot
<1>2. CASE requests >= MaxPages
  BY <1>1, <1>2, DieStep DEF AskSnapshot
<1>3. CASE ~(requests >= MaxPages)
  <2>1. /\ repair' = [Idle EXCEPT !.at = "asking"] /\ requests' = requests + 1
        /\ UNCHANGED <<up, live, message, rejections, required>>
    BY <1>3 DEF AskSnapshot, task
  <2>2. required' \in BOOLEAN /\ requests' \in 0..MaxPages
    BY <1>3, <2>1, Constants DEF Inv, TypeOK
  <2> QED BY <1>1, <2>1, <2>2, IdlePages, PageStep
<1> QED BY <1>2, <1>3

LEMMA FetchStep ==
  ASSUME Inv, Fetch
  PROVE  Inv'
<1>1. /\ repair.at = "fetch"
      /\ UNCHANGED <<family, stored, held, up, live, message, rejections, required, requests, head, first>>
  BY DEF Fetch, task, snapshots
<1>2. PICK rows \in SUBSET Window(stored.spans[repair.index]) :
        /\ Cardinality(rows) <= PageRecords
        /\ \E next \in NextCursors(rows) :
             repair' = [repair EXCEPT !.at = "rows", !.rows = rows, !.next = next]
  BY DEF Fetch
<1>3. PICK next \in NextCursors(rows) :
        repair' = [repair EXCEPT !.at = "rows", !.rows = rows, !.next = next]
  BY <1>2
<1>4. rows \in SUBSET Starts /\ rows \in SUBSET Nat
  BY StartIsTime DEF Window
<1>5. next \in Starts \union {None}
  BY <1>4, MinOfNats DEF NextCursors
<1>6. repair \in PageType
  BY DEF Inv, TypeOK
<1>7. repair' \in PageType
  BY <1>3, <1>4, <1>5, <1>6 DEF PageType
<1>8. /\ repair'.at = "rows" /\ repair'.rows = rows /\ repair'.index = repair.index
      /\ repair'.proven = repair.proven /\ repair'.finals = repair.finals
  BY <1>3, <1>6 DEF PageType
<1>9. TypeOK'
  BY <1>1, <1>2, <1>7, <1>8 DEF Inv, TypeOK, WithinQuotas
<1>10. RecoveryInv'
  BY <1>1, <1>8 DEF Inv, RecoveryInv, SessionSound
<1> QED BY <1>9, <1>10 DEF Inv

LEMMA RowStep ==
  ASSUME Inv, NEW start \in repair.rows, NEW final \in BOOLEAN, Row(start, final)
  PROVE  Inv'
<1> DEFINE proves == start \in stored.finals \/ (InSpan(start) /\ final)
           stores == start \notin stored.finals /\ InSpan(start) /\ final
<1>1. /\ up = "running" /\ repair.at = "rows"
      /\ held' = IF stores THEN held \union {start} ELSE held
      /\ repair' = [repair EXCEPT !.rows = @ \ {start},
                                  !.proven = IF proves THEN @ \union {start} ELSE @,
                                  !.finals = IF stores THEN @ \union {start} ELSE @]
      /\ UNCHANGED <<family, stored, up, live, message, rejections, required, requests, head, first>>
  BY DEF Row, task, snapshots
<1>2. /\ repair \in PageType /\ held \subseteq Times /\ stored # NewStream /\ family = "candle"
      /\ stored \in SnapshotType /\ LedgerSound(family, stored, held, first, head)
      /\ Cardinality(repair.rows) <= PageRecords
      /\ repair.proven \subseteq held /\ repair.finals \subseteq held
  BY <1>1 DEF Inv, TypeOK, WithinQuotas, RecoveryInv, SessionSound
<1>3. start \in Starts /\ start \in Times /\ repair.rows \in SUBSET Starts
  BY <1>2, StartIsTime DEF PageType
<1>4. held' \subseteq Times /\ held \subseteq held'
  BY <1>1, <1>2, <1>3
<1>5. (proves => start \in held') /\ (stores => start \in held')
  <2>1. stored.finals \subseteq held
    BY <1>2 DEF LedgerSound, CandleLedger
  <2> QED BY <1>1, <1>4, <2>1
<1> HIDE DEF proves, stores
<1>6. repair' \in PageType
  BY <1>1, <1>2, <1>3 DEF PageType
<1>7. /\ repair'.at = "rows" /\ repair'.index = repair.index
      /\ repair'.rows = repair.rows \ {start}
      /\ repair'.proven = IF proves THEN repair.proven \union {start} ELSE repair.proven
      /\ repair'.finals = IF stores THEN repair.finals \union {start} ELSE repair.finals
  BY <1>1, <1>2 DEF PageType
<1>8. repair'.proven \subseteq held' /\ repair'.finals \subseteq held'
  BY <1>2, <1>4, <1>5, <1>7
<1>9. Cardinality(repair'.rows) <= PageRecords
  <2>1. /\ IsFiniteSet(repair.rows) /\ Cardinality(repair.rows) \in Nat
        /\ repair'.rows \in SUBSET repair.rows
    BY <1>3, <1>7, StartsFinite
  <2>2. Cardinality(repair'.rows) <= Cardinality(repair.rows) /\ Cardinality(repair'.rows) \in Nat
    BY <2>1, FS_Subset, FS_CardinalityType
  <2> QED BY <1>2, <2>1, <2>2, Constants
<1>10. TypeOK'
  BY <1>1, <1>4, <1>6, <1>9 DEF Inv, TypeOK, WithinQuotas
<1>11. LedgerSound(family, stored, held', first, head)
  BY <1>2, <1>4, LedgerGrows
<1>12. ASSUME live = "accepted" PROVE MessageSound(family, message, stored, held', first, head)
  BY <1>4, <1>12 DEF Inv, RecoveryInv, MessageSound
<1>13. RecoveryInv'
  BY <1>1, <1>7, <1>8, <1>11, <1>12 DEF Inv, RecoveryInv, SessionSound
<1> QED BY <1>10, <1>13 DEF Inv

\* A span of candles is replaced by one that covers the same and claims no more.
LEMMA SpanReplaced ==
  ASSUME Inv, stored # NewStream, family = "candle",
         NEW i \in DOMAIN stored.spans, NEW q \in SpanType,
         q.start = stored.spans[i].start, q.end = stored.spans[i].end,
         SpanSound(stored.spans[i], held) => SpanSound(q, held),
         q.status \in {"pending", "unknown"}
  PROVE  LET t == WithSpan(stored, i, q)
         IN  /\ t \in SnapshotType
             /\ LedgerSound(family, t, held, first, head)
             /\ LossesVisible(stored, t)
             /\ Len(t.spans) < SpanLimit /\ Cardinality(t.finals) <= RepairCandles
             /\ t.last = stored.last /\ t.checkpoint = stored.checkpoint
             /\ DOMAIN t.spans = DOMAIN stored.spans
             /\ t.spans[i] = q
<1> DEFINE t == WithSpan(stored, i, q)
<1>1. /\ stored \in SnapshotType /\ LedgerSound(family, stored, held, first, head)
      /\ Len(stored.spans) < SpanLimit /\ Cardinality(stored.finals) <= RepairCandles
  BY DEF Inv, TypeOK, WithinQuotas, RecoveryInv
<1>2. CandleLedger(stored, held, first)
  BY <1>1 DEF LedgerSound
<1>3. SpanSound(q, held) /\ stored.spans[i].status # "unrecoverable"
  BY <1>2 DEF CandleLedger
<1>4. /\ t \in SnapshotType
      /\ t.checkpoint = stored.checkpoint /\ t.last = stored.last /\ t.finals = stored.finals
      /\ Len(t.spans) = Len(stored.spans) /\ DOMAIN t.spans = DOMAIN stored.spans
      /\ \A j \in DOMAIN stored.spans : t.spans[j] = IF j = i THEN q ELSE stored.spans[j]
  BY <1>1, WithSpanFields
<1>5. CandleLedger(t, held, first)
  BY <1>1, <1>2, <1>3, CandleReplace
<1> HIDE DEF t
<1>6. LossesVisible(stored, t)
  BY <1>3, <1>4 DEF LossesVisible
<1>7. LedgerSound(family, t, held, first, head)
  BY <1>1, <1>4, <1>5 DEF LedgerSound
<1> QED BY <1>1, <1>4, <1>5, <1>6, <1>7 DEF t

\* The message in flight is as new for the repaired ledger as for the old one.
LEMMA MessageKept ==
  ASSUME Inv, NEW t, t.last = stored.last, t.checkpoint = stored.checkpoint, family = "candle",
         live = "accepted"
  PROVE  MessageSound(family, message, t, held, first, head)
BY DEF Inv, RecoveryInv, MessageSound

LEMMA OldestPending ==
  ASSUME stored \in SnapshotType, Pending # {}
  PROVE  LET i == Min(Pending)
         IN  /\ i \in DOMAIN stored.spans /\ i \in Nat
             /\ stored.spans[i].status = "pending" /\ stored.spans[i].end # None
<1>1. Pending \in SUBSET Nat
  BY SpansOf DEF Pending
<1>2. Min(Pending) \in Pending
  BY <1>1, MinOfNats
<1> QED BY <1>1, <1>2 DEF Pending

LEMMA GiveUpRepairStep ==
  ASSUME Inv, GiveUpRepair
  PROVE  Inv' /\ LossesKept
<1> DEFINE i == Min(Pending)
<1>1. /\ up = "running" /\ repair.at = "idle" /\ family = "candle" /\ Pending # {}
      /\ stored' = Exhaust(stored, i)
      /\ UNCHANGED <<family, held, up, live, message, rejections, repair, required, requests, head, first>>
  BY DEF GiveUpRepair, CanRepair, task, snapshots
<1>2. stored # NewStream /\ stored \in SnapshotType
  BY <1>1 DEF Inv, TypeOK, RecoveryInv, SessionSound
<1>3. i \in DOMAIN stored.spans
  BY <1>1, <1>2, OldestPending
<1> HIDE DEF i
<1> DEFINE q == [stored.spans[i] EXCEPT !.status = "unknown", !.cursor = None]
<1>4. /\ q \in SpanType /\ stored' = WithSpan(stored, i, q)
      /\ q.start = stored.spans[i].start /\ q.end = stored.spans[i].end /\ q.status = "unknown"
      /\ SpanSound(stored.spans[i], held) => SpanSound(q, held)
  BY <1>1, <1>2, <1>3, SpanExhausted
<1> HIDE DEF q
<1>5. /\ stored' \in SnapshotType
      /\ LedgerSound(family, stored', held, first, head)
      /\ LossesVisible(stored, stored')
      /\ Len(stored'.spans) < SpanLimit /\ Cardinality(stored'.finals) <= RepairCandles
      /\ stored'.last = stored.last /\ stored'.checkpoint = stored.checkpoint
  BY <1>1, <1>2, <1>3, <1>4, SpanReplaced
<1>6. stored' # NewStream
  BY <1>5, StoredLedger
<1>7. TypeOK'
  BY <1>1, <1>5 DEF Inv, TypeOK, WithinQuotas
<1>8. live = "accepted" => MessageSound(family, message, stored', held, first, head)
  BY <1>1, <1>5, MessageKept
<1>9. RecoveryInv'
  BY <1>1, <1>5, <1>6, <1>8 DEF Inv, RecoveryInv, SessionSound
<1> QED BY <1>5, <1>7, <1>9 DEF Inv, LossesKept

LEMMA AttemptStep ==
  ASSUME Inv, Attempt
  PROVE  Inv' /\ LossesKept
<1> DEFINE i == Min(Pending)
<1>1. /\ up = "running" /\ repair.at = "idle" /\ family = "candle" /\ Pending # {}
      /\ ~BeyondLimit(stored.spans[i])
      /\ stored' = Attempted(stored, i)
      /\ repair' = [Idle EXCEPT !.at = "fetch", !.index = i]
      /\ UNCHANGED <<family, held, up, live, message, rejections, required, requests, head, first>>
  BY DEF Attempt, CanRepair, task, snapshots
<1>2. stored # NewStream /\ stored \in SnapshotType
  BY <1>1 DEF Inv, TypeOK, RecoveryInv, SessionSound
<1>3. /\ i \in DOMAIN stored.spans /\ i \in Nat
      /\ stored.spans[i].status = "pending" /\ stored.spans[i].end # None
  BY <1>1, <1>2, OldestPending
<1> HIDE DEF i
<1>4. stored.spans[i].attempts < MaxPages
  BY <1>1, <1>2, <1>3, SpansOf, Constants DEF BeyondLimit, SpanType
<1> DEFINE q == [stored.spans[i] EXCEPT !.attempts = @ + 1]
<1>5. /\ q \in SpanType /\ stored' = WithSpan(stored, i, q)
      /\ q.start = stored.spans[i].start /\ q.end = stored.spans[i].end /\ q.status = "pending"
      /\ SpanSound(stored.spans[i], held) => SpanSound(q, held)
  BY <1>1, <1>2, <1>3, <1>4, SpanAttempted
<1> HIDE DEF q
<1>6. /\ stored' \in SnapshotType
      /\ LedgerSound(family, stored', held, first, head)
      /\ LossesVisible(stored, stored')
      /\ Len(stored'.spans) < SpanLimit /\ Cardinality(stored'.finals) <= RepairCandles
      /\ stored'.last = stored.last /\ stored'.checkpoint = stored.checkpoint
      /\ DOMAIN stored'.spans = DOMAIN stored.spans
      /\ stored'.spans[i] = q
  BY <1>1, <1>2, <1>3, <1>5, SpanReplaced
<1>7. stored' # NewStream
  BY <1>6, StoredLedger
<1>8. PageAt("fetch", repair') /\ repair'.index = i
  BY <1>1, <1>3, IdlePages
<1>9. TypeOK'
  <2>1. WithinQuotas'
    BY <1>6, <1>8, FS_EmptySet, Constants DEF WithinQuotas, PageAt
  <2> QED BY <1>1, <1>6, <1>8, <2>1 DEF Inv, TypeOK, PageAt
<1>10. live = "accepted" => MessageSound(family, message, stored', held, first, head)
  BY <1>1, <1>6, MessageKept
<1>11. SessionSound'
  BY <1>1, <1>3, <1>5, <1>6, <1>7, <1>8 DEF SessionSound, PageAt
<1>12. RecoveryInv'
  BY <1>1, <1>6, <1>8, <1>10, <1>11 DEF Inv, RecoveryInv, PageAt
<1> QED BY <1>6, <1>9, <1>12 DEF Inv, LossesKept

LEMMA RowConflictStep ==
  ASSUME Inv, RowConflict
  PROVE  Inv' /\ LossesKept
<1> DEFINE i == repair.index
<1>1. /\ up = "running" /\ repair.at = "rows" /\ stored' = Exhaust(stored, i) /\ TasksGone
      /\ UNCHANGED <<family, held, head, first>>
  BY DEF RowConflict
<1>2. stored # NewStream /\ stored \in SnapshotType /\ family = "candle" /\ i \in DOMAIN stored.spans
  BY <1>1 DEF Inv, TypeOK, RecoveryInv, SessionSound
<1> HIDE DEF i
<1> DEFINE q == [stored.spans[i] EXCEPT !.status = "unknown", !.cursor = None]
<1>3. /\ q \in SpanType /\ stored' = WithSpan(stored, i, q)
      /\ q.start = stored.spans[i].start /\ q.end = stored.spans[i].end /\ q.status = "unknown"
      /\ SpanSound(stored.spans[i], held) => SpanSound(q, held)
  BY <1>1, <1>2, SpanExhausted
<1> HIDE DEF q
<1>4. /\ stored' \in SnapshotType
      /\ LedgerSound(family, stored', held, first, head)
      /\ LossesVisible(stored, stored')
      /\ Len(stored'.spans) < SpanLimit /\ Cardinality(stored'.finals) <= RepairCandles
  BY <1>2, <1>3, SpanReplaced
<1>5. stored' # NewStream /\ first' \in Times \union {None}
  BY <1>1, <1>4, StoredLedger DEF Inv, TypeOK
<1>6. Inv'
  BY <1>1, <1>4, <1>5, AfterTasksGone
<1> QED BY <1>4, <1>6 DEF LossesKept

LEMMA SavePageStep ==
  ASSUME Inv, SavePage
  PROVE  Inv' /\ LossesKept
<1> DEFINE i == repair.index
<1>1. /\ repair.at = "rows" /\ stored' = RepairPage(stored, i, repair) /\ repair' = Idle
      /\ UNCHANGED <<family, held, up, live, message, rejections, required, requests, head, first>>
  BY DEF SavePage, task, snapshots
<1>2. /\ up # "down" /\ stored # NewStream /\ stored \in SnapshotType /\ family = "candle"
      /\ i \in DOMAIN stored.spans
      /\ stored.spans[i].status = "pending" /\ stored.spans[i].end # None
      /\ LedgerSound(family, stored, held, first, head)
      /\ repair \in PageType /\ repair.proven \subseteq held /\ repair.finals \subseteq held
      /\ Len(stored.spans) < SpanLimit
  BY <1>1 DEF Inv, TypeOK, WithinQuotas, RecoveryInv, SessionSound
<1>3. CandleLedger(stored, held, first)
  BY <1>2 DEF LedgerSound
<1> HIDE DEF i
<1>4. /\ stored' \in SnapshotType /\ stored'.last = stored.last
      /\ stored'.checkpoint = stored.checkpoint
      /\ CandleLedger(stored', held, first)
      /\ DOMAIN stored'.spans = DOMAIN stored.spans /\ Len(stored'.spans) = Len(stored.spans)
      /\ \A j \in DOMAIN stored.spans \ {i} : stored'.spans[j] = stored.spans[j]
      /\ stored'.spans[i].start = stored.spans[i].start /\ stored'.spans[i].end = stored.spans[i].end
      /\ Cardinality(stored'.finals) <= RepairCandles
  BY <1>1, <1>2, <1>3, PageSaved
<1>5. LossesVisible(stored, stored')
  BY <1>2, <1>4 DEF LossesVisible
<1>6. LedgerSound(family, stored', held, first, head)
  BY <1>2, <1>4 DEF LedgerSound
<1>7. stored' # NewStream
  BY <1>4, StoredLedger
<1>8. PageAt("idle", repair')
  BY <1>1, IdlePages
<1>9. TypeOK'
  <2>1. WithinQuotas'
    BY <1>2, <1>4, <1>8, FS_EmptySet, Constants DEF WithinQuotas, PageAt
  <2>2. family' \in Families /\ held' \subseteq Times /\ head' \in 0..MaxHead
    BY <1>1 DEF Inv, TypeOK
  <2> QED BY <1>1, <1>4, <1>8, <2>1, <2>2 DEF Inv, TypeOK, PageAt
<1>10. live = "accepted" => MessageSound(family, message, stored', held, first, head)
  BY <1>2, <1>4, MessageKept
<1>11. RecoveryInv'
  BY <1>1, <1>2, <1>6, <1>7, <1>8, <1>10 DEF Inv, RecoveryInv, SessionSound, PageAt
<1> QED BY <1>5, <1>9, <1>11 DEF Inv, LossesKept

(***************************************************************************)
(* The theorems                                                             *)
(***************************************************************************)
LEMMA InitSound ==
  ASSUME Init
  PROVE  Inv
<1>1. /\ family \in Families /\ stored = NewStream /\ held = {} /\ up = "down"
      /\ live = "connecting" /\ message = Quiet /\ rejections = 0 /\ repair = Idle
      /\ required = FALSE /\ requests = 0 /\ head = 0 /\ first = None
  BY DEF Init
<1>2. PageAt("idle", Idle) /\ Quiet \in MessageType
  <2>1. 0 \in 0..MaxHead
    BY Constants
  <2>2. 0 \in Times
    BY <2>1, HeadIsTime
  <2> QED BY <2>2, IdlePages DEF Quiet, MessageType
<1>3. Len(stored.spans) = 0 /\ stored.finals = {}
  BY <1>1 DEF NewStream, Snapshot
<1>4. WithinQuotas
  BY <1>1, <1>2, <1>3, FS_EmptySet, Constants DEF WithinQuotas, PageAt
<1>5. 0 \in 0..(MaxRejections - 1) /\ 0 \in 0..MaxPages /\ 0 \in 0..MaxHead
  BY Constants
<1>6. TypeOK
  BY <1>1, <1>2, <1>4, <1>5 DEF TypeOK, PageAt
<1>7. RecoveryInv
  BY <1>1, <1>2 DEF RecoveryInv, SessionSound, PageAt
<1> QED BY <1>6, <1>7 DEF Inv

LEMMA StepSound ==
  ASSUME Inv, [Next]_vars
  PROVE  Inv' /\ LossesKept
<1>1. CASE Begin
  BY <1>1, BeginStep
<1>2. CASE Die
  BY <1>2, DieStep DEF Die
<1>3. CASE StopIntake
  <2>1. stored' = stored
    BY <1>3 DEF StopIntake
  <2> QED BY <1>3, <2>1, StopIntakeStep, LossesSame
<1>4. CASE Finish
  BY <1>4, FinishStep
<1>5. CASE Market
  <2>1. stored' = stored
    BY <1>5 DEF Market
  <2> QED BY <1>5, <2>1, MarketStep, LossesSame
<1>6. CASE Connect
  <2>1. stored' = stored
    BY <1>6 DEF Connect
  <2> QED BY <1>6, <2>1, ConnectStep, LossesSame
<1>7. CASE \E kind \in Kinds : Accept(kind)
  <2>1. PICK kind \in Kinds : Accept(kind)
    BY <1>7
  <2>2. stored' = stored
    BY <2>1 DEF Accept
  <2> QED BY <2>1, <2>2, AcceptStep, LossesSame
<1>8. CASE Observe
  BY <1>8, ObserveStep
<1>9. CASE Overflow \/ ReportLoss \/ Disconnect
  BY <1>9, TransportLossStep DEF Overflow, ReportLoss, Disconnect
<1>10. CASE GiveUpRepair
  BY <1>10, GiveUpRepairStep
<1>11. CASE Attempt
  BY <1>11, AttemptStep
<1>12. CASE FetchFails \/ Asked \/ AskFails
  <2>1. stored' = stored
    BY <1>12 DEF FetchFails, Asked, AskFails
  <2> QED BY <1>12, <2>1, RepairFailsStep, LossesSame
<1>13. CASE Fetch
  <2>1. stored' = stored
    BY <1>13 DEF Fetch
  <2> QED BY <1>13, <2>1, FetchStep, LossesSame
<1>14. CASE \E start \in repair.rows, final \in BOOLEAN : Row(start, final)
  <2>1. PICK start \in repair.rows, final \in BOOLEAN : Row(start, final)
    BY <1>14
  <2>2. stored' = stored
    BY <2>1 DEF Row
  <2> QED BY <2>1, <2>2, RowStep, LossesSame
<1>15. CASE RowConflict
  BY <1>15, RowConflictStep
<1>16. CASE SavePage
  BY <1>16, SavePageStep
<1>17. CASE AskSnapshot
  <2>1. stored' = stored
    BY <1>17 DEF AskSnapshot
  <2> QED BY <1>17, <2>1, AskSnapshotStep, LossesSame
<1>18. CASE UNCHANGED vars
  <2>1. UNCHANGED <<family, stored, held, up, live, message, rejections, repair, required, requests, head, first>>
    BY <1>18 DEF vars, task, snapshots
  <2>2. Inv'
    BY <2>1 DEF Inv, TypeOK, WithinQuotas, RecoveryInv, SessionSound
  <2> QED BY <2>1, <2>2, LossesSame
<1> QED BY <1>1, <1>2, <1>3, <1>4, <1>5, <1>6, <1>7, <1>8, <1>9, <1>10, <1>11, <1>12, <1>13,
           <1>14, <1>15, <1>16, <1>17, <1>18 DEF Next, Live, Repair

\* Types, quotas and the agreement of ledger, page, message and journal hold in
\* every state, for every interval, market, quota and set of baselines.
THEOREM RecoverySound == Spec => [](TypeOK /\ RecoveryInv)
<1>1. Init => Inv
  BY InitSound
<1>2. Inv /\ [Next]_vars => Inv'
  BY StepSound
<1>3. Inv => TypeOK /\ RecoveryInv
  BY DEF Inv
<1> QED BY <1>1, <1>2, <1>3, PTL DEF Spec

LEMMA CandlesAccountedFor ==
  ASSUME Inv, stored # NewStream, family = "candle"
  PROVE  CandlesAccounted
BY DEF Inv, RecoveryInv, LedgerSound, CandleLedger, CandlesAccounted

LEMMA TradesAccountedFor ==
  ASSUME Inv, stored # NewStream, family = "trade", stored.sequence # None
  PROVE  TradesAccounted
BY DEF Inv, RecoveryInv, LedgerSound, TradeLedger, TradesIn, TradesAccounted

\* Nothing the stream moved past is missing without a record of its loss
\* (coverage.py: observed, loss, begin; supervisor.py: repair_once).
THEOREM NoGapIsSilent == Spec => []NoSilentGap
<1>1. Inv => NoSilentGap
  BY CandlesAccountedFor, TradesAccountedFor
     DEF NoSilentGap, Inv, RecoveryInv, LedgerSound, BookLedger, BookContinuous
<1>2. TypeOK /\ RecoveryInv => NoSilentGap
  BY <1>1 DEF Inv
<1> QED BY <1>2, RecoverySound, PTL

\* A range answered "complete" has all its finalized candles in the journal
\* (coverage.py: coverage, repair_page).
THEOREM CompleteIsEarned == Spec => []CoverageIsEarned
<1>1. ASSUME TypeOK, RecoveryInv, stored # NewStream, family = "candle",
             NEW from \in Times, NEW to \in Times, from < to,
             Coverage(stored, from, to) = "complete",
             NEW c \in Starts, from <= c, c < to
      PROVE  c \in held
  <2> DEFINE touching == {i \in DOMAIN stored.spans : stored.spans[i].start < to
                            /\ (stored.spans[i].end = None \/ stored.spans[i].end > from)}
  <2>1. /\ \A i \in touching : stored.spans[i].status \notin {"unrecoverable", "unknown", "pending"}
        /\ \A n \in from..(to - 1) : \E i \in touching :
             stored.spans[i].start <= n /\ n < stored.spans[i].end
    BY <1>1 DEF Coverage
  <2>2. c \in from..(to - 1)
    BY <1>1, StartIsTime DEF Times
  <2>3. PICK i \in touching : stored.spans[i].start <= c /\ c < stored.spans[i].end
    BY <2>1, <2>2
  <2>4. stored.spans[i] \in SpanType
    BY <1>1, SpansOf DEF TypeOK
  <2>5. stored.spans[i].status = "complete"
    BY <2>1, <2>3, <2>4 DEF SpanType, Statuses
  <2>6. Grid(stored.spans[i]) \subseteq held
    BY <1>1, <2>5 DEF RecoveryInv, LedgerSound, CandleLedger, SpanSound
  <2> QED BY <1>1, <2>3, <2>6 DEF Grid
<1>2. TypeOK /\ RecoveryInv => CoverageIsEarned
  BY <1>1 DEF CoverageIsEarned
<1> QED BY <1>2, RecoverySound, PTL

\* No recorded loss is evicted, moved, shrunk or forgiven (coverage.py: begin,
\* loss, repair_page, exhaust).
THEOREM LossesStayVisible == Spec => LossStaysVisible
<1>1. Inv /\ [Next]_vars => (stored # NewStream => LossesVisible(stored, stored'))
  BY StepSound DEF LossesKept
<1>2. TypeOK /\ RecoveryInv /\ [Next]_vars
        => [stored # NewStream => LossesVisible(stored, stored')]_vars
  BY <1>1 DEF Inv
<1> QED BY <1>2, RecoverySound, PTL DEF Spec, LossStaysVisible

=============================================================================
