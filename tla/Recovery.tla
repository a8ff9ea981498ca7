------------------------------ MODULE Recovery ------------------------------
(***************************************************************************)
(* The coverage of one source stream: CoverageLedger (recovery/coverage.py) *)
(* and the two tasks of SourceSupervisor (recovery/supervisor.py), live     *)
(* intake and repair, that share it.  A ledger operation runs under the     *)
(* supervisor's lock and ends in one compare-and-swap on the spool, so the  *)
(* snapshot in memory and the stored one are one variable here; an          *)
(* operation whose save raises ends supervision (Die).                      *)
(*                                                                         *)
(* Candles are told apart by their start; the market moves from the open    *)
(* candle to its confirmation to the next candle, and the source shows the  *)
(* present state only.  Trades and books count sequence numbers instead.    *)
(***************************************************************************)
EXTENDS Integers, Sequences, FiniteSets, FiniteSetsExt

CONSTANTS
    Families,       \* families of the stream this behaviour may be about
    Baselines,      \* values of baseline_ns
    Interval,       \* interval_ns
    SpanLimit,      \* _SPAN_LIMIT
    RepairCandles,  \* _REPAIR_CANDLES, size of the cache of finalized candles
    PageRecords,    \* RepairLimits.page_records
    MaxPages,       \* RepairLimits.max_pages: attempts of one span, or resnapshots
    MaxCandles,     \* RepairLimits.max_candles
    MaxRejections,  \* RepairLimits.max_rejections
    MaxHead,        \* bound: steps of the market
    MaxSequence     \* bound: the same for a stream with sequence numbers

ASSUME RecoveryAssumption ==
    /\ Families \subseteq {"candle", "trade", "book", "other"}
    /\ Baselines \subseteq Nat
    /\ Interval \in Nat \ {0}
    /\ {SpanLimit, RepairCandles, PageRecords, MaxPages, MaxCandles} \subseteq Nat \ {0}
    /\ MaxRejections \in Nat \ {0}
    /\ MaxHead \in Nat
    /\ MaxSequence \in 0..MaxHead

VARIABLES
    family,    \* stream.family
    stored,    \* recovery_state under stream.key: the CoverageSnapshot
    held,      \* raw_records: finalized candles, or sequence numbers, stored
    up,        \* "down", "running", or "stopping" once _closed is set
    live,      \* where the live task is
    message,   \* the envelope the live task has stored and not yet observed
    rejections,\* _rejections
    repair,    \* the repair task: where it is and the page it works on
    required,  \* _snapshot_required
    requests,  \* _snapshot_attempts
    head,      \* external: how far the market is
    first      \* history: where the claim of continuity starts: the first candle
               \* or trade observed, the last snapshot of a book

task == <<up, live, message, rejections>>
snapshots == <<required, requests>>
vars == <<family, stored, held, task, repair, snapshots, head, first>>

None == -1
Statuses == {"complete", "pending", "unknown", "unrecoverable"}

\* CoverageSpan; its cursor is the start below which the next page looks.
Span(start, end, status, low, high) ==
    [start |-> start, end |-> end, status |-> status, low |-> low, high |-> high,
     repaired |-> {}, cursor |-> None, attempts |-> 0]

Snapshot(baseline) ==
    [checkpoint |-> baseline, last |-> None, valid |-> FALSE, sequence |-> None,
     spans |-> <<>>, since |-> None, finals |-> {}]

\* Before the first begin() nothing is stored under the key.
NewStream == Snapshot(None)

Idle == [at |-> "idle", index |-> 0, rows |-> {}, proven |-> {}, finals |-> {}, next |-> None]
Quiet == [kind |-> "none", at |-> 0]

(***************************************************************************)
(* The market, outside the code                                            *)
(***************************************************************************)
CandleStart(h) == (h \div 2) * Interval
Confirmed(h) == h % 2 = 1
Closed(start) == start < CandleStart(head) \/ (start = CandleStart(head) /\ Confirmed(head))
Starts == {CandleStart(h) : h \in 0..MaxHead}

\* What an envelope received now can be for the parser and the clock.
Kinds ==
    CASE family = "candle" -> {"malformed", "provisional"} \union {k \in {"final"} : Confirmed(head)}
      [] family = "book"   -> {"malformed", "delta", "snapshot"}
      [] OTHER             -> {"plain"}

At == IF family = "candle" THEN CandleStart(head) ELSE head

(***************************************************************************)
(* The ledger's operations, from snapshot to snapshot                      *)
(***************************************************************************)
HasRoom(s) == Len(s.spans) < SpanLimit - 1

LossStatus(end) ==
    CASE family = "candle" /\ end # None -> "pending"
      [] family \in {"trade", "book"}    -> "unrecoverable"
      [] OTHER                           -> "unknown"

Loss(s, start, end, low, high) ==
    [s EXCEPT !.valid = FALSE, !.spans = Append(@, Span(start, end, LossStatus(end), low, high))]

\* A loss of unknown extent: everything since the checkpoint.
OpenLoss(s) == Loss(s, s.checkpoint, None, None, None)

\* As if the oldest span made room for the uncertainty of a restart.
BegunEvicting(s) ==
    LET b == [s EXCEPT !.valid = FALSE, !.sequence = None] IN
    [b EXCEPT !.spans = Append(IF HasRoom(s) THEN @ ELSE Tail(@),
                               Span(s.checkpoint, None, "unknown", None, None))]

\* Opening a ledger that exists makes all since its checkpoint uncertain.
Begun(s) ==
    LET b == [s EXCEPT !.valid = FALSE, !.sequence = None] IN
    IF HasRoom(s)
    THEN [b EXCEPT !.spans = Append(@, Span(s.checkpoint, None, "unknown", None, None))]
    ELSE [b EXCEPT !.since = IF @ = None THEN s.checkpoint ELSE Min({@, s.checkpoint})]

CloseUncertain(s, start) ==
    [s EXCEPT !.spans = [i \in DOMAIN @ |->
        IF @[i].end = None /\ start > @[i].start
        THEN [@[i] EXCEPT !.end = start, !.status = "pending"]
        ELSE @[i]]]

MissingStart(s, last) == IF s.checkpoint <= last THEN last ELSE last + Interval

GapAt(s, last, start) ==
    /\ last # None
    /\ start > MissingStart(s, last)
    /\ \A i \in DOMAIN s.spans :
         LET p == s.spans[i] IN
         ~(p.start <= MissingStart(s, last) /\ p.end # None /\ p.end >= start)

Unresolved(s) == {i \in DOMAIN s.spans : s.spans[i].status # "complete"}

\* The cache keeps the latest finalized candles only.
Recent(starts) == {c \in starts : Cardinality({d \in starts : d > c}) < RepairCandles}

FinalizePastGaps(s, start) ==
    [s EXCEPT !.checkpoint = IF start + Interval > @ THEN start + Interval ELSE @,
              !.finals = Recent(@ \union {start})]

Finalize(s, start) ==
    LET boundary == Min({start + Interval} \union {s.spans[i].start : i \in Unresolved(s)}) IN
    [s EXCEPT !.checkpoint = IF boundary > @ THEN boundary ELSE @,
              !.finals = Recent(@ \union {start})]

\* _observed_candle: the spans it closes, the gap it finds, the checkpoint.
GapFound(s, start) == GapAt(CloseUncertain(s, start), s.last, start)

ObservedCandle(s, start, final) ==
    LET closed == CloseUncertain(s, start)
        marked == IF GapFound(s, start)
                  THEN Loss(closed, MissingStart(closed, s.last), start, None, None)
                  ELSE closed
        latest == [marked EXCEPT !.last = IF start > @ THEN start ELSE @]
    IN  IF final THEN Finalize(latest, start) ELSE latest

\* _observed_sequence and book_delta look for a step of more than one.
Skipped(s, number) ==
    /\ s.sequence # None
    /\ \/ family = "trade" /\ number > s.sequence + 1
       \/ family = "book" /\ s.valid /\ number # s.sequence + 1

ObservedTrade(s, number) ==
    LET marked == IF Skipped(s, number)
                  THEN Loss(s, s.checkpoint, None, s.sequence + 1, number - 1)
                  ELSE s
    IN  IF family = "trade" THEN [marked EXCEPT !.sequence = IF number > @ THEN number ELSE @]
        ELSE marked

ObservedDelta(s, number) ==
    IF Skipped(s, number) THEN Loss(s, s.checkpoint, None, s.sequence + 1, number)
    ELSE IF s.valid THEN [s EXCEPT !.sequence = number]
    ELSE s

Resnapshot(s, number) == [s EXCEPT !.valid = TRUE, !.sequence = number]

WithSpan(s, i, p) == [s EXCEPT !.spans = [s.spans EXCEPT ![i] = p]]

Exhaust(s, i) == WithSpan(s, i, [s.spans[i] EXCEPT !.status = "unknown", !.cursor = None])

Attempted(s, i) == WithSpan(s, i, [s.spans[i] EXCEPT !.attempts = @ + 1])

Grid(p) == {c \in Starts : p.start <= c /\ c < p.end}

RepairPage(s, i, page) ==
    LET p == s.spans[i]
        proven == p.repaired \union (page.proven \intersect Grid(p))
        status == IF proven = Grid(p) THEN "complete"
                  ELSE IF page.next \in {None, p.cursor} THEN "unknown" ELSE "pending"
    IN  [WithSpan(s, i, [p EXCEPT !.repaired = proven, !.cursor = page.next, !.status = status])
            EXCEPT !.finals = Recent(@ \union page.finals)]

\* coverage(start, end): the worst status that touches the range.
Coverage(s, from, to) ==
    LET touching == {i \in DOMAIN s.spans : s.spans[i].start < to
                        /\ (s.spans[i].end = None \/ s.spans[i].end > from)}
        has(status) == \E i \in touching : s.spans[i].status = status
        covered(c) == \E i \in touching : s.spans[i].start <= c /\ c < s.spans[i].end
    IN  IF has("unrecoverable") THEN "unrecoverable"
        ELSE IF has("unknown") THEN "unknown"
        ELSE IF has("pending") THEN "pending"
        ELSE IF (s.since = None \/ to <= s.since) /\ \A c \in from..(to - 1) : covered(c)
        THEN "complete" ELSE "unknown"

(***************************************************************************)
(* Sessions                                                                *)
(***************************************************************************)
Init ==
    /\ family \in Families
    /\ stored = NewStream
    /\ held = {}
    /\ up = "down"
    /\ live = "connecting" /\ message = Quiet
    /\ rejections = 0
    /\ repair = Idle
    /\ required = FALSE /\ requests = 0
    /\ head = 0
    /\ first = None

\* begin() precedes intake; a stream that was never stored starts at its
\* baseline, which the daemon puts two minutes before the present.
Begin ==
    /\ up = "down"
    /\ IF stored = NewStream
       THEN \E baseline \in Baselines :
              baseline <= CandleStart(head) /\ stored' = Snapshot(baseline)
       ELSE stored' = Begun(stored)
    /\ up' = "running"
    /\ required' = (family = "book")
    /\ UNCHANGED <<family, held, live, message, rejections, repair, requests, head, first>>

\* Both tasks are gone, with all the supervisor kept in memory.
TasksGone ==
    /\ up' = "down"
    /\ live' = "connecting" /\ message' = Quiet
    /\ rejections' = 0
    /\ repair' = Idle
    /\ required' = FALSE /\ requests' = 0

\* The process dies, the run is cancelled, or a save or an intake raises.
Die ==
    /\ up # "down"
    /\ TasksGone
    /\ UNCHANGED <<family, stored, held, head, first>>

\* stop_intake() and close() set the flag; the tasks are still running.
StopIntake ==
    /\ up = "running"
    /\ up' = "stopping"
    /\ UNCHANGED <<family, stored, held, live, message, rejections, repair, snapshots, head, first>>

\* The first task to end takes the other with it, then finish() is stored.
Finish ==
    /\ up = "stopping"
    /\ live # "accepted" \/ repair.at = "idle"
    /\ stored' = [stored EXCEPT !.valid = FALSE]
    /\ TasksGone
    /\ UNCHANGED <<family, held, head, first>>

Market ==
    /\ head < (IF family = "candle" THEN MaxHead ELSE MaxSequence)
    /\ head' = head + 1
    /\ UNCHANGED <<family, stored, held, task, repair, snapshots, first>>

(***************************************************************************)
(* The live task                                                           *)
(***************************************************************************)
Connect ==
    /\ up = "running" /\ live = "connecting"
    /\ live' = "streaming"
    /\ UNCHANGED <<family, stored, held, up, message, rejections, repair, snapshots, head, first>>

\* A finalized candle that is known already is not stored again.
Known(kind) == kind # "malformed" /\ family = "candle" /\ At \in stored.finals

Stores(kind) == kind \in {"final", "delta", "snapshot"} \/ family = "trade"

Accept(kind) ==
    /\ up = "running" /\ live = "streaming"
    /\ ~Known(kind)
    /\ message' = [kind |-> kind, at |-> At]
    /\ held' = IF Stores(kind) THEN held \union {At} ELSE held
    /\ live' = "accepted"
    /\ UNCHANGED <<family, stored, up, rejections, repair, snapshots, head, first>>

Observed(s) ==
    CASE message.kind = "malformed"   -> OpenLoss(s)
      [] message.kind = "provisional" -> ObservedCandle(s, message.at, FALSE)
      [] message.kind = "final"       -> ObservedCandle(s, message.at, TRUE)
      [] message.kind = "delta"       -> ObservedDelta(s, message.at)
      [] message.kind = "snapshot"    -> Resnapshot(s, message.at)
      [] OTHER                        -> ObservedTrade(s, message.at)

NeedsSpan ==
    \/ message.kind = "malformed"
    \/ family = "candle" /\ GapFound(stored, message.at)
    \/ message.kind \in {"delta", "plain"} /\ Skipped(stored, message.at)

Rejects == message.kind = "malformed" /\ rejections + 1 >= MaxRejections

StartsClaim ==
    \/ message.kind = "snapshot"
    \/ first = None /\ message.kind \in {"provisional", "final", "plain"}

\* The stored record reaches the ledger; a full history or the quota of
\* rejections ends supervision.
Observe ==
    /\ up # "down" /\ live = "accepted"
    /\ IF NeedsSpan /\ ~HasRoom(stored)
       THEN TasksGone /\ UNCHANGED <<stored, first>>
       ELSE /\ stored' = Observed(stored)
            /\ first' = IF StartsClaim THEN message.at ELSE first
            /\ IF Rejects THEN TasksGone
               ELSE /\ live' = "streaming" /\ message' = Quiet
                    /\ rejections' = IF message.kind = "malformed" THEN rejections + 1 ELSE rejections
                    /\ required' = IF message.kind \in {"delta", "snapshot"}
                                   THEN ~Observed(stored).valid ELSE required
                    /\ requests' = IF message.kind = "snapshot" THEN 0 ELSE requests
                    /\ UNCHANGED <<up, repair>>
    /\ UNCHANGED <<family, held, head>>

\* transport_loss, and where the live task is after it.
TransportLoss(after) ==
    /\ IF HasRoom(stored)
       THEN /\ stored' = OpenLoss(stored)
            /\ required' = (required \/ family = "book")
            /\ live' = after
            /\ UNCHANGED <<up, message, rejections, repair, requests>>
       ELSE TasksGone /\ UNCHANGED stored
    /\ UNCHANGED <<family, held, head, first>>

\* Budget or lane is full: the loss is recorded and the stream abandoned.
Overflow == up = "running" /\ live = "streaming" /\ TransportLoss("dropping")

\* A source that reconnects by itself reports what it lost.
ReportLoss == up = "running" /\ live = "streaming" /\ TransportLoss("streaming")

\* The stream ended, or could not be opened.
Disconnect == up = "running" /\ live # "accepted" /\ TransportLoss("connecting")

(***************************************************************************)
(* The repair task: candles from history, books by a new snapshot          *)
(***************************************************************************)
Pending == {i \in DOMAIN stored.spans : stored.spans[i].status = "pending" /\ stored.spans[i].end # None}

CanRepair == up = "running" /\ repair.at = "idle" /\ family = "candle" /\ Pending # {}

BeyondLimit(p) ==
    \/ p.attempts >= MaxPages
    \/ p.end - p.start > Interval * MaxCandles
    \/ (p.end - p.start) % Interval # 0

GiveUpRepair ==
    /\ CanRepair
    /\ BeyondLimit(stored.spans[Min(Pending)])
    /\ stored' = Exhaust(stored, Min(Pending))
    /\ UNCHANGED <<family, held, task, repair, snapshots, head, first>>

AttemptUncounted ==
    /\ CanRepair
    /\ ~BeyondLimit(stored.spans[Min(Pending)])
    /\ repair' = [Idle EXCEPT !.at = "fetch", !.index = Min(Pending)]
    /\ UNCHANGED <<family, stored, held, task, snapshots, head, first>>

\* The attempt is stored before the request is made.
Attempt ==
    /\ CanRepair
    /\ ~BeyondLimit(stored.spans[Min(Pending)])
    /\ stored' = Attempted(stored, Min(Pending))
    /\ repair' = [Idle EXCEPT !.at = "fetch", !.index = Min(Pending)]
    /\ UNCHANGED <<family, held, task, snapshots, head, first>>

\* The request is refused, times out or answers with what is no page of it.
FetchFails ==
    /\ repair.at = "fetch"
    /\ repair' = Idle
    /\ UNCHANGED <<family, stored, held, up, live, message, rejections, snapshots, head, first>>

\* Candles a page may hold: the span, one more on either side, below the cursor.
Window(p) ==
    {c \in Starts : /\ p.start - Interval <= c /\ c < p.end + Interval
                    /\ p.cursor # None => c < p.cursor
                    /\ c <= CandleStart(head)}

\* Pages go from the newest row backwards; a cursor names the oldest so far.
NextCursors(rows) == {None} \union (IF rows = {} THEN {} ELSE {Min(rows)})

Fetch ==
    /\ repair.at = "fetch"
    /\ \E rows \in SUBSET Window(stored.spans[repair.index]) :
         /\ Cardinality(rows) <= PageRecords
         /\ \E next \in NextCursors(rows) :
              repair' = [repair EXCEPT !.at = "rows", !.rows = rows, !.next = next]
    /\ UNCHANGED <<family, stored, held, task, snapshots, head, first>>

InSpan(start) == start \in Grid(stored.spans[repair.index])

\* is_final at the receipt of the page: not before the candle closed.
MayBeFinal(start) == Closed(start)

\* As if a row the clock cannot confirm proved its candle.
RowUnconfirmed(start, final) ==
    /\ up = "running" /\ repair.at = "rows"
    /\ start = Min(repair.rows)
    /\ final => MayBeFinal(start)
    /\ LET stores == start \notin stored.finals /\ InSpan(start) /\ final
       IN  /\ held' = IF stores THEN held \union {start} ELSE held
           /\ repair' = [repair EXCEPT !.rows = @ \ {start},
                                       !.proven = @ \union {start},
                                       !.finals = IF stores THEN @ \union {start} ELSE @]
    /\ UNCHANGED <<family, stored, task, snapshots, head, first>>

\* One row of the page.  An unknown one inside the span is stored, and proves
\* its candle if it is final for the clock; a known one proves it as it is.
Row(start, final) ==
    /\ up = "running" /\ repair.at = "rows"
    /\ start = Min(repair.rows)
    /\ final => MayBeFinal(start)
    /\ LET proves == start \in stored.finals \/ (InSpan(start) /\ final)
           stores == start \notin stored.finals /\ InSpan(start) /\ final
       IN  /\ held' = IF stores THEN held \union {start} ELSE held
           /\ repair' = [repair EXCEPT !.rows = @ \ {start},
                                       !.proven = IF proves THEN @ \union {start} ELSE @,
                                       !.finals = IF stores THEN @ \union {start} ELSE @]
    /\ UNCHANGED <<family, stored, task, snapshots, head, first>>

\* A row that contradicts a finalized candle, or is no candle, ends supervision.
RowConflict ==
    /\ up = "running" /\ repair.at = "rows" /\ repair.rows # {}
    /\ stored' = Exhaust(stored, repair.index)
    /\ TasksGone
    /\ UNCHANGED <<family, held, head, first>>

\* Once the flag is set the remaining rows of the page are left out.
RowsDone == repair.rows = {} \/ up = "stopping"

SavePage ==
    /\ repair.at = "rows" /\ RowsDone
    /\ stored' = RepairPage(stored, repair.index, repair)
    /\ repair' = Idle
    /\ UNCHANGED <<family, held, task, snapshots, head, first>>

AskSnapshot ==
    /\ up = "running" /\ repair.at = "idle" /\ family = "book" /\ required
    /\ IF requests >= MaxPages THEN TasksGone
       ELSE /\ repair' = [Idle EXCEPT !.at = "asking"]
            /\ requests' = requests + 1
            /\ UNCHANGED <<task, required>>
    /\ UNCHANGED <<family, stored, held, head, first>>

\* The flag is cleared after the answer, whatever was observed meanwhile.
Asked ==
    /\ repair.at = "asking"
    /\ repair' = Idle
    /\ required' = FALSE
    /\ UNCHANGED <<family, stored, held, task, requests, head, first>>

AskFails ==
    /\ repair.at = "asking"
    /\ repair' = Idle
    /\ UNCHANGED <<family, stored, held, up, live, message, rejections, snapshots, head, first>>

Live == Connect \/ (\E kind \in Kinds : Accept(kind)) \/ Observe \/ Overflow \/ ReportLoss \/ Disconnect

Repair ==
    \/ GiveUpRepair \/ Attempt \/ FetchFails \/ Fetch
    \/ \E start \in repair.rows, final \in BOOLEAN : Row(start, final)
    \/ RowConflict \/ SavePage \/ AskSnapshot \/ Asked \/ AskFails

Next == Begin \/ Die \/ StopIntake \/ Finish \/ Market \/ Live \/ Repair

Spec == Init /\ [][Next]_vars

\* The repair loop goes on, and the shared budget and the request gate, both
\* released or reopened by time, let it through in the end.
RepairFairness ==
    /\ WF_vars(GiveUpRepair \/ Attempt)
    /\ WF_vars(FetchFails \/ Fetch)
    /\ WF_vars(\E start \in repair.rows, final \in BOOLEAN : Row(start, final))
    /\ WF_vars(SavePage)

FairSpec == Spec /\ RepairFairness

(***************************************************************************)
(* Properties                                                              *)
(***************************************************************************)
Times == 0..((MaxHead + 1) * Interval)
SpanType ==
    [start : Times, end : Times \union {None}, status : Statuses,
     low : (0..MaxHead + 1) \union {None}, high : (0..MaxHead) \union {None},
     repaired : SUBSET Starts, cursor : Times \union {None}, attempts : 0..MaxPages]

SnapshotType ==
    [checkpoint : Times, last : Starts \union {None}, valid : BOOLEAN,
     sequence : (0..MaxHead) \union {None}, spans : Seq(SpanType),
     since : Times \union {None}, finals : SUBSET Starts]

PageType ==
    [at : {"idle", "fetch", "rows", "asking"}, index : Nat, rows : SUBSET Starts,
     proven : SUBSET Starts, finals : SUBSET Starts, next : Starts \union {None}]

MessageType ==
    [kind : {"none", "malformed", "provisional", "final", "plain", "delta", "snapshot"}, at : Times]

\* The history of losses, the cache of finalized candles and a page are within
\* their quotas (_SPAN_LIMIT, _REPAIR_CANDLES, page_records).
WithinQuotas ==
    /\ Len(stored.spans) < SpanLimit
    /\ Cardinality(stored.finals) <= RepairCandles
    /\ Cardinality(repair.rows) <= PageRecords

\* Every variable has its type, and what is kept is within its quota.
TypeOK ==
    /\ family \in Families
    /\ stored # NewStream => stored \in SnapshotType
    /\ WithinQuotas
    /\ held \subseteq Times
    /\ up \in {"down", "running", "stopping"}
    /\ live \in {"connecting", "streaming", "accepted", "dropping"}
    /\ message \in MessageType
    /\ rejections \in 0..(MaxRejections - 1)
    /\ repair \in PageType
    /\ required \in BOOLEAN /\ requests \in 0..MaxPages
    /\ head \in 0..MaxHead
    /\ first \in Times \union {None}

Outstanding(s, c) ==
    \E i \in Unresolved(s) : s.spans[i].start <= c /\ (s.spans[i].end = None \/ c < s.spans[i].end)

\* A finalized candle is in the journal, or a loss that is not repaired covers
\* it; below the checkpoint it is in the journal.
CandlesAccounted ==
    \A c \in Starts : first # None /\ first <= c =>
        /\ c + Interval <= stored.checkpoint => c \in held
        /\ c < stored.last => c \in held \/ Outstanding(stored, c)

\* A loss of unknown extent: a span without numbers, or a restart the full
\* history had no room for.
Uncounted(s) == s.since # None \/ \E i \in DOMAIN s.spans : s.spans[i].low = None

\* A trade number passed over is in the journal or in a recorded loss.
TradesAccounted ==
    Uncounted(stored) \/
        \A n \in first..stored.sequence :
            \/ n \in held
            \/ \E i \in DOMAIN stored.spans : stored.spans[i].low <= n /\ n <= stored.spans[i].high

\* A book called valid was fed every number since its snapshot.
BookContinuous == stored.valid => first..stored.sequence \subseteq held

\* Nothing the stream moved past is missing without a record of its loss,
\* whatever losses, crashes, restarts and repairs lie between
\* (coverage.py: _close_uncertain, _candle_gap, _observed_candle, begin).
NoSilentGap ==
    stored # NewStream =>
        /\ family = "candle" => CandlesAccounted
        /\ family = "trade" /\ stored.sequence # None => TradesAccounted
        /\ family = "book" => BookContinuous

\* coverage() answers "complete" only for a range whose finalized candles are
\* all in the journal (coverage.py: coverage, repair_page).
CoverageIsEarned ==
    (stored # NewStream /\ family = "candle") =>
        \A from, to \in Times :
            (from < to /\ Coverage(stored, from, to) = "complete") =>
                \A c \in Starts : from <= c /\ c < to => c \in held

LossesVisible(s, t) ==
    \A i \in DOMAIN s.spans :
        /\ i \in DOMAIN t.spans
        /\ LET p == s.spans[i]  q == t.spans[i] IN
           /\ q.start = p.start /\ p.end \in {None, q.end}
           /\ p.status = "unrecoverable" => q.status = "unrecoverable"
           /\ q.status = "complete" => p.status \in {"pending", "complete"}

\* No recorded loss is evicted, moved or shrunk, an unrecoverable one stays so,
\* and only a pending one becomes complete (begin, loss, repair_page, exhaust).
LossStaysVisible == [][stored # NewStream => LossesVisible(stored, stored')]_vars

IsPending(i) == stored # NewStream /\ i \in Pending /\ up = "running"

\* A pending span is settled, as complete or as unknown, while supervision runs
\* (supervisor.py: _repair, repair_once and its quota of attempts).
RepairSettles == \A i \in 1..(SpanLimit - 1) : IsPending(i) ~> ~IsPending(i)

\* "They do not invent missing counts": a gap with two bounds starts at a
\* candle that is missing (coverage.py: _candle_gap).
NoInventedGap ==
    [][stored # NewStream =>
        \A i \in DOMAIN stored'.spans \ DOMAIN stored.spans :
            stored'.spans[i].end # None => stored'.spans[i].start \notin held]_vars

\* "Never skip unacknowledged work": the cursor of a span moves past a page
\* only when every row of the page has been looked at (_intake_envelopes).
CursorFollowsWork ==
    [][stored # NewStream =>
        \A i \in DOMAIN stored.spans \intersect DOMAIN stored'.spans :
            stored'.spans[i].cursor \notin {None, stored.spans[i].cursor} => repair.rows = {}]_vars

=============================================================================
