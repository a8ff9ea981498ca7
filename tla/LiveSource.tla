----------------------------- MODULE LiveSource -----------------------------
(***************************************************************************)
(* The live websocket source (sources/bybit_live.py) between the provider  *)
(* and the supervisor's ingest, and the SharedBudget (recovery/budget.py)  *)
(* that its intake shares with historical repair.  The reader task fills a *)
(* bounded queue, the stream() generator empties it: one record is yielded *)
(* and its lease kept until the supervisor asks for the next.              *)
(*                                                                         *)
(* A candle's successive states are numbered; the provider shows the       *)
(* present one when a subscription begins, and each new one after it.      *)
(***************************************************************************)
EXTENDS Naturals, Sequences, SequencesExt

CONSTANTS
    MaxUpdates,  \* bound: states of the market
    MaxBreaks,   \* bound: connections broken, refused or malformed; failed ingests
    IntakeLimit, \* _INTAKE_RECORD_LIMIT
    SeenLimit,   \* size of the replay cache
    Capacity,    \* SharedBudget: records
    Reserve,     \* SharedBudget: live_records
    Page         \* records of a historical page

ASSUME LiveSourceAssumption ==
    /\ {MaxUpdates, MaxBreaks} \subseteq Nat
    /\ {IntakeLimit, SeenLimit, Capacity, Reserve, Page} \subseteq Nat \ {0}
    /\ Reserve < Capacity

VARIABLES
    market,     \* external: the state the market is in
    wire,       \* messages sent and not yet read by this connection
    link,       \* down, up, or stalled: open, but nothing arrives any more
    reader,     \* the _pump task: none, reading or failed
    intake,     \* the bounded queue
    seen,       \* the replay cache, the oldest first
    yielded,    \* the record in the supervisor's hands, or 0
    closed,     \* _closed
    live, page, \* SharedBudget: records lent to intake, and to repair
    noticed,    \* a loss was reported (or supervision began) since the last connection
    stored,     \* history: what the supervisor has taken
    excused,    \* history: what the reported losses cover
    breaks

liveVars == <<market, wire, link, reader, intake, seen, yielded, closed, live, page,
              noticed, stored, excused, breaks>>

Held == yielded # 0
In(v, s) == \E i \in DOMAIN s : s[i] = v
Without(v, s) ==
    IF In(v, s) THEN RemoveAt(s, CHOOSE i \in DOMAIN s : s[i] = v) ELSE s
Stumbles == breaks < MaxBreaks /\ breaks' = breaks + 1

-----------------------------------------------------------------------------
(* SharedBudget *)

LiveAdmitted     == live + page + 1 <= Capacity
BackfillAdmitted == live + page + Page <= Capacity - Reserve

(* repair_once holds one page at a time, from before the fetch until it has *)
(* stored the rows, failed or been cancelled.                               *)
ReservePage ==
    /\ ~closed /\ page = 0
    /\ BackfillAdmitted
    /\ page' = Page
    /\ UNCHANGED <<market, wire, link, reader, intake, seen, yielded, closed, live,
                   noticed, stored, excused, breaks>>

ReleasePage ==
    /\ page > 0
    /\ page' = 0
    /\ UNCHANGED <<market, wire, link, reader, intake, seen, yielded, closed, live,
                   noticed, stored, excused, breaks>>

-----------------------------------------------------------------------------
(* The connection *)

Update ==
    /\ market < MaxUpdates
    /\ market' = market + 1
    /\ wire' = IF link = "up" THEN Append(wire, market + 1) ELSE wire
    /\ UNCHANGED <<link, reader, intake, seen, yielded, closed, live, page,
                   noticed, stored, excused, breaks>>

(* _connect and _subscribe, once the start gate lets it; a reported loss is *)
(* open until the state that the subscription shows.                        *)
Connect ==
    /\ ~closed /\ link = "down" /\ reader = "none" /\ market > 0
    /\ link' = "up" /\ reader' = "reading"
    /\ wire' = <<market>>
    /\ excused' = IF noticed THEN excused \cup 1 .. market - 1 ELSE excused
    /\ noticed' = FALSE
    /\ UNCHANGED <<market, intake, seen, yielded, closed, live, page, stored, breaks>>

ReaderFails == reader' = "failed" /\ link' = "down" /\ wire' = <<>>

(* A closed frame, a malformed message, a failed dial *)
Disconnect ==
    /\ Stumbles
    /\ reader = "reading" /\ ReaderFails
    /\ UNCHANGED <<market, intake, seen, yielded, closed, live, page,
                   noticed, stored, excused>>

(* Nothing arrives any more; the pong or the data deadline finds it out. *)
Stall ==
    /\ Stumbles
    /\ link = "up"
    /\ link' = "stalled" /\ wire' = <<>>
    /\ UNCHANGED <<market, reader, intake, seen, yielded, closed, live, page,
                   noticed, stored, excused>>

HeartbeatDeadline ==
    /\ link = "stalled" /\ reader = "reading"
    /\ ReaderFails
    /\ UNCHANGED <<market, intake, seen, yielded, closed, live, page,
                   noticed, stored, excused, breaks>>

(* _enqueue: a lease, a place, and only then an entry in the replay cache *)
Remember(v) ==
    LET longer == Append(Without(v, seen), v)
    IN  IF Len(longer) > SeenLimit THEN Tail(longer) ELSE longer

(* Mutant: the cache learns of a record before the queue has taken it. *)
EnqueueRemembered(v) ==
    /\ seen' = Remember(v)
    /\ IF LiveAdmitted /\ Len(intake) < IntakeLimit
       THEN /\ intake' = Append(intake, v)
            /\ live' = live + 1
            /\ wire' = Tail(wire)
            /\ UNCHANGED <<link, reader>>
       ELSE ReaderFails /\ UNCHANGED <<intake, live>>

Enqueue(v) ==
    IF LiveAdmitted /\ Len(intake) < IntakeLimit
    THEN /\ intake' = Append(intake, v)
         /\ live' = live + 1
         /\ seen' = Remember(v)
         /\ wire' = Tail(wire)
         /\ UNCHANGED <<link, reader>>
    ELSE ReaderFails /\ UNCHANGED <<intake, live, seen>>

(* _pump: a replay is dropped and stays in the cache. *)
Receive ==
    /\ reader = "reading" /\ wire # <<>>
    /\ IF In(Head(wire), seen)
       THEN /\ seen' = Remember(Head(wire))
            /\ wire' = Tail(wire)
            /\ UNCHANGED <<link, reader, intake, live>>
       ELSE Enqueue(Head(wire))
    /\ UNCHANGED <<market, yielded, closed, page, noticed, stored, excused, breaks>>

-----------------------------------------------------------------------------
(* The generator and the supervisor *)

Yield ==
    /\ ~closed /\ ~Held /\ intake # <<>>
    /\ yielded' = Head(intake)
    /\ intake' = Tail(intake)
    /\ UNCHANGED <<market, wire, link, reader, seen, closed, live, page,
                   noticed, stored, excused, breaks>>

Ingested ==
    /\ Held
    /\ stored' = stored \cup {yielded}
    /\ yielded' = 0 /\ live' = live - 1
    /\ UNCHANGED <<market, wire, link, reader, intake, seen, closed, page,
                   noticed, excused, breaks>>

(* Mutant: only the record in hand gives back its lease. *)
LeaveStreamHolding(leases) ==
    /\ reader' = "none" /\ link' = "down" /\ wire' = <<>>
    /\ intake' = <<>> /\ seen' = <<>> /\ yielded' = 0
    /\ live' = IF Held THEN live - 1 ELSE live

(* Leaving the generator: the reader is joined, the leases of what is still *)
(* queued are released; the next stream() starts with an empty cache.       *)
LeaveStream(leases) ==
    /\ reader' = "none" /\ link' = "down" /\ wire' = <<>>
    /\ intake' = <<>> /\ seen' = <<>> /\ yielded' = 0
    /\ live' = live - leases

(* transport_loss: the span runs from the checkpoint to the next observation. *)
ReportLoss ==
    /\ excused' = excused \cup 1 .. market
    /\ noticed' = TRUE

(* ingest meets a full spool: it reports the loss, and _live_once breaks. *)
Refused ==
    /\ Stumbles
    /\ Held /\ ~closed
    /\ LeaveStream(Len(intake) + 1)
    /\ ReportLoss
    /\ UNCHANGED <<market, closed, page, stored>>

(* _consume_intake raises what the reader raised once the queue is empty. *)
ReconnectAfterLoss ==
    /\ ~closed /\ reader = "failed" /\ intake = <<>> /\ ~Held
    /\ reader' = "none"
    /\ ReportLoss
    /\ UNCHANGED <<market, wire, link, intake, seen, yielded, closed, live, page,
                   stored, breaks>>

(* stop_intake and close: intake ends; a record in hand is still stored. *)
Close ==
    /\ ~closed
    /\ closed' = TRUE
    /\ UNCHANGED <<market, wire, link, reader, intake, seen, yielded, live, page,
                   noticed, stored, excused, breaks>>

FinishStream ==
    /\ closed /\ ~Held
    /\ reader # "none" \/ intake # <<>>
    /\ LeaveStream(Len(intake))
    /\ UNCHANGED <<market, closed, page, noticed, stored, excused, breaks>>

-----------------------------------------------------------------------------
LiveSourceInit ==
    /\ market = 0 /\ wire = <<>> /\ link = "down" /\ reader = "none"
    /\ intake = <<>> /\ seen = <<>> /\ yielded = 0 /\ closed = FALSE
    /\ live = 0 /\ page = 0 /\ noticed = TRUE
    /\ stored = {} /\ excused = {} /\ breaks = 0

LiveSourceNext ==
    \/ ReservePage \/ ReleasePage
    \/ Update \/ Connect \/ Disconnect \/ Stall \/ HeartbeatDeadline \/ Receive
    \/ Yield \/ Ingested \/ Refused \/ ReconnectAfterLoss
    \/ Close \/ FinishStream

LiveSourceSpec == LiveSourceInit /\ [][LiveSourceNext]_liveVars

-----------------------------------------------------------------------------
(* Properties *)

Quiet == link = "up" /\ wire = <<>> /\ intake = <<>> /\ ~Held /\ ~closed

(* What the supervisor is given has no hole that a reported loss does not    *)
(* cover, whatever overflowed, was refused, replayed or broken off; and with *)
(* a live connection and nothing on its way, the present state is stored: a  *)
(* record that overflowed is not taken for a replay after the reconnect.     *)
NothingLostSilently ==
    /\ \A v \in stored : 1 .. v \subseteq stored \cup excused
    /\ Quiet => market \in stored

(* The budget counts what is really held, on every way out of the intake;    *)
(* repair never borrows the records reserved for live intake.                *)
HeadroomKept ==
    /\ live = Len(intake) + (IF Held THEN 1 ELSE 0)
    /\ live + page <= Capacity
    /\ page <= Capacity - Reserve
    /\ live < Reserve => LiveAdmitted
=============================================================================
