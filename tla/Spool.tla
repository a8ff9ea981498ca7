------------------------------- MODULE Spool -------------------------------
(***************************************************************************)
(* The durable ingestor (ingestion/sqlite_spool.py): one writer thread     *)
(* owns the SQLite connection, callers put a request on one of two bounded *)
(* lanes and block on its future, close() stops the writer, and the        *)
(* process may die at any step.  What SQLite has committed survives; the   *)
(* lanes, the futures and the flags do not.                                *)
(***************************************************************************)
EXTENDS Naturals, Sequences, FiniteSets

CONSTANTS
    Callers,       \* threads that call the ingestor, each blocked in at most one call
    Keys,          \* recovery streams
    Capacity,      \* capacity of the intake lane
    MetaCapacity,  \* _METADATA_CAPACITY
    MetaStreams,   \* _METADATA_STREAMS, the quota of recovery streams
    MaxEnvelopes,  \* bound: envelopes one caller offers
    MaxRecords,    \* bound: rows of raw_records
    MaxVersion,    \* bound: successive values of one recovery stream
    MaxCrashes     \* bound: process deaths

ASSUME SpoolAssumption ==
    /\ Capacity \in Nat \ {0}
    /\ MetaCapacity \in Nat \ {0}
    /\ MetaStreams \in Nat
    /\ MaxEnvelopes \in Nat
    /\ MaxRecords \in Nat
    /\ MaxVersion \in Nat
    /\ MaxCrashes \in Nat

VARIABLES
    raw,        \* raw_records: the row at offset n is raw[n]
    meta,       \* recovery_state: the version stored under a key, 0 when absent
    up,         \* a process holds ingestion.lock and runs an ingestor
    fatal,      \* _fatal
    closing,    \* _closing
    closed,     \* _closed
    shutdown,   \* _shutdown
    requests,   \* _requests: callers whose status, read or accept waits
    metadata,   \* _metadata: callers whose recovery request waits
    request,    \* the request whose future a caller is blocked on
    writer,     \* where the writer thread is in _run
    active,     \* the request taken from a lane: the set of its caller, or {}
    answer,     \* what the writer is about to put in the active future
    nth,        \* the envelope a caller is trying to store
    acked,      \* history: [row, offset] of every RawRecord returned
    puts,       \* history: [caller, key, version] of every put that returned
    lost,       \* history: envelopes whose caller died without an answer
    overtaken,  \* history: intake requests taken past the waiting recovery request
    crashes     \* history: process deaths so far

durable   == <<raw, meta>>
lifecycle == <<up, fatal, closing, closed, shutdown>>
lanes     == <<requests, metadata, request>>
thread    == <<writer, active, answer>>
history   == <<acked, puts, lost, overtaken>>
vars == <<durable, lifecycle, lanes, thread, nth, history, crashes>>

IntakeOps == {"status", "accept"}

Intake   == [op : IntakeOps]
Recovery == [op : {"get"}, key : Keys]
                \cup [op : {"put"}, key : Keys, expected : 0 .. MaxVersion]
NoRequest == [op |-> "none"]
Waiting(c) == request[c] # NoRequest

Refusal   == [ok |-> FALSE, value |-> 0]
Result(v) == [ok |-> TRUE, value |-> v]

Row(c) == [caller |-> c, envelope |-> nth[c]]

Init ==
    /\ raw = <<>>
    /\ meta = [k \in Keys |-> 0]
    /\ up = FALSE
    /\ fatal = FALSE /\ closing = FALSE /\ closed = FALSE /\ shutdown = FALSE
    /\ requests = <<>> /\ metadata = <<>>
    /\ request = [c \in Callers |-> NoRequest]
    /\ writer = "stopped"
    /\ active = {}
    /\ answer = Refusal
    /\ nth = [c \in Callers |-> 1]
    /\ acked = {} /\ puts = {} /\ lost = {}
    /\ overtaken = 0
    /\ crashes = 0

(***************************************************************************)
(* The constructor takes the lock, opens the database (schema, migration   *)
(* and integrity are checked before the first request) and starts the      *)
(* writer.  WriterOwned and a refused database leave everything as it was. *)
(***************************************************************************)
Open ==
    /\ ~up
    /\ up' = TRUE
    /\ fatal' = FALSE /\ closing' = FALSE /\ closed' = FALSE /\ shutdown' = FALSE
    /\ writer' = "exit?"
    /\ UNCHANGED <<durable, lanes, active, answer, nth, history, crashes>>

-----------------------------------------------------------------------------
(* The caller's side: _submit under _lifecycle_lock, then the future. *)

(* Mutant: _submit does not look at _closing. *)
AdmitsWhileClosing == up /\ ~fatal /\ ~closed

Admits == up /\ ~fatal /\ ~closing /\ ~closed

SubmitIntake(c, r) ==
    /\ ~Waiting(c) /\ Admits
    /\ Len(requests) < Capacity
    /\ r.op = "accept" => nth[c] <= MaxEnvelopes
    /\ requests' = Append(requests, c)
    /\ request' = [request EXCEPT ![c] = r]
    /\ UNCHANGED <<durable, lifecycle, metadata, thread, nth, history, crashes>>

SubmitRecovery(c, r) ==
    /\ ~Waiting(c) /\ Admits
    /\ Len(metadata) < MetaCapacity
    /\ r.op = "put" => r.expected < MaxVersion
    /\ metadata' = Append(metadata, c)
    /\ request' = [request EXCEPT ![c] = r]
    /\ UNCHANGED <<durable, lifecycle, requests, thread, nth, history, crashes>>

(* After a refusal or a lost answer the caller may drop the envelope. *)
GiveUp(c) ==
    /\ ~Waiting(c)
    /\ nth[c] <= MaxEnvelopes
    /\ nth' = [nth EXCEPT ![c] = @ + 1]
    /\ UNCHANGED <<durable, lifecycle, lanes, thread, history, crashes>>

-----------------------------------------------------------------------------
(***************************************************************************)
(* The writer's loop.  The three reads of the exit condition and the two   *)
(* of _next_request are separate steps: callers and close() run between    *)
(* them.                                                                   *)
(***************************************************************************)
At(pc) == up /\ writer = pc

Goto(pc) == writer' = pc

CheckShutdown ==
    /\ At("exit?")
    /\ Goto(IF shutdown THEN "intakeEmpty?" ELSE "next")
    /\ UNCHANGED <<durable, lifecycle, lanes, active, answer, nth, history, crashes>>

CheckIntakeEmpty ==
    /\ At("intakeEmpty?")
    /\ Goto(IF requests = <<>> THEN "metadataEmpty?" ELSE "next")
    /\ UNCHANGED <<durable, lifecycle, lanes, active, answer, nth, history, crashes>>

CheckMetadataEmpty ==
    /\ At("metadataEmpty?")
    /\ Goto(IF metadata = <<>> THEN "stopped" ELSE "next")
    /\ UNCHANGED <<durable, lifecycle, lanes, active, answer, nth, history, crashes>>

TakeMetadata ==
    /\ At("next")
    /\ metadata # <<>>
    /\ active' = {Head(metadata)}
    /\ metadata' = Tail(metadata)
    /\ overtaken' = 0
    /\ Goto("serve")
    /\ UNCHANGED <<durable, lifecycle, requests, request, answer, nth, acked, puts, lost, crashes>>

(* Mutant: the metadata lane is not looked at first. *)
SkipMetadata ==
    /\ At("next")
    /\ Goto("intake")
    /\ UNCHANGED <<durable, lifecycle, lanes, active, answer, nth, history, crashes>>

NoMetadata ==
    /\ At("next")
    /\ metadata = <<>>
    /\ Goto("intake")
    /\ UNCHANGED <<durable, lifecycle, lanes, active, answer, nth, history, crashes>>

TakeIntake ==
    /\ At("intake")
    /\ requests # <<>>
    /\ active' = {Head(requests)}
    /\ requests' = Tail(requests)
    /\ overtaken' = IF metadata = <<>> THEN 0 ELSE overtaken + 1
    /\ Goto("serve")
    /\ UNCHANGED <<durable, lifecycle, metadata, request, answer, nth, acked, puts, lost, crashes>>

IntakeTimeout ==
    /\ At("intake")
    /\ requests = <<>>
    /\ Goto("exit?")
    /\ UNCHANGED <<durable, lifecycle, lanes, active, answer, nth, history, crashes>>

-----------------------------------------------------------------------------
(* One transaction per request; its answer is delivered by a later step. *)

(* _accept: the row is inserted, read back and committed. *)
Accept(c) ==
    /\ request[c].op = "accept"
    /\ Len(raw) < MaxRecords
    /\ raw' = Append(raw, Row(c))
    /\ answer' = Result(Len(raw) + 1)
    /\ UNCHANGED meta

(* _status and _read answer from what is committed. *)
Status(c) ==
    /\ request[c].op = "status"
    /\ answer' = Result(Len(raw))
    /\ UNCHANGED durable

Streams == {k \in Keys : meta[k] # 0}

(* Mutant: the expected value is not compared. *)
PutUnchecked(r) == meta[r.key] = 0 => Cardinality(Streams) < MetaStreams

(* _write_recovery: what the put needs of the stored value. *)
PutAllowed(r) ==
    /\ meta[r.key] = r.expected
    /\ meta[r.key] = 0 => Cardinality(Streams) < MetaStreams

(* _recovery: the put succeeds against the value it expects. *)
Put(c) ==
    /\ request[c].op = "put"
    /\ PutAllowed(request[c])
    /\ meta' = [meta EXCEPT ![request[c].key] = request[c].expected + 1]
    /\ answer' = Result(request[c].expected + 1)
    /\ UNCHANGED raw

Get(c) ==
    /\ request[c].op = "get"
    /\ answer' = Result(meta[request[c].key])
    /\ UNCHANGED durable

Serve(c) ==
    /\ At("serve") /\ c \in active
    /\ Accept(c) \/ Status(c) \/ Put(c) \/ Get(c)
    /\ Goto("reply")
    /\ UNCHANGED <<lifecycle, lanes, active, nth, history, crashes>>

(* Mutant: the result is handed over although the transaction failed. *)
RollBackAnswered(c) ==
    /\ At("serve") /\ c \in active
    /\ answer' = Result(Len(raw) + 1)
    /\ Goto("reply")
    /\ UNCHANGED <<durable, lifecycle, lanes, active, nth, history, crashes>>

(* Mutant: the row stays although the caller gets an error. *)
RollBackKeepsRow(c) ==
    /\ At("serve") /\ c \in active
    /\ raw' = IF request[c].op = "accept" /\ Len(raw) < MaxRecords
              THEN Append(raw, Row(c)) ELSE raw
    /\ answer' = Refusal
    /\ Goto("reply")
    /\ UNCHANGED <<meta, lifecycle, lanes, active, nth, history, crashes>>

(***************************************************************************)
(* The request fails before its commit: no headroom on the disk, a put     *)
(* refused by _write_recovery, a SQLite error.  ROLLBACK leaves the tables *)
(* as they were and the caller gets an IngestionError.                     *)
(***************************************************************************)
RollBack(c) ==
    /\ At("serve") /\ c \in active
    /\ answer' = Refusal
    /\ Goto("reply")
    /\ UNCHANGED <<durable, lifecycle, lanes, active, nth, history, crashes>>

(* ROLLBACK fails: _WriterFatal, and the connection is not used again. *)
RollBackFails(c) ==
    /\ At("serve") /\ c \in active
    /\ answer' = Refusal
    /\ Goto("fatal")
    /\ UNCHANGED <<durable, lifecycle, lanes, active, nth, history, crashes>>

(* What the future hands to the caller, as the caller remembers it. *)
Record(c) ==
    /\ acked' = IF answer.ok /\ request[c].op = "accept"
                THEN acked \cup {[row |-> Row(c), offset |-> answer.value]}
                ELSE acked
    /\ puts' = IF answer.ok /\ request[c].op = "put"
               THEN puts \cup {[caller |-> c, key |-> request[c].key,
                                version |-> answer.value]}
               ELSE puts
    /\ nth' = [nth EXCEPT ![c] = IF answer.ok /\ request[c].op = "accept"
                                 THEN @ + 1 ELSE @]

Deliver(c) ==
    /\ Record(c)
    /\ request' = [request EXCEPT ![c] = NoRequest]
    /\ active' = {}
    /\ answer' = Refusal

Reply(c) ==
    /\ At("reply") /\ c \in active
    /\ Deliver(c)
    /\ Goto("exit?")
    /\ UNCHANGED <<durable, lifecycle, requests, metadata, lost, overtaken, crashes>>

(* The fatal error reaches the active caller before the flag is raised. *)
ReplyFatal(c) ==
    /\ At("fatal") /\ c \in active
    /\ Deliver(c)
    /\ Goto("fail")
    /\ UNCHANGED <<durable, lifecycle, requests, metadata, lost, overtaken, crashes>>

-----------------------------------------------------------------------------
(* _fail_writer: flag, event, then both lanes are drained. *)

SetFatal ==
    /\ At("fail")
    /\ fatal' = TRUE
    /\ Goto("signal")
    /\ UNCHANGED <<durable, up, closing, closed, shutdown, lanes, active, answer, nth, history, crashes>>

SignalFatal ==
    /\ At("signal")
    /\ shutdown' = TRUE
    /\ Goto("drain")
    /\ UNCHANGED <<durable, up, fatal, closing, closed, lanes, active, answer, nth, history, crashes>>

DrainMetadata ==
    /\ At("drain")
    /\ metadata # <<>>
    /\ request' = [request EXCEPT ![Head(metadata)] = NoRequest]
    /\ metadata' = Tail(metadata)
    /\ overtaken' = 0
    /\ UNCHANGED <<durable, lifecycle, requests, thread, nth, acked, puts, lost, crashes>>

DrainIntake ==
    /\ At("drain")
    /\ metadata = <<>> /\ requests # <<>>
    /\ request' = [request EXCEPT ![Head(requests)] = NoRequest]
    /\ requests' = Tail(requests)
    /\ UNCHANGED <<durable, lifecycle, metadata, thread, nth, history, crashes>>

Drained ==
    /\ At("drain")
    /\ metadata = <<>> /\ requests = <<>>
    /\ Goto("stopped")
    /\ UNCHANGED <<durable, lifecycle, lanes, active, answer, nth, history, crashes>>

-----------------------------------------------------------------------------
(* close(): the flag under the lock, the event, the join. *)

CloseBegin ==
    /\ up /\ ~closing /\ ~closed
    /\ closing' = TRUE
    /\ UNCHANGED <<durable, up, fatal, closed, shutdown, lanes, thread, nth, history, crashes>>

(* Mutant: close() joins without setting the event. *)
CloseUnsignalled ==
    /\ up /\ closing /\ ~shutdown
    /\ UNCHANGED vars

CloseSignal ==
    /\ up /\ closing /\ ~shutdown
    /\ shutdown' = TRUE
    /\ UNCHANGED <<durable, up, fatal, closing, closed, lanes, thread, nth, history, crashes>>

(* The thread has ended: the lock is released and the object is closed. *)
CloseJoin ==
    /\ At("stopped")
    /\ closing /\ ~closed
    /\ closed' = TRUE
    /\ up' = FALSE
    /\ UNCHANGED <<durable, fatal, closing, shutdown, lanes, thread, nth, history, crashes>>

(* The process dies.  Only committed rows are left of it. *)
Crash ==
    /\ up /\ crashes < MaxCrashes
    /\ crashes' = crashes + 1
    /\ lost' = lost \cup {Row(c) : c \in {d \in Callers : request[d].op = "accept"}}
    /\ up' = FALSE
    /\ requests' = <<>> /\ metadata' = <<>>
    /\ request' = [c \in Callers |-> NoRequest]
    /\ writer' = "stopped" /\ active' = {} /\ answer' = Refusal
    /\ overtaken' = 0
    /\ UNCHANGED <<durable, fatal, closing, closed, shutdown, nth, acked, puts>>

-----------------------------------------------------------------------------
Submit ==
    \E c \in Callers :
        \/ \E r \in Intake : SubmitIntake(c, r)
        \/ \E r \in Recovery : SubmitRecovery(c, r)

WriterLoop ==
    \/ CheckShutdown \/ CheckIntakeEmpty \/ CheckMetadataEmpty
    \/ TakeMetadata \/ NoMetadata \/ TakeIntake \/ IntakeTimeout
    \/ \E c \in Callers : Serve(c) \/ RollBack(c) \/ RollBackFails(c)
                            \/ Reply(c) \/ ReplyFatal(c)
    \/ SetFatal \/ SignalFatal \/ DrainMetadata \/ DrainIntake \/ Drained

Close == CloseBegin \/ CloseSignal \/ CloseJoin

Next ==
    \/ Open
    \/ Submit
    \/ \E c \in Callers : GiveUp(c)
    \/ WriterLoop
    \/ Close
    \/ Crash

Spec == Init /\ [][Next]_vars

(* The writer thread runs, and a close() that has begun is carried through. *)
Fairness == WF_vars(WriterLoop) /\ WF_vars(CloseSignal) /\ WF_vars(CloseJoin)

FairSpec == Spec /\ Fairness
-----------------------------------------------------------------------------
Rows == [caller : Callers, envelope : 1 .. MaxEnvelopes + 1]

WriterStates == {"exit?", "intakeEmpty?", "metadataEmpty?", "next", "intake",
                 "serve", "reply", "fatal", "fail", "signal", "drain", "stopped"}

DurableOK ==
    /\ raw \in Seq(Rows)
    /\ meta \in [Keys -> 0 .. MaxVersion]

LifecycleOK ==
    /\ up \in BOOLEAN /\ fatal \in BOOLEAN /\ shutdown \in BOOLEAN
    /\ closing \in BOOLEAN /\ closed \in BOOLEAN

LanesOK ==
    /\ requests \in Seq(Callers) /\ Len(requests) <= Capacity
    /\ metadata \in Seq(Callers) /\ Len(metadata) <= MetaCapacity
    /\ request \in [Callers -> Intake \cup Recovery \cup {NoRequest}]

ThreadOK ==
    /\ writer \in WriterStates
    /\ active \in {{}} \cup {{c} : c \in Callers}
    /\ answer \in [ok : BOOLEAN, value : Nat]

HistoryOK ==
    /\ nth \in [Callers -> 1 .. MaxEnvelopes + 1]
    /\ acked \subseteq [row : Rows, offset : Nat]
    /\ puts \subseteq [caller : Callers, key : Keys, version : Nat]
    /\ lost \subseteq Rows
    /\ overtaken \in Nat
    /\ crashes \in 0 .. MaxCrashes

(* Every variable has its type, and neither lane outgrows its capacity     *)
(* (queue.Queue(maxsize=...) and put_nowait in _submit).                   *)
TypeOK == DurableOK /\ LifecycleOK /\ LanesOK /\ ThreadOK /\ HistoryOK

(* A RawRecord returned by accept() stays readable at its offset: the      *)
(* commit comes before the answer and no later failure takes it back.      *)
AcceptedIsDurable ==
    \A a \in acked : a.offset \in 1 .. Len(raw) /\ raw[a.offset] = a.row

(* accept() stores an envelope twice only when its caller lost an answer   *)
(* in a crash and offered it again: an IngestionError means not stored.    *)
StoredOnceUnlessAnswerLost ==
    \A i, j \in 1 .. Len(raw) : i # j /\ raw[i] = raw[j] => raw[i] \in lost

(* Two recovery_put() calls that expect the same value never both return:  *)
(* no update of a recovery stream is lost, across reopenings too.          *)
NoLostUpdate ==
    /\ \A p, q \in puts : p.key = q.key /\ p.version = q.version => p = q
    /\ \A p \in puts : p.version <= meta[p.key]

(* Nobody is left blocked on a future once the writer thread has ended,    *)
(* whichever way close(), _submit and _fail_writer interleaved.            *)
NoStrandedCaller == up /\ writer = "stopped" => \A c \in Callers : ~Waiting(c)

(* At most one intake request passes a waiting recovery request: the       *)
(* writer looks at the metadata lane before it blocks on the intake lane.  *)
BoundedOvertaking == overtaken <= 1

(* A close() that has begun ends with the lock released.                   *)
CloseCompletes == (up /\ closing) ~> ~up

(* A recovery request is answered however many intake requests keep coming *)
(* (or the process dies).                                                  *)
RecoveryAnswered ==
    \A c \in Callers :
        (request[c].op \in {"get", "put"}) ~> (request[c].op \notin {"get", "put"})
=============================================================================
