---------------------------- MODULE SpoolProofs ----------------------------
(***************************************************************************)
(* Proofs about the durable ingestor, for any number of callers, streams   *)
(* and lanes of any capacity.  The invariant IInv adds to the type         *)
(* invariant where every blocked caller is (Tracked), what the writer has  *)
(* seen on its way out (Leaving), and what an answer not yet delivered     *)
(* stands for (Pending).                                                   *)
(***************************************************************************)
EXTENDS Spool, TLAPS

InLane(c, q) == \E i \in 1 .. Len(q) : q[i] = c
NoRepeat(q)  == \A i, j \in 1 .. Len(q) : q[i] = q[j] => i = j

(* What a request says of the envelope and of the value it was made with. *)
Bounded ==
    \A c \in Callers :
        /\ request[c].op = "accept" => nth[c] <= MaxEnvelopes
        /\ request[c].op = "put" => request[c].expected < MaxVersion

(* A caller is blocked exactly while its request is in one of three places. *)
Tracked ==
    /\ NoRepeat(requests) /\ NoRepeat(metadata)
    /\ \A c \in Callers : ~(InLane(c, requests) /\ InLane(c, metadata))
    /\ \A c \in active : ~InLane(c, requests) /\ ~InLane(c, metadata)
    /\ \A c \in Callers :
        Waiting(c) <=> c \in active \/ InLane(c, requests) \/ InLane(c, metadata)

(* A writer that has seen the event knows that nobody is admitted any more. *)
Leaving ==
    /\ ~up => writer = "stopped"
    /\ shutdown => closing \/ fatal
    /\ writer \in {"intakeEmpty?", "metadataEmpty?"} => shutdown
    /\ writer = "metadataEmpty?" => requests = <<>>
    /\ writer \in {"signal", "drain"} => fatal
    /\ writer = "stopped" => requests = <<>> /\ metadata = <<>>
    /\ writer = "stopped" /\ up => closing \/ fatal
    /\ writer \notin {"serve", "reply", "fatal"} => active = {}

(* An answer in the writer's hands tells what has been committed. *)
Pending ==
    writer \in {"reply", "fatal"} =>
        \A c \in active :
            /\ answer.ok /\ request[c].op = "accept" =>
                  answer.value \in 1 .. Len(raw) /\ raw[answer.value] = Row(c)
            /\ answer.ok /\ request[c].op = "put" =>
                  /\ answer.value = meta[request[c].key]
                  /\ \A p \in puts :
                        p.key = request[c].key => p.version < answer.value

(* The intake lane is not read twice while a recovery request waits. *)
Overtaking ==
    /\ overtaken <= 1
    /\ overtaken # 0 => metadata # <<>> /\ writer # "intake"

(* Where a stored row comes from: an envelope its caller is done with, one *)
(* whose answer a crash took, or the one the writer is about to answer.    *)
Answering(row) ==
    /\ writer \in {"reply", "fatal"} /\ answer.ok
    /\ \E c \in active : request[c].op = "accept" /\ row = Row(c)

Stored ==
    \A i \in 1 .. Len(raw) :
        \/ raw[i].envelope < nth[raw[i].caller]
        \/ raw[i] \in lost
        \/ Answering(raw[i])

IInv ==
    /\ TypeOK /\ Bounded /\ Tracked /\ Leaving /\ Pending
    /\ Overtaking /\ Stored
    /\ AcceptedIsDurable /\ NoLostUpdate /\ StoredOnceUnlessAnswerLost

-----------------------------------------------------------------------------
(* Lanes: what put_nowait and get_nowait do to the callers in one. *)

(* A new caller at the end of a lane it is not in. *)
LEMMA LaneAppend ==
    ASSUME NEW q \in Seq(Callers), NEW c \in Callers, NoRepeat(q), ~InLane(c, q)
    PROVE  /\ Append(q, c) \in Seq(Callers)
           /\ NoRepeat(Append(q, c))
           /\ Len(Append(q, c)) = Len(q) + 1
           /\ \A d : InLane(d, Append(q, c)) <=> d = c \/ InLane(d, q)
BY DEF InLane, NoRepeat

(* Taking the head of a lane takes one caller out of it. *)
LEMMA LaneTail ==
    ASSUME NEW q \in Seq(Callers), q # <<>>, NoRepeat(q)
    PROVE  /\ Head(q) \in Callers
           /\ Tail(q) \in Seq(Callers)
           /\ NoRepeat(Tail(q))
           /\ Len(Tail(q)) = Len(q) - 1
           /\ InLane(Head(q), q)
           /\ \A d : InLane(d, Tail(q)) <=> InLane(d, q) /\ d # Head(q)
BY DEF InLane, NoRepeat

(* Nobody is in an empty lane. *)
LEMMA LaneEmpty == \A d : ~InLane(d, <<>>) 
BY DEF InLane

LEMMA NoRepeatEmpty == NoRepeat(<<>>)
BY DEF NoRepeat

-----------------------------------------------------------------------------
(***************************************************************************)
(* Types.  The bounds on a request are what keeps nth and meta in range.   *)
(* Each action disturbs some parts of TypeOK and leaves the others alone.  *)
(***************************************************************************)

LEMMA DurableKept == DurableOK /\ UNCHANGED durable => DurableOK'
BY DEF DurableOK, durable

LEMMA LifecycleKept == LifecycleOK /\ UNCHANGED lifecycle => LifecycleOK'
BY DEF LifecycleOK, lifecycle

LEMMA LanesKept == LanesOK /\ UNCHANGED lanes => LanesOK'
BY DEF LanesOK, lanes

LEMMA ThreadKept == ThreadOK /\ UNCHANGED thread => ThreadOK'
BY DEF ThreadOK, thread

LEMMA HistoryKept == HistoryOK /\ UNCHANGED <<nth, history, crashes>> => HistoryOK'
BY DEF HistoryOK, history

(* The shape of a recovery request follows from its operation. *)
LEMMA RecoveryShape ==
    ASSUME LanesOK, NEW c \in Callers
    PROVE  /\ request[c].op = "put" => /\ request[c].key \in Keys
                                       /\ request[c].expected \in 0 .. MaxVersion
           /\ request[c].op = "get" => request[c].key \in Keys
BY DEF LanesOK, Intake, IntakeOps, Recovery, NoRequest

(* Handing an answer over keeps the history well typed. *)
LEMMA RecordStep ==
    ASSUME TypeOK, Bounded, NEW c \in Callers, Record(c),
           UNCHANGED <<lost, overtaken, crashes>>
    PROVE  HistoryOK'
<1>1. Row(c) \in Rows /\ answer.value \in Nat
  BY DEF TypeOK, HistoryOK, ThreadOK, Row, Rows
<1>2. nth' \in [Callers -> 1 .. MaxEnvelopes + 1]
  BY SpoolAssumption DEF TypeOK, HistoryOK, Record, Bounded
<1>3. acked' \subseteq [row : Rows, offset : Nat]
  BY <1>1 DEF TypeOK, HistoryOK, Record
<1>4. puts' \subseteq [caller : Callers, key : Keys, version : Nat]
  <2>1. CASE answer.ok /\ request[c].op = "put"
    <3>1. request[c].key \in Keys
      BY <2>1, RecoveryShape DEF TypeOK
    <3> QED
      BY <1>1, <2>1, <3>1 DEF TypeOK, HistoryOK, Record
  <2>2. CASE ~(answer.ok /\ request[c].op = "put")
    BY <2>2 DEF TypeOK, HistoryOK, Record
  <2> QED
    BY <2>1, <2>2
<1> QED
  BY <1>2, <1>3, <1>4 DEF TypeOK, HistoryOK

LEMMA TypeStep ==
    ASSUME TypeOK, Bounded, Tracked, [Next]_vars
    PROVE  TypeOK'
<1>1. CASE UNCHANGED vars
  <2> QED
    BY <1>1, DurableKept, LifecycleKept, LanesKept, ThreadKept, HistoryKept DEF TypeOK, vars, durable, lifecycle, lanes, thread, history
<1>2. ASSUME NEW c \in Callers, NEW r \in Intake, SubmitIntake(c, r) PROVE TypeOK'
  <2>1. LanesOK'
    BY <1>2, SpoolAssumption DEF TypeOK, SubmitIntake, LanesOK
  <2> QED
    BY <1>2, <2>1, DurableKept, LifecycleKept, ThreadKept, HistoryKept DEF TypeOK, SubmitIntake, durable, lifecycle, thread, history
<1>3. ASSUME NEW c \in Callers, NEW r \in Recovery, SubmitRecovery(c, r) PROVE TypeOK'
  <2>1. LanesOK'
    BY <1>3, SpoolAssumption DEF TypeOK, SubmitRecovery, LanesOK
  <2> QED
    BY <1>3, <2>1, DurableKept, LifecycleKept, ThreadKept, HistoryKept DEF TypeOK, SubmitRecovery, durable, lifecycle, thread, history
<1>4. CASE Open
  <2>1. LifecycleOK'
    BY <1>4 DEF TypeOK, Open, LifecycleOK
  <2>2. ThreadOK'
    BY <1>4 DEF TypeOK, Open, ThreadOK, WriterStates, thread
  <2> QED
    BY <1>4, <2>1, <2>2, DurableKept, LanesKept, HistoryKept DEF TypeOK, Open, durable, lanes, history
<1>5. ASSUME NEW c \in Callers, GiveUp(c) PROVE TypeOK'
  <2>1. HistoryOK'
    BY <1>5, SpoolAssumption DEF TypeOK, GiveUp, HistoryOK, history
  <2> QED
    BY <1>5, <2>1, DurableKept, LifecycleKept, LanesKept, ThreadKept DEF TypeOK, GiveUp, durable, lifecycle, lanes, thread
<1>6. CASE CheckShutdown
  <2>1. ThreadOK'
    BY <1>6 DEF TypeOK, CheckShutdown, ThreadOK, WriterStates, thread, Goto
  <2> QED
    BY <1>6, <2>1, DurableKept, LifecycleKept, LanesKept, HistoryKept DEF TypeOK, CheckShutdown, durable, lifecycle, lanes, history
<1>7. CASE CheckIntakeEmpty
  <2>1. ThreadOK'
    BY <1>7 DEF TypeOK, CheckIntakeEmpty, ThreadOK, WriterStates, thread, Goto
  <2> QED
    BY <1>7, <2>1, DurableKept, LifecycleKept, LanesKept, HistoryKept DEF TypeOK, CheckIntakeEmpty, durable, lifecycle, lanes, history
<1>8. CASE CheckMetadataEmpty
  <2>1. ThreadOK'
    BY <1>8 DEF TypeOK, CheckMetadataEmpty, ThreadOK, WriterStates, thread, Goto
  <2> QED
    BY <1>8, <2>1, DurableKept, LifecycleKept, LanesKept, HistoryKept DEF TypeOK, CheckMetadataEmpty, durable, lifecycle, lanes, history
<1>9. CASE TakeMetadata
  <2>1. LanesOK'
    BY <1>9, LaneTail, SpoolAssumption DEF TypeOK, TakeMetadata, LanesOK, Tracked
  <2>2. ThreadOK'
    BY <1>9, LaneTail DEF TypeOK, TakeMetadata, ThreadOK, WriterStates, Goto, Tracked, LanesOK
  <2>3. HistoryOK'
    BY <1>9 DEF TypeOK, TakeMetadata, HistoryOK, history
  <2> QED
    BY <1>9, <2>1, <2>2, <2>3, DurableKept, LifecycleKept DEF TypeOK, TakeMetadata, durable, lifecycle
<1>10. CASE NoMetadata
  <2>1. ThreadOK'
    BY <1>10 DEF TypeOK, NoMetadata, ThreadOK, WriterStates, thread, Goto
  <2> QED
    BY <1>10, <2>1, DurableKept, LifecycleKept, LanesKept, HistoryKept DEF TypeOK, NoMetadata, durable, lifecycle, lanes, history
<1>11. CASE TakeIntake
  <2>1. LanesOK'
    BY <1>11, LaneTail, SpoolAssumption DEF TypeOK, TakeIntake, LanesOK, Tracked
  <2>2. ThreadOK'
    BY <1>11, LaneTail DEF TypeOK, TakeIntake, ThreadOK, WriterStates, Goto, Tracked, LanesOK
  <2>3. HistoryOK'
    BY <1>11 DEF TypeOK, TakeIntake, HistoryOK, history
  <2> QED
    BY <1>11, <2>1, <2>2, <2>3, DurableKept, LifecycleKept DEF TypeOK, TakeIntake, durable, lifecycle
<1>12. CASE IntakeTimeout
  <2>1. ThreadOK'
    BY <1>12 DEF TypeOK, IntakeTimeout, ThreadOK, WriterStates, thread, Goto
  <2> QED
    BY <1>12, <2>1, DurableKept, LifecycleKept, LanesKept, HistoryKept DEF TypeOK, IntakeTimeout, durable, lifecycle, lanes, history
<1>13. ASSUME NEW c \in Callers, Serve(c) PROVE TypeOK'
  <2>1. ASSUME Accept(c) PROVE DurableOK' /\ ThreadOK'
    <3>1. Row(c) \in Rows
      BY DEF TypeOK, HistoryOK, Row, Rows
    <3>2. DurableOK' /\ ThreadOK'
      BY <1>13, <2>1, <3>1 DEF TypeOK, Serve, Accept, DurableOK, ThreadOK, Result, Goto, WriterStates
    <3> QED
      BY <3>2
  <2>2. ASSUME Put(c) PROVE DurableOK' /\ ThreadOK'
    <3>1. request[c].key \in Keys /\ request[c].expected + 1 \in 1 .. MaxVersion
      BY <2>2, RecoveryShape, SpoolAssumption DEF TypeOK, Put, Bounded
    <3>2. DurableOK' /\ ThreadOK'
      BY <1>13, <2>2, <3>1, SpoolAssumption DEF TypeOK, Serve, Put, DurableOK, ThreadOK, Result, Goto, WriterStates
    <3> QED
      BY <3>2
  <2>3. ASSUME Status(c) PROVE DurableOK' /\ ThreadOK'
    BY <1>13, <2>3 DEF TypeOK, Serve, Status, DurableOK, ThreadOK, Result, Goto, WriterStates, durable
  <2>4. ASSUME Get(c) PROVE DurableOK' /\ ThreadOK'
    <3>1. meta[request[c].key] \in Nat
      BY <2>4, RecoveryShape, SpoolAssumption DEF TypeOK, Get, DurableOK
    <3> QED
      BY <1>13, <2>4, <3>1 DEF TypeOK, Serve, Get, DurableOK, ThreadOK, Result, Goto, WriterStates, durable
  <2>5. DurableOK' /\ ThreadOK'
    BY <1>13, <2>1, <2>2, <2>3, <2>4 DEF Serve
  <2> QED
    BY <1>13, <2>5, LifecycleKept, LanesKept, HistoryKept DEF TypeOK, Serve, lifecycle, lanes, history
<1>14. ASSUME NEW c \in Callers, RollBack(c) PROVE TypeOK'
  <2>1. ThreadOK'
    BY <1>14 DEF TypeOK, RollBack, ThreadOK, WriterStates, Goto, Refusal
  <2> QED
    BY <1>14, <2>1, DurableKept, LifecycleKept, LanesKept, HistoryKept DEF TypeOK, RollBack, durable, lifecycle, lanes, history
<1>15. ASSUME NEW c \in Callers, RollBackFails(c) PROVE TypeOK'
  <2>1. ThreadOK'
    BY <1>15 DEF TypeOK, RollBackFails, ThreadOK, WriterStates, Goto, Refusal
  <2> QED
    BY <1>15, <2>1, DurableKept, LifecycleKept, LanesKept, HistoryKept DEF TypeOK, RollBackFails, durable, lifecycle, lanes, history
<1>16. ASSUME NEW c \in Callers, Reply(c) PROVE TypeOK'
  <2>1. LanesOK'
    BY <1>16 DEF TypeOK, Reply, Deliver, LanesOK, NoRequest
  <2>2. ThreadOK'
    BY <1>16 DEF TypeOK, Reply, Deliver, ThreadOK, WriterStates, Goto, Refusal
  <2>3. HistoryOK'
    BY <1>16, RecordStep DEF Reply, Deliver
  <2> QED
    BY <1>16, <2>1, <2>2, <2>3, DurableKept, LifecycleKept DEF TypeOK, Reply, durable, lifecycle
<1>17. ASSUME NEW c \in Callers, ReplyFatal(c) PROVE TypeOK'
  <2>1. LanesOK'
    BY <1>17 DEF TypeOK, ReplyFatal, Deliver, LanesOK, NoRequest
  <2>2. ThreadOK'
    BY <1>17 DEF TypeOK, ReplyFatal, Deliver, ThreadOK, WriterStates, Goto, Refusal
  <2>3. HistoryOK'
    BY <1>17, RecordStep DEF ReplyFatal, Deliver
  <2> QED
    BY <1>17, <2>1, <2>2, <2>3, DurableKept, LifecycleKept DEF TypeOK, ReplyFatal, durable, lifecycle
<1>18. CASE SetFatal
  <2>1. LifecycleOK'
    BY <1>18 DEF TypeOK, SetFatal, LifecycleOK
  <2>2. ThreadOK'
    BY <1>18 DEF TypeOK, SetFatal, ThreadOK, WriterStates, Goto
  <2> QED
    BY <1>18, <2>1, <2>2, DurableKept, LanesKept, HistoryKept DEF TypeOK, SetFatal, durable, lanes, history
<1>19. CASE SignalFatal
  <2>1. LifecycleOK'
    BY <1>19 DEF TypeOK, SignalFatal, LifecycleOK
  <2>2. ThreadOK'
    BY <1>19 DEF TypeOK, SignalFatal, ThreadOK, WriterStates, Goto
  <2> QED
    BY <1>19, <2>1, <2>2, DurableKept, LanesKept, HistoryKept DEF TypeOK, SignalFatal, durable, lanes, history
<1>20. CASE DrainMetadata
  <2>1. LanesOK'
    BY <1>20, LaneTail, SpoolAssumption DEF TypeOK, DrainMetadata, LanesOK, Tracked, NoRequest
  <2>2. HistoryOK'
    BY <1>20 DEF TypeOK, DrainMetadata, HistoryOK, history
  <2> QED
    BY <1>20, <2>1, <2>2, DurableKept, LifecycleKept, ThreadKept DEF TypeOK, DrainMetadata, durable, lifecycle, thread
<1>21. CASE DrainIntake
  <2>1. LanesOK'
    BY <1>21, LaneTail, SpoolAssumption DEF TypeOK, DrainIntake, LanesOK, Tracked, NoRequest
  <2> QED
    BY <1>21, <2>1, DurableKept, LifecycleKept, ThreadKept, HistoryKept DEF TypeOK, DrainIntake, durable, lifecycle, thread, history
<1>22. CASE Drained
  <2>1. ThreadOK'
    BY <1>22 DEF TypeOK, Drained, ThreadOK, WriterStates, Goto
  <2> QED
    BY <1>22, <2>1, DurableKept, LifecycleKept, LanesKept, HistoryKept DEF TypeOK, Drained, durable, lifecycle, lanes, history
<1>23. CASE CloseBegin
  <2>1. LifecycleOK'
    BY <1>23 DEF TypeOK, CloseBegin, LifecycleOK
  <2> QED
    BY <1>23, <2>1, DurableKept, LanesKept, ThreadKept, HistoryKept DEF TypeOK, CloseBegin, durable, lanes, thread, history
<1>24. CASE CloseSignal
  <2>1. LifecycleOK'
    BY <1>24 DEF TypeOK, CloseSignal, LifecycleOK
  <2> QED
    BY <1>24, <2>1, DurableKept, LanesKept, ThreadKept, HistoryKept DEF TypeOK, CloseSignal, durable, lanes, thread, history
<1>25. CASE CloseJoin
  <2>1. LifecycleOK'
    BY <1>25 DEF TypeOK, CloseJoin, LifecycleOK
  <2> QED
    BY <1>25, <2>1, DurableKept, LanesKept, ThreadKept, HistoryKept DEF TypeOK, CloseJoin, durable, lanes, thread, history
<1>26. CASE Crash
  <2>1. LifecycleOK'
    BY <1>26 DEF TypeOK, Crash, LifecycleOK
  <2>2. LanesOK'
    BY <1>26, SpoolAssumption DEF TypeOK, Crash, LanesOK, NoRequest
  <2>3. ThreadOK'
    BY <1>26 DEF TypeOK, Crash, ThreadOK, WriterStates, Refusal
  <2>4. HistoryOK'
    BY <1>26, SpoolAssumption DEF TypeOK, Crash, HistoryOK, Rows, Row, history
  <2> QED
    BY <1>26, <2>1, <2>2, <2>3, <2>4, DurableKept DEF TypeOK, Crash, durable
<1> QED
  BY <1>1, <1>2, <1>3, <1>4, <1>5, <1>6, <1>7, <1>8, <1>9, <1>10, <1>11, <1>12, <1>13, <1>14, <1>15, <1>16, <1>17, <1>18, <1>19, <1>20, <1>21, <1>22, <1>23, <1>24, <1>25, <1>26
  DEF Next, Submit, WriterLoop, Close

-----------------------------------------------------------------------------
(* The three parts that IInv adds, each kept by every step. *)

LEMMA BoundedStep ==
    ASSUME TypeOK, Bounded, [Next]_vars
    PROVE  Bounded'
<1>1. CASE UNCHANGED vars
  BY <1>1 DEF vars, Bounded, TypeOK, LanesOK, HistoryOK, NoRequest, Waiting,
    durable, lifecycle, lanes, thread, history
<1>2. ASSUME NEW c \in Callers, NEW r \in Intake, SubmitIntake(c, r) PROVE
  Bounded'
  BY <1>2 DEF SubmitIntake, Bounded, TypeOK, LanesOK, HistoryOK, NoRequest,
    Waiting, Intake, IntakeOps
<1>3. ASSUME NEW c \in Callers, NEW r \in Recovery, SubmitRecovery(c, r)
  PROVE Bounded'
  BY <1>3 DEF SubmitRecovery, Bounded, TypeOK, LanesOK, HistoryOK,
    NoRequest, Waiting, Recovery
<1>4. ASSUME NEW c \in Callers, GiveUp(c) PROVE Bounded'
  BY <1>4 DEF GiveUp, Bounded, TypeOK, LanesOK, HistoryOK, NoRequest,
    Waiting, lanes
<1>5. ASSUME NEW c \in Callers, Reply(c) PROVE Bounded'
  BY <1>5 DEF Reply, Deliver, Record, Bounded, TypeOK, LanesOK, HistoryOK,
    NoRequest, Waiting
<1>6. ASSUME NEW c \in Callers, ReplyFatal(c) PROVE Bounded'
  BY <1>6 DEF ReplyFatal, Deliver, Record, Bounded, TypeOK, LanesOK,
    HistoryOK, NoRequest, Waiting
<1>7. CASE DrainMetadata
  BY <1>7 DEF DrainMetadata, Bounded, TypeOK, LanesOK, HistoryOK, NoRequest,
    Waiting
<1>8. CASE DrainIntake
  BY <1>8 DEF DrainIntake, Bounded, TypeOK, LanesOK, HistoryOK, NoRequest,
    Waiting
<1>9. CASE Crash
  BY <1>9 DEF Crash, Bounded, TypeOK, LanesOK, HistoryOK, NoRequest, Waiting
<1>10. ASSUME NEW c \in Callers, Serve(c) \/ RollBack(c) \/ RollBackFails(c)
  PROVE Bounded'
  BY <1>10 DEF Serve, RollBack, RollBackFails, Bounded, lanes
<1>11. CASE Open \/ CheckShutdown \/ CheckIntakeEmpty \/ CheckMetadataEmpty
  \/ TakeMetadata \/ NoMetadata \/ TakeIntake \/ IntakeTimeout \/ SetFatal
  \/ SignalFatal \/ Drained \/ CloseBegin \/ CloseSignal \/ CloseJoin
  BY <1>11 DEF Open, CheckShutdown, CheckIntakeEmpty, CheckMetadataEmpty,
    TakeMetadata, NoMetadata, TakeIntake, IntakeTimeout, SetFatal,
    SignalFatal, Drained, CloseBegin, CloseSignal, CloseJoin, Bounded, lanes
<1> QED
  BY <1>1, <1>2, <1>3, <1>4, <1>5, <1>6, <1>7, <1>8, <1>9, <1>10, <1>11
  DEF Next, Submit, WriterLoop, Close

LEMMA TrackedStep ==
    ASSUME TypeOK, Tracked, Leaving, [Next]_vars
    PROVE  Tracked'
<1>1. CASE UNCHANGED vars
  BY <1>1 DEF vars, Tracked, Waiting, lanes, thread
<1>2. ASSUME NEW c \in Callers, NEW r \in Intake, SubmitIntake(c, r) PROVE
  Tracked'
  BY <1>2, LaneAppend DEF SubmitIntake, Tracked, TypeOK, LanesOK, ThreadOK,
    Waiting, NoRequest, Intake, IntakeOps, thread
<1>3. ASSUME NEW c \in Callers, NEW r \in Recovery, SubmitRecovery(c, r)
  PROVE Tracked'
  BY <1>3, LaneAppend DEF SubmitRecovery, Tracked, TypeOK, LanesOK,
    ThreadOK, Waiting, NoRequest, Recovery, thread
<1>4. ASSUME NEW c \in Callers, Reply(c) PROVE Tracked'
  BY <1>4 DEF Reply, Deliver, Tracked, TypeOK, LanesOK, ThreadOK, Waiting,
    NoRequest
<1>5. ASSUME NEW c \in Callers, ReplyFatal(c) PROVE Tracked'
  BY <1>5 DEF ReplyFatal, Deliver, Tracked, TypeOK, LanesOK, ThreadOK,
    Waiting, NoRequest
<1>6. CASE TakeMetadata
  BY <1>6, LaneTail DEF TakeMetadata, At, Leaving, Tracked, TypeOK, LanesOK,
    ThreadOK, Waiting, NoRequest
<1>7. CASE TakeIntake
  BY <1>7, LaneTail DEF TakeIntake, At, Leaving, Tracked, TypeOK, LanesOK,
    ThreadOK, Waiting, NoRequest
<1>8. CASE DrainMetadata
  BY <1>8, LaneTail DEF DrainMetadata, At, Leaving, Tracked, TypeOK,
    LanesOK, ThreadOK, Waiting, NoRequest, thread
<1>9. CASE DrainIntake
  BY <1>9, LaneTail DEF DrainIntake, At, Leaving, Tracked, TypeOK, LanesOK,
    ThreadOK, Waiting, NoRequest, thread
<1>10. CASE Crash
  BY <1>10, LaneEmpty, NoRepeatEmpty DEF Crash, Tracked, TypeOK, LanesOK,
    ThreadOK, Waiting, NoRequest
<1>11. ASSUME NEW c \in Callers, GiveUp(c) \/ Serve(c) \/ RollBack(c) \/
  RollBackFails(c) PROVE Tracked'
  BY <1>11 DEF GiveUp, Serve, RollBack, RollBackFails, Tracked, Waiting,
    lanes, thread
<1>12. CASE Open \/ CheckShutdown \/ CheckIntakeEmpty \/ CheckMetadataEmpty
  \/ NoMetadata \/ IntakeTimeout \/ SetFatal \/ SignalFatal \/ Drained \/
  CloseBegin \/ CloseSignal \/ CloseJoin
  BY <1>12 DEF Open, CheckShutdown, CheckIntakeEmpty, CheckMetadataEmpty,
    NoMetadata, IntakeTimeout, SetFatal, SignalFatal, Drained, CloseBegin,
    CloseSignal, CloseJoin, Tracked, Waiting, lanes, thread
<1> QED
  BY <1>1, <1>2, <1>3, <1>4, <1>5, <1>6, <1>7, <1>8, <1>9, <1>10, <1>11,
    <1>12
  DEF Next, Submit, WriterLoop, Close

LEMMA LeavingStep ==
    ASSUME TypeOK, Leaving, [Next]_vars
    PROVE  Leaving'
<1>1. CASE UNCHANGED vars
  BY <1>1 DEF vars, Leaving, lifecycle, lanes, thread, At, Goto
<1>2. ASSUME NEW c \in Callers, NEW r \in Intake, SubmitIntake(c, r) PROVE
  Leaving'
  BY <1>2 DEF SubmitIntake, Admits, Leaving, lifecycle, lanes, thread, At,
    Goto
<1>3. ASSUME NEW c \in Callers, NEW r \in Recovery, SubmitRecovery(c, r)
  PROVE Leaving'
  BY <1>3 DEF SubmitRecovery, Admits, Leaving, lifecycle, lanes, thread, At,
    Goto
<1>4. ASSUME NEW c \in Callers, GiveUp(c) PROVE Leaving'
  BY <1>4 DEF GiveUp, Leaving, lifecycle, lanes, thread, At, Goto
<1>5. ASSUME NEW c \in Callers, Serve(c) PROVE Leaving'
  BY <1>5 DEF Serve, Leaving, lifecycle, lanes, thread, At, Goto
<1>6. ASSUME NEW c \in Callers, RollBack(c) PROVE Leaving'
  BY <1>6 DEF RollBack, Leaving, lifecycle, lanes, thread, At, Goto
<1>7. ASSUME NEW c \in Callers, RollBackFails(c) PROVE Leaving'
  BY <1>7 DEF RollBackFails, Leaving, lifecycle, lanes, thread, At, Goto
<1>8. ASSUME NEW c \in Callers, Reply(c) PROVE Leaving'
  BY <1>8 DEF Reply, Deliver, Leaving, lifecycle, lanes, thread, At, Goto
<1>9. ASSUME NEW c \in Callers, ReplyFatal(c) PROVE Leaving'
  BY <1>9 DEF ReplyFatal, Deliver, Leaving, lifecycle, lanes, thread, At,
    Goto
<1>10. CASE Open
  BY <1>10 DEF Open, Leaving, lifecycle, lanes, thread, At, Goto
<1>11. CASE CheckShutdown
  BY <1>11 DEF CheckShutdown, Leaving, lifecycle, lanes, thread, At, Goto
<1>12. CASE CheckIntakeEmpty
  BY <1>12 DEF CheckIntakeEmpty, Leaving, lifecycle, lanes, thread, At, Goto
<1>13. CASE CheckMetadataEmpty
  BY <1>13 DEF CheckMetadataEmpty, Leaving, lifecycle, lanes, thread, At,
    Goto
<1>14. CASE TakeMetadata
  BY <1>14 DEF TakeMetadata, Leaving, lifecycle, lanes, thread, At, Goto
<1>15. CASE NoMetadata
  BY <1>15 DEF NoMetadata, Leaving, lifecycle, lanes, thread, At, Goto
<1>16. CASE TakeIntake
  BY <1>16 DEF TakeIntake, Leaving, lifecycle, lanes, thread, At, Goto
<1>17. CASE IntakeTimeout
  BY <1>17 DEF IntakeTimeout, Leaving, lifecycle, lanes, thread, At, Goto
<1>18. CASE SetFatal
  BY <1>18 DEF SetFatal, Leaving, lifecycle, lanes, thread, At, Goto
<1>19. CASE SignalFatal
  BY <1>19 DEF SignalFatal, Leaving, lifecycle, lanes, thread, At, Goto
<1>20. CASE DrainMetadata
  BY <1>20 DEF DrainMetadata, Leaving, lifecycle, lanes, thread, At, Goto
<1>21. CASE DrainIntake
  BY <1>21 DEF DrainIntake, Leaving, lifecycle, lanes, thread, At, Goto
<1>22. CASE Drained
  BY <1>22 DEF Drained, Leaving, lifecycle, lanes, thread, At, Goto
<1>23. CASE CloseBegin
  BY <1>23 DEF CloseBegin, Leaving, lifecycle, lanes, thread, At, Goto
<1>24. CASE CloseSignal
  BY <1>24 DEF CloseSignal, Leaving, lifecycle, lanes, thread, At, Goto
<1>25. CASE CloseJoin
  BY <1>25 DEF CloseJoin, Leaving, lifecycle, lanes, thread, At, Goto
<1>26. CASE Crash
  BY <1>26 DEF Crash, Leaving, lifecycle, lanes, thread, At, Goto
<1> QED
  BY <1>1, <1>2, <1>3, <1>4, <1>5, <1>6, <1>7, <1>8, <1>9, <1>10, <1>11,
    <1>12, <1>13, <1>14, <1>15, <1>16, <1>17, <1>18, <1>19, <1>20, <1>21,
    <1>22, <1>23, <1>24, <1>25, <1>26
  DEF Next, Submit, WriterLoop, Close

-----------------------------------------------------------------------------
(* Answers: the row is there when it is acknowledged, the put is the last. *)

LEMMA ServeAnswer ==
    ASSUME IInv, NEW c \in Callers, Serve(c)
    PROVE  Pending' /\ AcceptedIsDurable' /\ NoLostUpdate'
<1> USE DEF IInv, TypeOK, Serve, Goto, history
<1>1. active = {c} /\ request' = request /\ nth' = nth /\ active' = active
  BY DEF ThreadOK, lanes
<1>2. ASSUME Accept(c) PROVE Pending' /\ AcceptedIsDurable' /\ NoLostUpdate'
  <2>1. raw' = Append(raw, Row(c)) /\ answer' = Result(Len(raw) + 1) /\ meta' = meta
    BY <1>2 DEF Accept
  <2>2. /\ Len(raw') = Len(raw) + 1
        /\ raw'[Len(raw) + 1] = Row(c)
        /\ \A i \in 1 .. Len(raw) : raw'[i] = raw[i]
    BY <2>1 DEF DurableOK
  <2>3. Pending'
    BY <1>1, <1>2, <2>1, <2>2 DEF Pending, Accept, Result, Row, DurableOK
  <2>4. AcceptedIsDurable' /\ NoLostUpdate'
    BY <2>1, <2>2 DEF AcceptedIsDurable, NoLostUpdate, DurableOK
  <2> QED
    BY <2>3, <2>4
<1>3. ASSUME Put(c) PROVE Pending' /\ AcceptedIsDurable' /\ NoLostUpdate'
  <2> DEFINE k == request[c].key
  <2>1. /\ k \in Keys /\ meta[k] = request[c].expected /\ raw' = raw
        /\ meta' = [meta EXCEPT ![k] = meta[k] + 1]
        /\ answer' = Result(meta[k] + 1)
    BY <1>3, RecoveryShape DEF Put, PutAllowed
  <2>2. meta'[k] = meta[k] + 1 /\ meta[k] \in Nat
    BY <2>1, SpoolAssumption DEF DurableOK
  <2>3. \A p \in puts : p.key = k => p.version < meta[k] + 1
    BY <2>1, <2>2 DEF NoLostUpdate, HistoryOK
  <2>4. Pending'
    BY <1>1, <1>3, <2>1, <2>2, <2>3 DEF Pending, Put, Result
  <2>5. \A p \in puts : p.version <= meta'[p.key]
    BY <2>1, <2>2, <2>3 DEF NoLostUpdate, HistoryOK, DurableOK
  <2> QED
    BY <2>1, <2>4, <2>5 DEF AcceptedIsDurable, NoLostUpdate
<1>4. ASSUME Status(c) \/ Get(c)
      PROVE  Pending' /\ AcceptedIsDurable' /\ NoLostUpdate'
  BY <1>1, <1>4 DEF Status, Get, Pending, AcceptedIsDurable, NoLostUpdate, durable
<1> QED
  BY <1>2, <1>3, <1>4

LEMMA DeliverAnswer ==
    ASSUME IInv, NEW c \in active, writer \in {"reply", "fatal"}, Deliver(c),
           UNCHANGED durable, writer' \notin {"reply", "fatal"}
    PROVE  Pending' /\ AcceptedIsDurable' /\ NoLostUpdate'
<1>1. Pending'
  BY DEF Pending
<1>2. AcceptedIsDurable'
  BY DEF IInv, Pending, AcceptedIsDurable, Deliver, Record, durable
<1>3. ASSUME answer.ok, request[c].op = "put" PROVE NoLostUpdate'
  <2>1. puts' = puts \cup {[caller |-> c, key |-> request[c].key,
                          version |-> answer.value]}
    BY <1>3 DEF Deliver, Record
  <2>2. c \in Callers /\ request[c].key \in Keys
    BY <1>3, RecoveryShape DEF IInv, TypeOK, ThreadOK
  <2>3. /\ answer.value = meta[request[c].key] /\ answer.value \in Nat
        /\ \A p \in puts : p.key = request[c].key => p.version < answer.value
    BY <1>3 DEF IInv, Pending, TypeOK, ThreadOK
  <2>4. \A p \in puts : p.version \in Nat
    BY DEF IInv, TypeOK, HistoryOK
  <2> QED
    BY <2>1, <2>2, <2>3, <2>4 DEF IInv, NoLostUpdate, durable
<1>4. ASSUME ~(answer.ok /\ request[c].op = "put") PROVE NoLostUpdate'
  BY <1>4 DEF IInv, NoLostUpdate, Deliver, Record, durable
<1> QED
  BY <1>1, <1>2, <1>3, <1>4

LEMMA AnswerStep ==
    ASSUME IInv, [Next]_vars
    PROVE  Pending' /\ AcceptedIsDurable' /\ NoLostUpdate'
<1> DEFINE Goal == (Pending /\ AcceptedIsDurable /\ NoLostUpdate)'
<1> USE DEF IInv, AcceptedIsDurable, NoLostUpdate
<1>1. CASE UNCHANGED vars
  BY <1>1 DEF vars, Pending, durable, lifecycle, lanes, thread, history,
    Row, At, Goto
<1>2. ASSUME NEW c \in Callers, NEW r \in Intake, SubmitIntake(c, r) PROVE
  Goal
  BY <1>2 DEF SubmitIntake, Tracked, TypeOK, LanesOK, ThreadOK, Pending,
    durable, lifecycle, lanes, thread, history, Row, At, Goto
<1>3. ASSUME NEW c \in Callers, NEW r \in Recovery, SubmitRecovery(c, r)
  PROVE Goal
  BY <1>3 DEF SubmitRecovery, Tracked, TypeOK, LanesOK, ThreadOK, Pending,
    durable, lifecycle, lanes, thread, history, Row, At, Goto
<1>4. ASSUME NEW c \in Callers, GiveUp(c) PROVE Goal
  BY <1>4 DEF GiveUp, Tracked, TypeOK, HistoryOK, ThreadOK, Pending,
    durable, lifecycle, lanes, thread, history, Row, At, Goto
<1>5. ASSUME NEW c \in Callers, Serve(c) PROVE Goal
  BY <1>5, ServeAnswer
<1>6. ASSUME NEW c \in Callers, RollBack(c) PROVE Goal
  BY <1>6 DEF RollBack, Refusal, Pending, durable, lifecycle, lanes, thread,
    history, Row, At, Goto
<1>7. ASSUME NEW c \in Callers, RollBackFails(c) PROVE Goal
  BY <1>7 DEF RollBackFails, Refusal, Pending, durable, lifecycle, lanes,
    thread, history, Row, At, Goto
<1>8. ASSUME NEW c \in Callers, Reply(c) PROVE Goal
  BY <1>8, DeliverAnswer DEF Reply, At, Goto
<1>9. ASSUME NEW c \in Callers, ReplyFatal(c) PROVE Goal
  BY <1>9, DeliverAnswer DEF ReplyFatal, At, Goto
<1>10. CASE Open \/ CheckShutdown \/ CheckIntakeEmpty \/ CheckMetadataEmpty
  \/ TakeMetadata \/ NoMetadata \/ TakeIntake \/ IntakeTimeout \/ SetFatal
  \/ SignalFatal \/ DrainMetadata \/ DrainIntake \/ Drained \/ CloseBegin \/
  CloseSignal \/ CloseJoin \/ Crash
  BY <1>10 DEF Open, CheckShutdown, CheckIntakeEmpty, CheckMetadataEmpty,
    TakeMetadata, NoMetadata, TakeIntake, IntakeTimeout, SetFatal,
    SignalFatal, DrainMetadata, DrainIntake, Drained, CloseBegin,
    CloseSignal, CloseJoin, Crash, Pending, durable, lifecycle, lanes,
    thread, history, Row, At, Goto
<1> QED
  BY <1>1, <1>2, <1>3, <1>4, <1>5, <1>6, <1>7, <1>8, <1>9, <1>10
  DEF Next, Submit, WriterLoop, Close

-----------------------------------------------------------------------------
(* Overtaking, and where the rows come from. *)

LEMMA OvertakingStep ==
    ASSUME TypeOK, Overtaking, [Next]_vars
    PROVE  Overtaking'
<1>1. CASE UNCHANGED vars
  BY <1>1 DEF vars, Overtaking, TypeOK, HistoryOK, LanesOK, lifecycle,
    lanes, thread, history, At, Goto
<1>2. ASSUME NEW c \in Callers, NEW r \in Recovery, SubmitRecovery(c, r)
  PROVE Overtaking'
  <2>1. metadata' # <<>>
    BY <1>2 DEF SubmitRecovery, TypeOK, LanesOK
  <2> QED
    BY <1>2, <2>1 DEF SubmitRecovery, Overtaking, thread, history
<1>3. ASSUME NEW c \in Callers, Reply(c) PROVE Overtaking'
  BY <1>3 DEF Reply, Deliver, Overtaking, TypeOK, HistoryOK, LanesOK,
    lifecycle, lanes, thread, history, At, Goto
<1>4. ASSUME NEW c \in Callers, ReplyFatal(c) PROVE Overtaking'
  BY <1>4 DEF ReplyFatal, Deliver, Overtaking, TypeOK, HistoryOK, LanesOK,
    lifecycle, lanes, thread, history, At, Goto
<1>5. CASE TakeMetadata
  BY <1>5 DEF TakeMetadata, Overtaking, TypeOK, HistoryOK, LanesOK,
    lifecycle, lanes, thread, history, At, Goto
<1>6. CASE NoMetadata
  BY <1>6 DEF NoMetadata, Overtaking, TypeOK, HistoryOK, LanesOK, lifecycle,
    lanes, thread, history, At, Goto
<1>7. CASE TakeIntake
  BY <1>7 DEF TakeIntake, Overtaking, TypeOK, HistoryOK, LanesOK, lifecycle,
    lanes, thread, history, At, Goto
<1>8. CASE DrainMetadata
  BY <1>8 DEF DrainMetadata, Overtaking, TypeOK, HistoryOK, LanesOK,
    lifecycle, lanes, thread, history, At, Goto
<1>9. ASSUME NEW c \in Callers, NEW r \in Intake, SubmitIntake(c, r) PROVE
  Overtaking'
  BY <1>9 DEF SubmitIntake, Overtaking, TypeOK, HistoryOK, LanesOK,
    lifecycle, lanes, thread, history, At, Goto
<1>10. ASSUME NEW c \in Callers, GiveUp(c) \/ Serve(c) \/ RollBack(c) \/
  RollBackFails(c) PROVE Overtaking'
  BY <1>10 DEF GiveUp, Serve, RollBack, RollBackFails, Overtaking, TypeOK,
    HistoryOK, LanesOK, lifecycle, lanes, thread, history, At, Goto
<1>11. CASE Open \/ CheckShutdown \/ CheckIntakeEmpty \/ CheckMetadataEmpty
  \/ IntakeTimeout \/ SetFatal \/ SignalFatal \/ DrainIntake \/ Drained \/
  CloseBegin \/ CloseSignal \/ CloseJoin \/ Crash
  BY <1>11 DEF Open, CheckShutdown, CheckIntakeEmpty, CheckMetadataEmpty,
    IntakeTimeout, SetFatal, SignalFatal, DrainIntake, Drained, CloseBegin,
    CloseSignal, CloseJoin, Crash, Overtaking, TypeOK, HistoryOK, LanesOK,
    lifecycle, lanes, thread, history, At, Goto
<1> QED
  BY <1>1, <1>2, <1>3, <1>4, <1>5, <1>6, <1>7, <1>8, <1>9, <1>10, <1>11
  DEF Next, Submit, WriterLoop, Close

(* An accepted row is new, unless its envelope was lost in a crash. *)
LEMMA ServeStored ==
    ASSUME IInv, NEW c \in Callers, Serve(c)
    PROVE  Stored' /\ StoredOnceUnlessAnswerLost'
<1> USE DEF IInv, TypeOK, Serve, At, Goto, history
<1>1. /\ active = {c} /\ request' = request /\ nth' = nth /\ active' = active
      /\ lost' = lost /\ writer = "serve" /\ writer' = "reply"
  BY DEF ThreadOK, lanes
<1>2. \A i \in 1 .. Len(raw) : raw[i].envelope < nth[raw[i].caller] \/ raw[i] \in lost
  BY <1>1 DEF Stored, Answering
<1>3. ASSUME Accept(c) PROVE Stored' /\ StoredOnceUnlessAnswerLost'
  <2>1. /\ raw' = Append(raw, Row(c)) /\ answer'.ok /\ request[c].op = "accept"
        /\ Row(c)' = Row(c)
    BY <1>1, <1>3 DEF Accept, Result, Row
  <2>2. /\ Len(raw) \in Nat /\ Len(raw') = Len(raw) + 1
        /\ raw'[Len(raw) + 1] = Row(c)
        /\ \A i \in 1 .. Len(raw) : raw'[i] = raw[i]
    BY <2>1 DEF DurableOK
  <2>3. Stored'
    BY <1>1, <1>2, <2>1, <2>2 DEF Stored, Answering
  <2>4. \A i \in 1 .. Len(raw) : raw[i] = Row(c) => raw[i] \in lost
    BY <1>2 DEF Row, HistoryOK
  <2>5. StoredOnceUnlessAnswerLost'
    BY <1>1, <2>2, <2>4 DEF StoredOnceUnlessAnswerLost
  <2> QED
    BY <2>3, <2>5
<1>4. ASSUME Status(c) \/ Put(c) \/ Get(c)
      PROVE  Stored' /\ StoredOnceUnlessAnswerLost'
  <2>1. raw' = raw
    BY <1>4 DEF Status, Put, Get, durable
  <2> QED
    BY <1>1, <1>2, <2>1 DEF Stored, StoredOnceUnlessAnswerLost
<1> QED
  BY <1>3, <1>4

LEMMA DeliverStored ==
    ASSUME IInv, NEW c \in active, Deliver(c), UNCHANGED <<durable, lost>>
    PROVE  Stored' /\ StoredOnceUnlessAnswerLost'
<1> USE DEF IInv, TypeOK, durable
<1>1. active = {c} /\ c \in Callers
  BY DEF ThreadOK
<1>2. ASSUME NEW i \in 1 .. Len(raw)
      PROVE  raw[i].envelope < nth'[raw[i].caller] \/ raw[i] \in lost
  <2>a. raw[i] \in Rows
    BY DEF DurableOK
  <2>b. nth \in [Callers -> Nat]
    BY SpoolAssumption DEF HistoryOK
  <2>1. /\ raw[i].caller \in Callers /\ raw[i].envelope \in Nat
        /\ nth[raw[i].caller] \in Nat /\ nth[c] \in Nat
    BY <1>1, <2>a, <2>b, SpoolAssumption DEF Rows
  <2>2. /\ nth'[raw[i].caller] \in Nat
        /\ nth'[raw[i].caller] >= nth[raw[i].caller]
    BY <2>1 DEF Deliver, Record, HistoryOK
  <2>3. ASSUME Answering(raw[i]) PROVE raw[i].envelope < nth'[raw[i].caller]
    BY <1>1, <2>1, <2>3 DEF Answering, Deliver, Record, Row, HistoryOK
  <2> QED
    BY <2>1, <2>2, <2>3 DEF Stored
<1> QED
  BY <1>2 DEF Stored, StoredOnceUnlessAnswerLost

(* What the other steps leave alone. *)
LEMMA StoredFrame ==
    ASSUME Stored, StoredOnceUnlessAnswerLost, UNCHANGED <<raw, nth, lost>>,
           \A i \in 1 .. Len(raw) : Answering(raw[i]) => Answering(raw[i])'
    PROVE  Stored' /\ StoredOnceUnlessAnswerLost'
BY DEF Stored, StoredOnceUnlessAnswerLost

LEMMA StoredStep ==
    ASSUME IInv, [Next]_vars
    PROVE  Stored' /\ StoredOnceUnlessAnswerLost'
<1> DEFINE Goal == (Stored /\ StoredOnceUnlessAnswerLost)'
<1> USE DEF IInv, StoredOnceUnlessAnswerLost
<1>1. CASE UNCHANGED vars
  BY <1>1, StoredFrame DEF vars, Answering, durable, lifecycle, lanes,
    thread, history, Row, At, Goto
<1>2. ASSUME NEW c \in Callers, NEW r \in Intake, SubmitIntake(c, r) PROVE
  Goal
  <2>1. c \notin active
    BY <1>2 DEF SubmitIntake, Tracked
  <2>2. \A d \in active : d # c /\ d \in Callers
    BY <2>1 DEF TypeOK, ThreadOK
  <2>3. ASSUME NEW i \in 1 .. Len(raw), Answering(raw[i]) PROVE
    Answering(raw[i])'
    BY <1>2, <2>2, <2>3 DEF SubmitIntake, Answering, Row, TypeOK, LanesOK,
      thread, durable
  <2> QED
    BY <1>2, <2>3, StoredFrame DEF SubmitIntake, durable, history
<1>3. ASSUME NEW c \in Callers, NEW r \in Recovery, SubmitRecovery(c, r)
  PROVE Goal
  <2>1. c \notin active
    BY <1>3 DEF SubmitRecovery, Tracked
  <2>2. \A d \in active : d # c /\ d \in Callers
    BY <2>1 DEF TypeOK, ThreadOK
  <2>3. ASSUME NEW i \in 1 .. Len(raw), Answering(raw[i]) PROVE
    Answering(raw[i])'
    BY <1>3, <2>2, <2>3 DEF SubmitRecovery, Answering, Row, TypeOK, LanesOK,
      thread, durable
  <2> QED
    BY <1>3, <2>3, StoredFrame DEF SubmitRecovery, durable, history
<1>4. ASSUME NEW c \in Callers, GiveUp(c) PROVE Goal
  <2>1. c \notin active
    BY <1>4 DEF GiveUp, Tracked
  <2>a. nth \in [Callers -> Nat]
    BY SpoolAssumption DEF TypeOK, HistoryOK
  <2>2. ASSUME NEW i \in 1 .. Len(raw), raw[i].envelope < nth[raw[i].caller]
    PROVE raw[i].envelope < nth'[raw[i].caller]
    <3>1. raw[i] \in Rows
      BY DEF TypeOK, DurableOK
    <3>2. raw[i].envelope \in Nat /\ raw[i].caller \in Callers
      BY <3>1, SpoolAssumption DEF Rows
    <3> QED
      BY <1>4, <2>a, <2>2, <3>2 DEF GiveUp
  <2>3. ASSUME NEW i \in 1 .. Len(raw), Answering(raw[i]) PROVE
    Answering(raw[i])'
    BY <1>4, <2>1, <2>3 DEF GiveUp, Answering, Row, TypeOK, ThreadOK,
      HistoryOK, durable, lanes, thread
  <2> QED
    BY <1>4, <2>2, <2>3 DEF GiveUp, Stored, durable, history
<1>5. ASSUME NEW c \in Callers, Serve(c) PROVE Goal
  BY <1>5, ServeStored
<1>6. ASSUME NEW c \in Callers, RollBack(c) PROVE Goal
  BY <1>6, StoredFrame DEF RollBack, Answering, durable, lifecycle, lanes,
    thread, history, Row, At, Goto
<1>7. ASSUME NEW c \in Callers, RollBackFails(c) PROVE Goal
  BY <1>7, StoredFrame DEF RollBackFails, Answering, durable, lifecycle,
    lanes, thread, history, Row, At, Goto
<1>8. ASSUME NEW c \in Callers, Reply(c) PROVE Goal
  BY <1>8, DeliverStored DEF Reply
<1>9. ASSUME NEW c \in Callers, ReplyFatal(c) PROVE Goal
  BY <1>9, DeliverStored DEF ReplyFatal
<1>10. CASE Open
  BY <1>10, StoredFrame DEF Open, Answering, durable, lifecycle, lanes,
    thread, history, Row, At, Goto, Leaving
<1>11. CASE CheckShutdown
  BY <1>11, StoredFrame DEF CheckShutdown, Answering, durable, lifecycle,
    lanes, thread, history, Row, At, Goto
<1>12. CASE CheckIntakeEmpty
  BY <1>12, StoredFrame DEF CheckIntakeEmpty, Answering, durable, lifecycle,
    lanes, thread, history, Row, At, Goto
<1>13. CASE CheckMetadataEmpty
  BY <1>13, StoredFrame DEF CheckMetadataEmpty, Answering, durable,
    lifecycle, lanes, thread, history, Row, At, Goto
<1>14. CASE TakeMetadata
  BY <1>14, StoredFrame DEF TakeMetadata, Answering, durable, lifecycle,
    lanes, thread, history, Row, At, Goto
<1>15. CASE NoMetadata
  BY <1>15, StoredFrame DEF NoMetadata, Answering, durable, lifecycle,
    lanes, thread, history, Row, At, Goto
<1>16. CASE TakeIntake
  BY <1>16, StoredFrame DEF TakeIntake, Answering, durable, lifecycle,
    lanes, thread, history, Row, At, Goto
<1>17. CASE IntakeTimeout
  BY <1>17, StoredFrame DEF IntakeTimeout, Answering, durable, lifecycle,
    lanes, thread, history, Row, At, Goto
<1>18. CASE SetFatal
  BY <1>18, StoredFrame DEF SetFatal, Answering, durable, lifecycle, lanes,
    thread, history, Row, At, Goto
<1>19. CASE SignalFatal
  BY <1>19, StoredFrame DEF SignalFatal, Answering, durable, lifecycle,
    lanes, thread, history, Row, At, Goto
<1>20. CASE DrainMetadata
  BY <1>20, StoredFrame DEF DrainMetadata, Answering, durable, lifecycle,
    lanes, thread, history, Row, At, Goto
<1>21. CASE DrainIntake
  BY <1>21, StoredFrame DEF DrainIntake, Answering, durable, lifecycle,
    lanes, thread, history, Row, At, Goto
<1>22. CASE Drained
  BY <1>22, StoredFrame DEF Drained, Answering, durable, lifecycle, lanes,
    thread, history, Row, At, Goto
<1>23. CASE CloseBegin
  BY <1>23, StoredFrame DEF CloseBegin, Answering, durable, lifecycle,
    lanes, thread, history, Row, At, Goto
<1>24. CASE CloseSignal
  BY <1>24, StoredFrame DEF CloseSignal, Answering, durable, lifecycle,
    lanes, thread, history, Row, At, Goto
<1>25. CASE CloseJoin
  BY <1>25, StoredFrame DEF CloseJoin, Answering, durable, lifecycle, lanes,
    thread, history, Row, At, Goto
<1>26. CASE Crash
  <2>1. ASSUME NEW i \in 1 .. Len(raw), Answering(raw[i]) PROVE raw[i] \in
    lost'
    BY <1>26, <2>1 DEF Crash, Answering, TypeOK, ThreadOK
  <2> QED
    BY <1>26, <2>1 DEF Crash, Stored, durable
<1> QED
  BY <1>1, <1>2, <1>3, <1>4, <1>5, <1>6, <1>7, <1>8, <1>9, <1>10, <1>11,
    <1>12, <1>13, <1>14, <1>15, <1>16, <1>17, <1>18, <1>19, <1>20, <1>21,
    <1>22, <1>23, <1>24, <1>25, <1>26
  DEF Next, Submit, WriterLoop, Close

-----------------------------------------------------------------------------
(* The invariant holds, and with it what it was made for. *)

LEMMA InitInvariant == Init => IInv
<1> SUFFICES ASSUME Init PROVE IInv
  OBVIOUS
<1> USE DEF Init
<1>1. TypeOK
  <2>1. DurableOK
    BY SpoolAssumption DEF DurableOK
  <2>2. LifecycleOK /\ ThreadOK
    BY DEF LifecycleOK, ThreadOK, WriterStates, Refusal
  <2>3. LanesOK
    BY SpoolAssumption DEF LanesOK
  <2>4. HistoryOK
    BY SpoolAssumption DEF HistoryOK
  <2> QED
    BY <2>1, <2>2, <2>3, <2>4 DEF TypeOK
<1>2. Bounded
  BY DEF Bounded, NoRequest
<1>3. Tracked
  BY LaneEmpty, NoRepeatEmpty DEF Tracked, Waiting
<1>4. Leaving /\ Pending
  BY DEF Leaving, Pending
<1>5. AcceptedIsDurable /\ NoLostUpdate /\ StoredOnceUnlessAnswerLost
  BY DEF AcceptedIsDurable, NoLostUpdate, StoredOnceUnlessAnswerLost
<1>6. Overtaking /\ Stored
  BY DEF Overtaking, Stored
<1> QED
  BY <1>1, <1>2, <1>3, <1>4, <1>5, <1>6 DEF IInv

(* IInv is inductive: it holds in every state the ingestor can be in,      *)
(* whatever callers, the writer thread, close() and crashes do.            *)
THEOREM Invariance == Spec => []IInv
<1>1. ASSUME IInv, [Next]_vars PROVE IInv'
  <2>1. TypeOK' /\ Bounded' /\ Tracked' /\ Leaving'
    BY <1>1, TypeStep, BoundedStep, TrackedStep, LeavingStep DEF IInv
  <2>2. Pending' /\ AcceptedIsDurable' /\ NoLostUpdate'
    BY <1>1, AnswerStep
  <2>3. Overtaking' /\ Stored' /\ StoredOnceUnlessAnswerLost'
    BY <1>1, OvertakingStep, StoredStep DEF IInv
  <2> QED
    BY <2>1, <2>2, <2>3 DEF IInv
<1> QED
  BY <1>1, InitInvariant, PTL DEF Spec

(* Neither lane outgrows its capacity and every variable keeps its type.   *)
THEOREM TypeCorrect == Spec => []TypeOK
<1>1. IInv => TypeOK
  BY DEF IInv
<1> QED
  BY <1>1, Invariance, PTL

(* What accept() returned stays in raw_records, across any crash.          *)
THEOREM AcceptedStaysDurable == Spec => []AcceptedIsDurable
<1>1. IInv => AcceptedIsDurable
  BY DEF IInv
<1> QED
  BY <1>1, Invariance, PTL

(* Two recovery_put() calls never both succeed against the same value.     *)
THEOREM UpdatesNotLost == Spec => []NoLostUpdate
<1>1. IInv => NoLostUpdate
  BY DEF IInv
<1> QED
  BY <1>1, Invariance, PTL

(* An envelope is in raw_records twice only after a crash took its answer. *)
THEOREM StoredOnce == Spec => []StoredOnceUnlessAnswerLost
<1>1. IInv => StoredOnceUnlessAnswerLost
  BY DEF IInv
<1> QED
  BY <1>1, Invariance, PTL

(* At most one intake request goes before a waiting recovery request.      *)
THEOREM OvertakingBounded == Spec => []BoundedOvertaking
<1>1. IInv => BoundedOvertaking
  BY DEF IInv, Overtaking, BoundedOvertaking
<1> QED
  BY <1>1, Invariance, PTL

(* No caller stays blocked on a future when the writer thread has ended.   *)
THEOREM NobodyStranded == Spec => []NoStrandedCaller
<1>1. IInv => NoStrandedCaller
  BY LaneEmpty DEF IInv, Tracked, Leaving, NoStrandedCaller
<1> QED
  BY <1>1, Invariance, PTL
=============================================================================
