---------------------------- MODULE PublishedLog ----------------------------
(***************************************************************************)
(* What publication promises its consumers: a log of batches that covers   *)
(* the normalized records in order, each exactly once, every batch inside  *)
(* one epoch and one partition and never longer than the limit.            *)
(***************************************************************************)
EXTENDS Naturals, Sequences

CONSTANTS
    Records,    \* what tells records apart: [epoch, partition]
    MaxBatch    \* limits.max_batch_records

VARIABLES
    records,    \* the records committed upstream
    ready,      \* how many of them have an outcome
    log         \* the batches published

vars == <<records, ready, log>>

Init == records = <<>> /\ ready = 0 /\ log = <<>>

Published == IF log = <<>> THEN 0 ELSE log[Len(log)].last

Commit ==
    /\ \E r \in Records : records' = Append(records, r)
    /\ UNCHANGED <<ready, log>>

Ready ==
    /\ ready < Len(records)
    /\ ready' = ready + 1
    /\ UNCHANGED <<records, log>>

Publish ==
    \E last \in Published + 1 .. ready :
        /\ last - Published <= MaxBatch
        /\ \A i \in Published + 1 .. last : records[i] = records[last]
        /\ log' = Append(log, [first |-> Published + 1, last |-> last])
        /\ UNCHANGED <<records, ready>>

Next == Commit \/ Ready \/ Publish

Spec == Init /\ [][Next]_vars
=============================================================================
