------------------------------- MODULE MCJobs -------------------------------
(* Small instances of Jobs: two jobs, the second with the shorter deadline. *)
EXTENDS Jobs

Deadlines == [j \in Jobs |-> IF j = 1 THEN 2 ELSE 1]
=============================================================================
