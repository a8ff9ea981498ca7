------------------------------ MODULE MCSpool ------------------------------
(* The durable ingestor on a small instance; callers are interchangeable.  *)
EXTENDS Spool, TLC

CallerSymmetry == Permutations(Callers)
=============================================================================
