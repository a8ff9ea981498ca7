----------------------------- MODULE MCRecovery -----------------------------
(* Small instances of Recovery: three candles and two spans. *)
EXTENDS Recovery
=============================================================================
