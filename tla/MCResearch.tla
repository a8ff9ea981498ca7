----------------------------- MODULE MCResearch -----------------------------
(* Small instances of ResearchLedger: one reservation, two datasets.       *)
EXTENDS ResearchLedger
=============================================================================
