----------------------------- MODULE MCEvidence -----------------------------
(***************************************************************************)
(* What is observed, by which clock, and what may be concluded from it:    *)
(* the live source, the clock monitor, the forecast ledger, datasets and   *)
(* their replay, and the journal of a protected research installation.     *)
(* part names the one a behaviour is of; the others keep the state they    *)
(* began with.  The forecast ledger's fairness is its own.                 *)
(***************************************************************************)
EXTENDS LiveSource, Clock, Dataset, ForecastLedger, ResearchLedger

VARIABLE part

allVars == <<part, liveVars, clockVars, datasetVars, ledgerVars, researchVars>>

ClockShifts == {-3, 2}

(* Recipes: the latest revisions; the first ones, with a lag; those that    *)
(* were observed by then; and only what is final by a healthy clock.       *)
Latest == [asObserved |-> FALSE, revision |-> "latest", coverage |-> "include",
           timeQuality |-> "include", finalizedOnly |-> FALSE, lag |-> 0, horizon |-> 1]
RecipePolicies ==
    {Latest, [Latest EXCEPT !.lag = 1, !.revision = "first"],
     [Latest EXCEPT !.asObserved = TRUE, !.coverage = "exclude"],
     [Latest EXCEPT !.finalizedOnly = TRUE, !.timeQuality = "require healthy"]}

(* Replays: in the time of observation, with coverage held against a case, *)
(* and in the time of the market.                                          *)
Observed == [start |-> 0, validation |-> 5, test |-> 8, end |-> 9, asObserved |-> TRUE,
             delay |-> 1, radius |-> 0, coverage |-> "include", timeQuality |-> "exclude"]
ReplayConfigs ==
    {Observed, [Observed EXCEPT !.coverage = "exclude"],
     [Observed EXCEPT !.asObserved = FALSE, !.timeQuality = "include",
                      !.delay = 0, !.validation = 4]}

Claim1(candles, status, at) ==
    [candles |-> candles, status |-> status, at |-> at, healthy |-> TRUE]
CoverageCaptures == {{Claim1(1 .. 2, "complete", 3), Claim1({2}, "pending", 4)}}

Init ==
    /\ part \in {"source", "clock", "dataset", "ledger", "research"}
    /\ LiveSourceInit /\ ClockInit /\ DatasetInit /\ LedgerInit /\ ResearchInit

Next ==
    \/ /\ part = "source" /\ LiveSourceNext
       /\ UNCHANGED <<part, clockVars, datasetVars, ledgerVars, researchVars>>
    \/ /\ part = "clock" /\ ClockNext
       /\ UNCHANGED <<part, liveVars, datasetVars, ledgerVars, researchVars>>
    \/ /\ part = "dataset" /\ DatasetNext
       /\ UNCHANGED <<part, liveVars, clockVars, ledgerVars, researchVars>>
    \/ /\ part = "ledger" /\ LedgerNext
       /\ UNCHANGED <<part, liveVars, clockVars, datasetVars, researchVars>>
    \/ /\ part = "research" /\ ResearchNext
       /\ UNCHANGED <<part, liveVars, clockVars, datasetVars, ledgerVars>>

OfLedger == part = "ledger" /\ part' = part

Fairness ==
    /\ WF_ledgerVars(OfLedger /\ Work) /\ WF_ledgerVars(OfLedger /\ OpenLedger)
    /\ SF_ledgerVars(OfLedger /\ EndRun)

Spec == Init /\ [][Next]_allVars /\ Fairness
=============================================================================
