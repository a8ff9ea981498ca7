------------------------------- MODULE Dataset -------------------------------
(***************************************************************************)
(* From accepted publication inputs to an evaluation: the selection of     *)
(* candles and the recipe (dataset/selection.py, dataset/recipes.py,       *)
(* dataset/worker.py), the installation of the snapshot and its pin        *)
(* (dataset/service.py, storage.py, pins.py), and the replay that walks    *)
(* the snapshot, decision by decision (replay/).  The order in which       *)
(* observations arrive, and when they are taken to have arrived, is what   *)
(* the decisions must not see past.                                        *)
(*                                                                         *)
(* One series: candle k runs from time Span * (k - 1) to Span * k.  Its    *)
(* prices are what its revision stands for.                                *)
(***************************************************************************)
EXTENDS Naturals, Sequences, FiniteSets

CONSTANTS
    Span,        \* interval_ns
    MaxCandles,  \* bound: candles of the series
    MaxInputs,   \* bound: publication inputs
    Times,       \* bound: when inputs are received, claims made, snapshots cut off
    Radius,      \* the uncertainty of every receipt that qualifies
    Policies,    \* bound: RecipePolicy values in use
    Configs,     \* bound: ReplayConfig values in use
    Captures     \* bound: the coverage claims a build comes with

(* How a dataset is made, the mode being whether it is as observed.         *)
RecipePolicy ==
    [asObserved : BOOLEAN, revision : {"latest", "first"}, finalizedOnly : BOOLEAN,
     coverage : {"include", "exclude", "require complete"},
     timeQuality : {"include", "exclude", "require healthy"}, lag : Nat, horizon : Nat]

(* The coverage of some candles, and when the ledger had it.                *)
CoverageClaim ==
    [candles : (SUBSET (1 .. MaxCandles)) \ {{}},
     status : {"complete", "pending", "unknown", "unrecoverable"}, at : Nat, healthy : BOOLEAN]

(* The three parts of a replay, and what it takes for known.                *)
ReplayConfig ==
    {c \in [start : Nat, validation : Nat, test : Nat, end : Nat,
            asObserved : BOOLEAN, delay : Nat, radius : Nat,
            coverage : {"include", "exclude"}, timeQuality : {"include", "exclude"}] :
        c.start < c.validation /\ c.validation < c.test /\ c.test < c.end}

ASSUME DatasetAssumption ==
    /\ Span \in Nat \ {0} /\ MaxCandles \in Nat \ {0} /\ MaxInputs \in Nat
    /\ Times \subseteq Nat /\ Radius \in Nat
    /\ Policies \subseteq RecipePolicy /\ Configs \subseteq ReplayConfig
    /\ \A captured \in Captures : captured \subseteq CoverageClaim

VARIABLES
    inputs,      \* the publication inputs, in ingestion order
    claims,      \* the coverage claims captured for the build
    recipe,      \* the policy and cutoff of the build; None before it
    rows,        \* candle -> the selected input, what the snapshot consists of
    artifacts,   \* installed of the snapshot: "parquet", "manifest", "pin"
    config,      \* the replay
    walked,      \* candles decided on so far
    cases,       \* the forecast cases collected
    fitted       \* the candles the transform was fitted on

datasetVars == <<inputs, claims, recipe, rows, artifacts, config, walked, cases, fitted>>

None    == [status |-> "none"]
Candles == 1 .. MaxCandles
CloseOf(k) == Span * k
Largest(S) == CHOOSE x \in S : \A y \in S : y <= x
Smallest(S) == CHOOSE x \in S : \A y \in S : x <= y

-----------------------------------------------------------------------------
(* Observation times: time_interval, observed_by.  A decision is a time and *)
(* the uncertainty about it.                                                *)

Decision(at, radius) == [at |-> at, radius |-> radius]
KnownBy(observation, decision) ==
    observation.healthy /\ observation.at + Radius <= decision.at - decision.radius

-----------------------------------------------------------------------------
(* Selection, from the inputs s at the positions I *)

Of(s, I, k)     == {i \in I : s[i].candle = k}
Before(s, I, i) == {j \in Of(s, I, s[i].candle) : j < i}
Revisions(s, I) == {s[i].revision : i \in I}
Changes(s, I)   == {i \in I : s[i].kind # "duplicate"}

(* What is known of a candle when an input of it follows *)
Sound(s, I, i) ==
    LET earlier  == Before(s, I, i)
        previous == s[Largest(Changes(s, earlier))]
    IN  /\ s[i].kind \notin {"conflict", "rejected"}
        /\ s[i].kind = "accepted" <=> earlier = {}
        /\ s[i].kind = "duplicate" => s[i].revision \in Revisions(s, earlier)
        /\ s[i].kind \in {"open revision", "finalization"} =>
              /\ Changes(s, earlier) # {}
              /\ ~previous.final /\ s[i].revision \notin Revisions(s, earlier)
              /\ s[i].final <=> s[i].kind = "finalization"

(* select_candles raises otherwise. *)
Selectable(s, I) == I # {} /\ \A i \in I : Sound(s, I, i)

Selected(s, I, revision) ==
    [k \in {s[i].candle : i \in I} |->
        IF revision = "first" THEN s[Smallest(Of(s, I, k))]
        ELSE s[Largest(Changes(s, Of(s, I, k)))]]

Eligible(s, decision) == {i \in DOMAIN s : KnownBy(s[i], decision)}

-----------------------------------------------------------------------------
(* The recipe: coverage, the policies in their order, lags and labels *)

CoverageStatus(k, known) ==
    LET of == {c.status : c \in {d \in known : k \in d.candles}}
    IN  IF "unrecoverable" \in of THEN "unrecoverable"
        ELSE IF "unknown" \in of THEN "unknown"
        ELSE IF "pending" \in of THEN "pending"
        ELSE IF "complete" \in of THEN "complete" ELSE "unknown"

Filtered(input, k, p) == p.finalizedOnly /\ ~input.final
Untimely(input, p)    == ~input.healthy /\ p.timeQuality # "include"
Uncovered(k, p, known) == CoverageStatus(k, known) # "complete" /\ p.coverage # "include"

Retained(chosen, p, known) ==
    {k \in DOMAIN chosen :
        ~Filtered(chosen[k], k, p) /\ ~Untimely(chosen[k], p) /\ ~Uncovered(k, p, known)}

(* A policy may demand what it would otherwise filter by. *)
Demands(chosen, p, known) ==
    \A k \in {j \in DOMAIN chosen : ~Filtered(chosen[j], j, p)} :
        /\ p.timeQuality = "require healthy" => chosen[k].healthy
        /\ p.coverage = "require complete" /\ ~Untimely(chosen[k], p) =>
              CoverageStatus(k, known) = "complete"

SnapshotInputs(s, p, cutoff) == IF p.asObserved THEN Eligible(s, cutoff) ELSE DOMAIN s
SnapshotClaims(known, p, cutoff) ==
    IF p.asObserved THEN {c \in known : KnownBy(c, cutoff)} ELSE known

(* apply_policy: the full history must be sound even where it is filtered. *)
Buildable(s, known, p, cutoff) ==
    LET kept == SnapshotInputs(s, p, cutoff)
    IN  /\ Selectable(s, DOMAIN s) /\ Selectable(s, kept)
        /\ Demands(Selected(s, kept, p.revision), p, SnapshotClaims(known, p, cutoff))

SnapshotOf(s, known, p, cutoff) ==
    LET chosen == Selected(s, SnapshotInputs(s, p, cutoff), p.revision)
        kept   == Retained(chosen, p, SnapshotClaims(known, p, cutoff))
    IN  [k \in kept |-> chosen[k]]

(* derive_rows: an exact chain of candles, or null *)
LagChain(snapshot, p, k)   == {k - n : n \in 1 .. p.lag}
LabelChain(snapshot, p, k) == {k + n : n \in 1 .. p.horizon}
HasLag(snapshot, p, k) ==
    p.lag < k /\ LagChain(snapshot, p, k) \subseteq DOMAIN snapshot
HasLabel(snapshot, p, k) ==
    /\ LabelChain(snapshot, p, k) \subseteq DOMAIN snapshot
    /\ \A j \in LabelChain(snapshot, p, k) : snapshot[j].final

-----------------------------------------------------------------------------
(* What the collector publishes *)

Kinds(k) ==
    LET known == Of(inputs, DOMAIN inputs, k)
        last  == inputs[Largest(Changes(inputs, known))]
        fresh == Cardinality(Revisions(inputs, known)) + 1
    IN  IF known = {} THEN {<<"accepted", 1, final>> : final \in BOOLEAN}
        ELSE {<<"duplicate", r, last.final /\ r = last.revision>> : r \in Revisions(inputs, known)}
             \cup IF last.final THEN {<<"conflict", fresh, TRUE>>}
                  ELSE {<<"open revision", fresh, FALSE>>, <<"finalization", fresh, TRUE>>}

(* External: clocks that qualify agree to within their uncertainty, and the *)
(* provider tells the final state of a candle when it is over, and no state *)
(* before it begins.  A receipt that does not qualify tells no time.        *)
Plausible(k, at, healthy, final) ==
    IF healthy
    THEN /\ \A i \in DOMAIN inputs : inputs[i].healthy => inputs[i].at <= at + 2 * Radius
         /\ at + Radius >= IF final THEN CloseOf(k) ELSE CloseOf(k - 1)
    ELSE at = Smallest(Times)

Collect(k, at, healthy) ==
    /\ recipe = None /\ Len(inputs) < MaxInputs
    /\ \E kind \in Kinds(k) :
         /\ Plausible(k, at, healthy, kind[3])
         /\ inputs' = Append(inputs, [candle |-> k, kind |-> kind[1], revision |-> kind[2],
                                      final |-> kind[3], at |-> at, healthy |-> healthy])
    /\ UNCHANGED <<claims, recipe, rows, artifacts, config, walked, cases, fitted>>

-----------------------------------------------------------------------------
(* DatasetService: build, _install, pins *)

(* The worker answers, and the answer is for this request. *)
Build(p, at, captured) ==
    /\ recipe = None
    /\ ~p.asObserved => at = Smallest(Times)    \* no cutoff
    /\ claims' = captured
    /\ LET cutoff == Decision(at, Radius)
       IN  IF Buildable(inputs, captured, p, cutoff)
           THEN /\ rows' = SnapshotOf(inputs, captured, p, cutoff)
                /\ recipe' = [status |-> "built", policy |-> p, cutoff |-> at]
           ELSE /\ recipe' = [status |-> "refused"]
                /\ UNCHANGED rows
    /\ UNCHANGED <<inputs, artifacts, config, walked, cases, fitted>>

(* Each artifact is synced and linked under its hash before the next one is *)
(* written: a build that dies leaves a prefix, and the same request made    *)
(* again finds it.                                                          *)
InstallAfter(prefix, artifact) ==
    /\ recipe.status = "built" /\ artifacts = prefix
    /\ artifacts' = artifacts \cup {artifact}
    /\ UNCHANGED <<inputs, claims, recipe, rows, config, walked, cases, fitted>>

WriteParquet  == InstallAfter({}, "parquet")
WriteManifest == InstallAfter({"parquet"}, "manifest")
CreatePin     == InstallAfter({"parquet", "manifest"}, "pin")

(* Only the pin goes; a replay that has begun no longer looks at it. *)
Retire ==
    /\ "pin" \in artifacts /\ config = None
    /\ artifacts' = artifacts \ {"pin"}
    /\ UNCHANGED <<inputs, claims, recipe, rows, config, walked, cases, fitted>>

-----------------------------------------------------------------------------
(* Replay *)

(* ReplayService.prepare reads the pin, the manifest and then the rows.      *)
Pinned == artifacts = {"parquet", "manifest", "pin"}

(* CandleReplayReader needs labels; rows are one candle each, with its input.*)
Prepare(c) ==
    /\ Pinned /\ config = None
    /\ recipe.policy.horizon > 0
    /\ config' = c
    /\ UNCHANGED <<inputs, claims, recipe, rows, artifacts, walked, cases, fitted>>

(* Mutant: a final candle counts as known once it is over. *)
AvailableAtClose(c, k, by) == rows[k].healthy /\ CloseOf(k) <= by

(* _availability: unknown if the receipt does not qualify *)
Available(c, k, by) ==
    IF c.asObserved
    THEN rows[k].healthy /\ CloseOf(k) <= by /\ rows[k].at + Radius <= by
    ELSE CloseOf(k) <= by

(* _quality *)
Acceptable(c, k, decision) ==
    LET known == IF c.asObserved THEN {d \in claims : KnownBy(d, decision)} ELSE claims
    IN  /\ rows[k].healthy \/ (~c.asObserved /\ c.timeQuality = "include")
        /\ CoverageStatus(k, known) = "complete" \/ c.coverage = "include"

(* feature_result: the candle and its lags are final, known by the earliest *)
(* plausible decision, and of the quality asked for.                        *)
Features(c, k) == {k} \cup LagChain(rows, recipe.policy, k)
HasFeatures(c, k, decision) ==
    /\ HasLag(rows, recipe.policy, k)
    /\ \A j \in Features(c, k) :
         /\ rows[j].final
         /\ Acceptable(c, j, decision)
         /\ Available(c, j, decision.at - decision.radius)

(* ReplayConfig.partition: the whole decision interval within one part *)
Part(c, from, until) ==
    IF c.start <= from /\ until < c.validation THEN [name |-> "train", end |-> c.validation]
    ELSE IF c.validation <= from /\ until < c.test THEN [name |-> "validation", end |-> c.test]
    ELSE IF c.test <= from /\ until < c.end THEN [name |-> "test", end |-> c.end]
    ELSE [name |-> "outside", end |-> 0]

(* Mutant: a label may lie anywhere that scoring can still see. *)
HasTargetAnywhere(c, k, decision, boundary) ==
    /\ HasLabel(rows, recipe.policy, k)
    /\ \A j \in LabelChain(rows, recipe.policy, k) : Available(c, j, c.end)

(* _forecast_case: the label lies in the future of the decision, within its *)
(* part, and is known there.                                                *)
LabelEnd(k) == CloseOf(k + recipe.policy.horizon)
HasTarget(c, k, decision, boundary) ==
    /\ HasLabel(rows, recipe.policy, k)
    /\ decision.at + decision.radius < LabelEnd(k)
    /\ LabelEnd(k) < boundary
    /\ \A j \in LabelChain(rows, recipe.policy, k) :
         /\ Available(c, j, boundary - 1)
         /\ Acceptable(c, j, Decision(boundary - 1, 0))

(* collect_cases: candles by their close, whatever becomes of each *)
Decide ==
    /\ config # None /\ walked < MaxCandles
    /\ LET k        == walked + 1
           decision == Decision(CloseOf(k) + config.delay, config.radius)
           part     == Part(config, decision.at - config.radius, decision.at + config.radius)
       IN  /\ cases' = IF /\ k \in DOMAIN rows /\ part.name # "outside"
                          /\ HasFeatures(config, k, decision)
                          /\ HasTarget(config, k, decision, part.end)
                       THEN cases \cup {[candle |-> k, part |-> part.name, decision |-> decision,
                                        scored |-> part.end - 1]}
                       ELSE cases
           /\ walked' = k
    /\ UNCHANGED <<inputs, claims, recipe, rows, artifacts, config, fitted>>

(* evaluate: fit_standardizer, on the training cases *)
Fit ==
    /\ config # None /\ walked = MaxCandles /\ fitted = {}
    /\ fitted' = {x \in cases : x.part = "train"}
    /\ fitted' # {}
    /\ UNCHANGED <<inputs, claims, recipe, rows, artifacts, config, walked, cases>>

-----------------------------------------------------------------------------
DatasetInit ==
    /\ inputs = <<>> /\ claims = {} /\ recipe = None /\ rows = <<>>
    /\ artifacts = {} /\ config = None /\ walked = 0 /\ cases = {} /\ fitted = {}

DatasetNext ==
    \/ \E k \in Candles, at \in Times, healthy \in BOOLEAN : Collect(k, at, healthy)
    \/ \E p \in Policies, at \in Times, captured \in Captures : Build(p, at, captured)
    \/ WriteParquet \/ WriteManifest \/ CreatePin \/ Retire
    \/ \E c \in Configs : Prepare(c)
    \/ Decide \/ Fit

DatasetSpec == DatasetInit /\ [][DatasetNext]_datasetVars

-----------------------------------------------------------------------------
(* Properties *)

(* The snapshot that could have been built at a moment of the replay         *)
Then(decision) == [recipe.policy EXCEPT !.asObserved = TRUE, !.coverage = "include"]
KnownThen(decision) == Selectable(inputs, Eligible(inputs, decision))
SnapshotThen(decision) == SnapshotOf(inputs, claims, Then(decision), decision)

(* A case of an as-observed replay is what it would have been at the time:   *)
(* a snapshot built from the same inputs and cut off at the decision has the *)
(* same features, and one cut off where it was scored has the same label,    *)
(* though the replayed snapshot was made of everything that came in later.   *)
ReplaySeesNoFuture ==
    config # None /\ config.asObserved =>
        \A x \in cases :
            /\ KnownThen(x.decision) =>
                 \A j \in Features(config, x.candle) :
                    /\ j \in DOMAIN SnapshotThen(x.decision)
                    /\ SnapshotThen(x.decision)[j] = rows[j]
            /\ KnownThen(Decision(x.scored, 0)) =>
                 LET k == x.candle + recipe.policy.horizon
                 IN  /\ k \in DOMAIN SnapshotThen(Decision(x.scored, 0))
                     /\ SnapshotThen(Decision(x.scored, 0))[k] = rows[k]

(* No label reaches into a later part: what the transform was fitted on had  *)
(* been scored before the earliest plausible decision of every held-out      *)
(* case, and every label is in the future of its own decision.               *)
HeldOutStaysUnseen ==
    /\ \A x \in fitted, y \in cases :
         y.part # "train" =>
            /\ LabelEnd(x.candle) < y.decision.at - y.decision.radius
            /\ \A j \in LabelChain(rows, recipe.policy, x.candle) :
                 Available(config, j, y.decision.at - y.decision.radius)
    /\ \A x \in cases : x.decision.at + x.decision.radius < LabelEnd(x.candle)
=============================================================================
