-------------------------- MODULE ShadowEvaluation --------------------------
(***************************************************************************)
(* The verdict on one candidate of the prospective shadow experiment.      *)
(* The replay (performance-prospective-shadow-replay.ts) turns what is     *)
(* known of each simulated path into path evidence with completeness       *)
(* gates; the evaluator (performance-prospective-shadow-evaluation.ts)     *)
(* validates the evidence and compares the candidate with the reference in *)
(* every cell of timing and cost.                                          *)
(*                                                                         *)
(* A state is the evidence of one evaluation.  A step changes one piece of *)
(* it, so two evaluations that differ in one piece are neighbours.         *)
(* Metrics are whole numbers, compared with the tolerance 1.               *)
(***************************************************************************)
EXTENDS Integers, FiniteSets

CONSTANTS
    Cells,        \* the cells of timing and cost
    Minimum,      \* minimumKnownNetClosedEpisodesPerPath
    MaxValue,     \* bound: metric values are 0..MaxValue
    MaxChanges    \* bound: pieces of evidence that differ from the neutral case

Parameters ==
    /\ Cells # {} /\ IsFiniteSet(Cells)
    /\ Minimum \in Nat \ {0} /\ MaxValue \in Nat \ {0} /\ MaxChanges \in Nat

VARIABLES
    dataset,      \* cadence and feature coverage of the asset's dataset
    paths,        \* what the simulation found for each path
    changes

vars == <<dataset, paths, changes>>

Roles == {"reference", "candidate"}
Metrics == {"netReturn", "maximumRealizedDrawdown", "turnover", "modeledFees"}
Tolerance == 1
Known == {"lifecycle", "fees", "finite", "drawdown"}

Neutral == [episodes |-> Minimum,
            known    |-> [k \in Known |-> TRUE],
            value    |-> [m \in Metrics |-> MaxValue \div 2]]

----------------------------------------------------------------------------
(* The replay: from the facts of a path to its evidence.                   *)

Gates(p) ==
    UNION {
        IF dataset.cadence THEN {} ELSE {"CADENCE", "NO_TRADE_COVERAGE"},
        IF dataset.features THEN {} ELSE {"FEATURE_COVERAGE"},
        IF p.known["lifecycle"] THEN {} ELSE {"LIFECYCLE"},
        IF p.known["fees"] THEN {} ELSE {"FEE_EVIDENCE"},
        IF p.known["finite"] /\ p.known["drawdown"] THEN {} ELSE {"FINITE_METRICS"}}

\* knownMetric: a value, or its absence.
KnownMetric(p, m, complete) ==
    IF complete
    THEN [complete |-> TRUE, value |-> p.value[m]]
    ELSE [complete |-> FALSE, value |-> 0]

\* Episodes count and metrics are given only when no gate is incomplete.
BuildPathEvidence(p) ==
    [completedKnownNetEpisodes |->
         IF Gates(p) = {} /\ p.known["lifecycle"] /\ p.known["fees"] /\ p.known["finite"]
         THEN p.episodes ELSE 0,
     incompleteGates |-> Gates(p),
     metrics |-> [m \in Metrics |-> KnownMetric(p, m, Gates(p) = {})]]

Path(role, cell) == BuildPathEvidence(paths[role, cell])

----------------------------------------------------------------------------
(* The evaluator: validation of a path.                                    *)

\* COMPLETENESS_GATE_DEPENDENCIES: the metrics an incomplete gate withholds.
Withholds(gate) ==
    CASE gate \in {"LIFECYCLE", "EPISODE_RELATIONSHIPS"} -> {"netReturn", "maximumRealizedDrawdown"}
      [] gate = "FEE_EVIDENCE" -> {"netReturn", "modeledFees"}
      [] OTHER -> Metrics

\* validateMetric: only the net return may be negative.
ValidMetric(e, m) == e.metrics[m].complete /\ m # "netReturn" => e.metrics[m].value >= 0

\* validatePath and validateGateMetricDependencies
ValidPath(e) ==
    /\ \A m \in Metrics : ValidMetric(e, m)
    /\ e.metrics["netReturn"].complete => e.metrics["modeledFees"].complete
    /\ e.completedKnownNetEpisodes > 0 =>
           e.metrics["netReturn"].complete /\ e.metrics["modeledFees"].complete
    /\ \A g \in e.incompleteGates :
           /\ e.completedKnownNetEpisodes = 0
           /\ \A m \in Withholds(g) : ~e.metrics[m].complete

----------------------------------------------------------------------------
(* The evaluator: comparison of candidate c with reference r in a cell.    *)

BothKnown(r, c, m) == r.metrics[m].complete /\ c.metrics[m].complete

IsMetricAbove(r, c, m) == BothKnown(r, c, m) /\ c.metrics[m].value > r.metrics[m].value + Tolerance
IsMetricBelow(r, c, m) == BothKnown(r, c, m) /\ c.metrics[m].value < r.metrics[m].value - Tolerance

SupportSufficient(r, c) ==
    r.completedKnownNetEpisodes >= Minimum /\ c.completedKnownNetEpisodes >= Minimum

KnownHarm(r, c) ==
    /\ SupportSufficient(r, c)
    /\ \/ IsMetricBelow(r, c, "netReturn")
       \/ \E m \in Metrics \ {"netReturn"} : IsMetricAbove(r, c, m)

Benefit(r, c) == SupportSufficient(r, c) /\ IsMetricAbove(r, c, "netReturn")

\* createDelta: a metric missing on either side leaves no difference.
IncompleteMetrics(r, c) == \E m \in Metrics : ~BothKnown(r, c, m)

\* evaluateCandidate over the cells: known harm first, then missing evidence,
\* then whether anything improved.
EvaluateCandidate(ref, cand) ==
    LET some(P(_, _)) == \E cell \in Cells : P(ref[cell], cand[cell])
        gate(r, c) == r.incompleteGates \cup c.incompleteGates # {}
        unsupported(r, c) == ~SupportSufficient(r, c)
    IN  IF some(KnownHarm) THEN "REJECTED"
        ELSE IF some(gate) \/ some(IncompleteMetrics) \/ some(unsupported) THEN "INSUFFICIENT"
        ELSE IF ~some(Benefit) THEN "REJECTED"
        ELSE "SUPPORTS_CONTINUED_SHADOW"

Side(role) == [cell \in Cells |-> Path(role, cell)]

Status == EvaluateCandidate(Side("reference"), Side("candidate"))

----------------------------------------------------------------------------
(* The evidence of the next evaluation differs in one piece.               *)

Init ==
    /\ dataset = [cadence |-> TRUE, features |-> TRUE]
    /\ paths = [rc \in Roles \X Cells |-> Neutral]
    /\ changes = 0

Change == changes < MaxChanges /\ changes' = changes + 1

\* The dataset is found incomplete.
LoseDataset(part) ==
    /\ Change /\ dataset[part]
    /\ dataset' = [dataset EXCEPT ![part] = FALSE]
    /\ UNCHANGED paths

\* deriveFeeEvidence, deriveLifecycleEvidence, finiteness and the drawdown's
\* status: one of them is not known for a path.
LoseKnown(rc, k) ==
    /\ Change /\ paths[rc].known[k]
    /\ paths' = [paths EXCEPT ![rc].known[k] = FALSE]
    /\ UNCHANGED dataset

\* One completed episode fewer.
LoseEpisode(rc) ==
    /\ Change /\ paths[rc].episodes > 0
    /\ paths' = [paths EXCEPT ![rc].episodes = @ - 1]
    /\ UNCHANGED dataset

Lose ==
    \/ \E part \in {"cadence", "features"} : LoseDataset(part)
    \/ \E rc \in Roles \X Cells :
           LoseEpisode(rc) \/ \E k \in Known : LoseKnown(rc, k)

\* A metric of a path moves by d.
Move(rc, m, d) ==
    /\ Change /\ paths[rc].value[m] + d \in 0..MaxValue
    /\ paths' = [paths EXCEPT ![rc].value[m] = @ + d]
    /\ UNCHANGED dataset

Next ==
    \/ Lose
    \/ \E rc \in Roles \X Cells, m \in Metrics, d \in {-2, 2} : Move(rc, m, d)

Spec == Init /\ [][Next]_vars

----------------------------------------------------------------------------
(* Properties.                                                             *)

\* The evidence keeps its shape, and every evaluation has a verdict.
TypeOK ==
    /\ dataset \in [cadence : BOOLEAN, features : BOOLEAN]
    /\ \A rc \in Roles \X Cells :
           /\ paths[rc].episodes \in 0..Minimum
           /\ paths[rc].value \in [Metrics -> 0..MaxValue]
    /\ Status \in {"REJECTED", "INSUFFICIENT", "SUPPORTS_CONTINUED_SHADOW"}

\* All that is asked of a path is known (facts, not evidence).
FactsComplete(rc) ==
    /\ dataset.cadence /\ dataset.features
    /\ \A k \in Known : paths[rc].known[k]

FullyKnown(cell) ==
    \A role \in Roles : FactsComplete(<<role, cell>>) /\ paths[role, cell].episodes >= Minimum

\* The direction in which a metric is worse, and how much worse the
\* candidate is in a cell.
Worse(m) == IF m = "netReturn" THEN -1 ELSE 1
Gap(cell, m) == Worse(m) * (paths["candidate", cell].value[m] - paths["reference", cell].value[m])

\* Whatever the simulation lacks, the evidence the replay builds passes the
\* evaluator's own consistency rules: no evaluation dies on its own evidence.
ReplayAdmissible == \A rc \in Roles \X Cells : ValidPath(Path(rc[1], rc[2]))

\* A candidate is supported exactly when every fact of every path is known,
\* both sides have the episodes, nothing is worse beyond the tolerance, and
\* the return is better in some cell.
SupportIsEarned ==
    Status = "SUPPORTS_CONTINUED_SHADOW" <=>
        /\ \A cell \in Cells : FullyKnown(cell)
        /\ \A cell \in Cells, m \in Metrics : Gap(cell, m) <= Tolerance
        /\ \E cell \in Cells : Gap(cell, "netReturn") < -Tolerance

\* Harm shown by one fully known cell rejects the candidate, whatever other
\* cells lack.
HarmNeverHidden ==
    (\E cell \in Cells : FullyKnown(cell) /\ \E m \in Metrics : Gap(cell, m) > Tolerance)
    => Status = "REJECTED"

\* Evidence that is lost never decides: it turns no verdict into support and
\* none into a rejection.
LostNeverDecides ==
    Lose => /\ Status' # "SUPPORTS_CONTINUED_SHADOW"
            /\ Status' = "REJECTED" => Status = "REJECTED"

=============================================================================
