---------------------------- MODULE LatentDrift ----------------------------
(***************************************************************************)
(* The latent drift engine with an adaptive threshold, and the fusion of   *)
(* its results into the priors of a causal graph                           *)
(* (evaluator/latent_drift/engine.py, adaptive.py, causal/fusion.py).      *)
(*                                                                         *)
(* A drift score is the outcome of a metric on embeddings: any of Scores,  *)
(* integers in hundredths, as are thresholds and probabilities.  Rounding  *)
(* is left out.                                                            *)
(***************************************************************************)
EXTENDS Integers, Sequences

CONSTANTS
    Scores,         \* outcomes of the metric
    Threshold,      \* the engine's static threshold
    BaseThreshold, MinThreshold, MaxThreshold,
    SensitivityZ,   \* of the threshold manager
    WindowSize,
    Sensitivity,    \* of the fusion
    NodeTypes,      \* types of the graph's nodes
    Priors,         \* priors a caller's graph has
    MaxFusions      \* bound: fusions into one graph

ASSUME LatentConstants ==
    /\ Scores \subseteq 0..100 /\ Priors \subseteq 0..100
    /\ {BaseThreshold, MinThreshold, MaxThreshold, SensitivityZ, Sensitivity} \subseteq Nat
    /\ WindowSize \in Nat \ {0} /\ MaxFusions \in Nat

VARIABLES
    fitted,         \* fit was called
    window,         \* the manager's _scores
    results,        \* the latest results, by track
    priors,         \* prior_failure_prob of the nodes, by their type
    evidence,       \* the graph's first prior, and the probabilities fused since
    fusions

latentVars == <<fitted, window, results, priors, evidence, fusions>>

Tracked == {"retrieval", "generation", "unified"}

LatentInit ==
    /\ fitted = FALSE
    /\ window = << >>
    /\ results = << >>
    /\ priors \in [NodeTypes -> Priors]
    /\ evidence = [ty \in NodeTypes |-> {priors[ty]}]
    /\ fusions = 0
-----------------------------------------------------------------------------
Total(s) ==
    LET sum[i \in 0..Len(s)] == IF i = 0 THEN 0 ELSE sum[i - 1] + s[i]
    IN  sum[Len(s)]
Squares(s) == Total([i \in DOMAIN s |-> s[i] * s[i]])

(* score > mean + z * std, with the sample's variance.                     *)
Outlies(score, s) ==
    LET n == Len(s)
        above == n * score - Total(s)
    IN  /\ above > 0
        /\ above * above * (n - 1)
            > SensitivityZ * SensitivityZ * n * (n * Squares(s) - Total(s) * Total(s))

(* score > get_threshold().                                                *)
Exceeds(score, s) ==
    IF Len(s) < 2 THEN score > BaseThreshold
    ELSE score > MinThreshold /\ (score > MaxThreshold \/ Outlies(score, s))

(* update, on a deque of maxlen WindowSize.                                *)
Updated(score) ==
    LET s == Append(window, score) IN
    IF Len(s) > WindowSize THEN Tail(s) ELSE s

Fit ==
    /\ fitted' = TRUE
    /\ UNCHANGED <<window, results, priors, evidence, fusions>>

(* Mutant of ComputeDrift: the threshold is taken before the update.       *)
ComputeDriftFirst(score) ==
    /\ fitted
    /\ window' = Updated(score)
    /\ results' = [unified |-> [score |-> score, detected |-> Exceeds(score, window),
                                over |-> Len(window'), breakdown |-> << >>]]
    /\ UNCHANGED <<fitted, priors, evidence, fusions>>

(* compute_drift with a threshold manager: the threshold of a score is     *)
(* taken over a window that ends with it.                                  *)
ComputeDrift(score) ==
    /\ fitted
    /\ window' = Updated(score)
    /\ results' = [unified |-> [score |-> score, detected |-> Exceeds(score, window'),
                                over |-> Len(window'), breakdown |-> << >>]]
    /\ UNCHANGED <<fitted, priors, evidence, fusions>>

(* compute_latent_drift: an engine of its own, without a manager.          *)
ComputeOnce(t, score) ==
    /\ results' = [u \in {t} |-> [score |-> score, detected |-> score > Threshold,
                                  over |-> 0, breakdown |-> << >>]]
    /\ UNCHANGED <<fitted, window, priors, evidence, fusions>>

(* compute_dual_track_drift: fits, and leaves the manager out of it.       *)
ComputeDual(scores) ==
    /\ fitted' = TRUE
    /\ results' = [t \in Tracked |-> [score |-> scores[t], detected |-> scores[t] > Threshold,
                                      over |-> 0, breakdown |-> scores]]
    /\ UNCHANGED <<window, priors, evidence, fusions>>

Reset ==
    /\ window' = << >>
    /\ UNCHANGED <<fitted, results, priors, evidence, fusions>>
-----------------------------------------------------------------------------
FailureProb(score) == IF score * Sensitivity < 100 THEN score * Sensitivity ELSE 100

(* Mutant of Raised: the latest score replaces the prior.                  *)
RaisedAlways(prior, score) == FailureProb(score)

Raised(prior, score) == IF FailureProb(score) > prior THEN FailureProb(score) ELSE prior

(* A graph with the priors raised by scores, from some tracks.             *)
Fused(scores) ==
    /\ fusions < MaxFusions
    /\ fusions' = fusions + 1
    /\ priors' = [ty \in NodeTypes |->
        IF ty \in DOMAIN scores THEN Raised(priors[ty], scores[ty]) ELSE priors[ty]]
    /\ evidence' = [ty \in NodeTypes |->
        IF ty \in DOMAIN scores THEN evidence[ty] \cup {FailureProb(scores[ty])}
        ELSE evidence[ty]]
    /\ UNCHANGED <<fitted, window, results>>

(* fuse_drift_into_causal_graph: the breakdown, or the result's own score. *)
Fuse(t) ==
    /\ t \in DOMAIN results
    /\ IF results[t].breakdown # << >> THEN Fused(results[t].breakdown)
       ELSE Fused([u \in {t} |-> results[t].score])

(* fuse_dual_track, which passes over a result that is missing.            *)
FuseDual ==
    Fused([t \in DOMAIN results \cap {"retrieval", "generation"} |-> results[t].score])

(* No graph is given: the default one, whose priors are 0.                 *)
NewGraph ==
    /\ fusions > 0
    /\ fusions' = 0
    /\ priors' = [ty \in NodeTypes |-> 0]
    /\ evidence' = [ty \in NodeTypes |-> {0}]
    /\ UNCHANGED <<fitted, window, results>>

LatentNext ==
    \/ Fit
    \/ \E score \in Scores : ComputeDrift(score)
    \/ \E t \in Tracked, score \in Scores : ComputeOnce(t, score)
    \/ \E scores \in [Tracked -> Scores] : ComputeDual(scores)
    \/ Reset
    \/ \E t \in Tracked : Fuse(t)
    \/ FuseDual
    \/ NewGraph

LatentSpec == LatentInit /\ [][LatentNext]_latentVars
-----------------------------------------------------------------------------
(* While z is at least the largest z-score a sample of n can contain,      *)
(* (n - 1) / sqrt(n), no score is detected, however far it lies above the  *)
(* others, unless it is above the absolute maximum: with z = 2 the second  *)
(* to the fifth score.                                                     *)
OutliersNeedClamp ==
    \A t \in DOMAIN results :
        LET r == results[t] IN
        /\ r.detected
        /\ r.over >= 2
        /\ (r.over - 1) * (r.over - 1) <= SensitivityZ * SensitivityZ * r.over
        => r.score > MaxThreshold

(* The prior of a kind of nodes is the highest of what was fused into it:  *)
(* it depends neither on the order of the results nor on how often one is  *)
(* fused, and a track that recovers does not lower it.                     *)
PriorIsHighest ==
    \A ty \in NodeTypes :
        /\ priors[ty] \in evidence[ty]
        /\ \A p \in evidence[ty] : p <= priors[ty]
=============================================================================
