--------------------------- MODULE HistoryAnalysis ---------------------------
(***************************************************************************)
(* The offline analysis of an evaluation history: /drift, /attribution and *)
(* /counterfactual as requests of a client that hands each answer to the   *)
(* next, or /optimize, which calls the same functions in one request and   *)
(* goes on to the plan.  Each function loads the history for itself, and   *)
(* the evaluation pipeline saves records in between, so that one step's    *)
(* answer may be about a history the next step no longer sees.             *)
(*                                                                         *)
(* JsonHistoryStore shows that a load reads one state of the file; here it *)
(* is one step.  Scores are in units of 1/10000, as the code rounds them, *)
(* estimates and improvements in units of 1/1000.                          *)
(***************************************************************************)
EXTENDS ChangeExtraction, SequencesExt

CONSTANTS
    Deployments,    \* what the evaluated system may be: [Fields -> values]
    Values,         \* of the metric
    Delays,         \* time of a new record from the newest: below 0 if delayed
    TopK,           \* top_k of the request
    MaxRecords,     \* bound: records in the history
    MaxOdd          \* bound: records delayed, or of a run evaluated before

ASSUME AnalysisConstants ==
    /\ \A d \in Deployments :
           d = [f \in Fields |-> d[f]] /\ d.info \notin {EMPTY, NONE}
    /\ Values \subseteq Nat
    /\ Delays \subseteq Int
    /\ TopK \in Nat \ {0}
    /\ MaxRecords \in Nat
    /\ MaxOdd \in Nat

VARIABLES
    history,        \* records in the order they were saved
    delayed,        \* a record was saved since Detect behind the newest
    step,           \* what the client or the route does next
    event,          \* the drift event under analysis
    factors,        \* the attribution's factors, best first
    confidence,     \* and its confidence
    scenarios,      \* scenarios still to simulate: sequences of factors
    simulation,     \* the last scenario simulated: from what, to what
    results,        \* CounterfactualResults
    plan            \* recommendations, best first

request == <<event, factors, confidence, scenarios, simulation, results, plan>>
vars == <<history, delayed, step, request>>

NoEvent == [start |-> 0, end |-> 0, shift |-> 0]
NoSimulation == [base |-> << >>, store |-> << >>, ids |-> << >>, found |-> << >>]

Init ==
    /\ history = << >>
    /\ delayed = FALSE
    /\ step = "detect"
    /\ event = NoEvent
    /\ factors = << >>
    /\ confidence = 0
    /\ scenarios = << >>
    /\ simulation = NoSimulation
    /\ results = << >>
    /\ plan = << >>

Newest == CHOOSE t \in {history[i].time : i \in DOMAIN history} :
              \A i \in DOMAIN history : history[i].time <= t

(* EvaluationRecord: its time is taken when it is made, before it is       *)
(* saved.  Its run is new, or the last one evaluated once more.            *)
NewRecord(run, delay, value, deployment) ==
    [f \in {"run", "time", "value"} \cup Fields |->
        CASE f = "run" -> run
          [] f = "time" -> IF history = << >> THEN 10 ELSE Newest + delay
          [] f = "value" -> value
          [] f \in Fields -> deployment[f]]

Runs == {Len(history) + 1} \cup {r.run : r \in IF history = << >> THEN {} ELSE {Last(history)}}

Odd(records) == {i \in DOMAIN records :
    records[i].run # i \/ \E j \in 1..(i - 1) : records[j].time > records[i].time}

(* RAGEvaluator._persist_if_needed, or any other writer of the file, until *)
(* the request is answered.                                                *)
Save ==
    /\ step # "done"
    /\ Len(history) < MaxRecords
    /\ \E run \in Runs, delay \in Delays, value \in Values, d \in Deployments :
        LET r == NewRecord(run, delay, value, d) IN
        /\ history' = Append(history, r)
        /\ Cardinality(Odd(history')) <= MaxOdd
        /\ delayed' = (delayed \/ (step # "detect" /\ delay < 0))
    /\ UNCHANGED <<step, request>>
-----------------------------------------------------------------------------
(* /drift: the client goes on with one of the events; /optimize takes the  *)
(* first.                                                                  *)
Detect ==
    /\ step = "detect"
    /\ \E i \in DOMAIN DriftEvents(history) : event' = DriftEvents(history)[i]
    /\ step' = "attribute"
    /\ UNCHANGED <<history, delayed, factors, confidence, scenarios, simulation, results, plan>>

InWindow(e, change) == e.start <= change.time /\ change.time <= e.end

Lesser(a, b) == IF a <= b THEN a ELSE b

(* time_delta of build_drift_features.                                     *)
TimeDelta(e, change) ==
    IF InWindow(e, change) THEN 0
    ELSE Lesser(Size(change.time - e.start), Size(change.time - e.end))

TypeWeight(type) ==
    CASE type = "model_update" -> 10
      [] type = "version_change" -> 8
      [] type = "config_change" -> 6
      [] OTHER -> 3

(* A score or confidence of 1.                                             *)
Unit == 10000

Rounded(a, b) == (2 * a + b) \div (2 * b)

(* score_causal_impact.  far is the largest time_delta.  The boost of a    *)
(* change inside the window changes nothing: its time_score is 1 already.  *)
(* The magnitude is the same for every change of one event.                *)
Score(e, change, far) ==
    3000 + 300 * TypeWeight(change.type)
    + IF far = 0 THEN 4000 ELSE 4000 - Rounded(4000 * TimeDelta(e, change), far)

(* attribute_drift: every change in the history is a candidate, one after  *)
(* the drift too.                                                          *)
Factors(e, store) ==
    LET found == Changes(store)
        changes == StableSort(found, [i \in DOMAIN found |-> found[i].time])
        far == CHOOSE d \in {0} \cup {TimeDelta(e, changes[i]) : i \in DOMAIN changes} :
                   \A i \in DOMAIN changes : TimeDelta(e, changes[i]) <= d
        scored == [i \in DOMAIN changes |->
                      [id |-> changes[i].id, type |-> changes[i].type,
                       time |-> changes[i].time,
                       score |-> Score(e, changes[i], far)]]
    IN StableSort(scored, [i \in DOMAIN scored |-> 0 - scored[i].score])

(* Mutant of Confidence: the best against the rest.                        *)
ConfidenceInRest(fs) ==
    IF fs = << >> THEN 0
    ELSE IF Len(fs) = 1 THEN fs[1].score
    ELSE Rounded(Unit * fs[1].score, SumOf([i \in 1..(Len(fs) - 1) |-> fs[i + 1].score]))

(* _compute_confidence: the best factor's share.                           *)
Confidence(fs) ==
    IF fs = << >> THEN 0
    ELSE IF Len(fs) = 1 THEN fs[1].score
    ELSE Rounded(Unit * fs[1].score, SumOf([i \in DOMAIN fs |-> fs[i].score]))

(* build_counterfactual_scenarios: each of the best factors alone, then    *)
(* all of them together.                                                   *)
Scenarios(fs) ==
    LET best == SubSeq(fs, 1, Lesser(TopK, Len(fs)))
        single == [i \in DOMAIN best |-> <<best[i]>>]
    IN IF Len(best) > 1 THEN Append(single, best) ELSE single

(* /attribution, and the scenarios /counterfactual makes of the answer.    *)
Attribute ==
    /\ step = "attribute"
    /\ factors' = Factors(event, history)
    /\ confidence' = Confidence(factors')
    /\ scenarios' = Scenarios(factors')
    /\ step' = "simulate"
    /\ UNCHANGED <<history, delayed, event, simulation, results, plan>>
-----------------------------------------------------------------------------
(* The least-squares line through the points, read at time t; their mean   *)
(* when all have the same time.                                            *)
Trend(points, t) ==
    LET n == Len(points)
        st == SumOf([i \in 1..n |-> points[i].time])
        sv == SumOf([i \in 1..n |-> points[i].value])
        stt == SumOf([i \in 1..n |-> points[i].time * points[i].time])
        stv == SumOf([i \in 1..n |-> points[i].time * points[i].value])
        den == n * stt - st * st
        num == n * stv - st * sv
    IN IF den > 0 THEN (1000 * (sv * den + num * (n * t - st))) \div (n * den)
       ELSE (1000 * sv) \div n

(* The records the estimate is made from.                                  *)
PreWindow(e, store) ==
    LET records == Chronological(store)
    IN Kept(records, {i \in DOMAIN records : records[i].time < e.start})

(* estimate_metric_after_intervention, method trend_adjusted, alpha 0.3.   *)
Estimate(e, store) ==
    LET pre == PreWindow(e, store)
        n == Len(pre)
    IN CASE n = 0 -> (1000 * SumOf([i \in DOMAIN store |-> store[i].value])) \div Len(store)
         [] n = 1 -> 1000 * pre[1].value
         [] n = 2 -> 300 * pre[2].value + 700 * pre[1].value
         [] n > 2 -> Trend(pre, e.start)

(* apply_scenario: each intervention works on the result of the one before *)
(* it, and looks its change up there.                                      *)
Applied(base, ids) ==
    LET store[k \in 0..Len(ids)] == IF k = 0 THEN base ELSE Intervened(store[k - 1], ids[k])
    IN [store |-> store[Len(ids)], found |-> [k \in DOMAIN ids |-> IsChange(store[k - 1], ids[k])]]

(* One turn of the loop of run_counterfactual_analysis.                    *)
Simulate ==
    /\ step = "simulate"
    /\ scenarios # << >>
    /\ LET scenario == Head(scenarios)
           ids == [i \in DOMAIN scenario |-> scenario[i].id]
           applied == Applied(history, ids)
           scores == {scenario[i].score : i \in DOMAIN scenario}
       IN /\ simulation' = [base |-> history, store |-> applied.store,
                            ids |-> ids, found |-> applied.found]
          /\ results' = Append(results,
                [ids |-> ids,
                 delta |-> (1000 * event.shift) \div Window - Estimate(event, applied.store),
                 confidence |-> CHOOSE s \in scores : \A t \in scores : s <= t])
    /\ scenarios' = Tail(scenarios)
    /\ UNCHANGED <<history, delayed, step, event, factors, confidence, plan>>
-----------------------------------------------------------------------------
(* Mutant of Impact: a change without a result has the first one's.        *)
ImpactOfFirst(id) ==
    LET hits == {i \in DOMAIN results : \E k \in DOMAIN results[i].ids : results[i].ids[k] = id}
    IN IF hits = {} THEN results[1]
       ELSE results[CHOOSE i \in hits : \A j \in hits : j <= i]

(* cf_by_change: the last result that names the change, which is the       *)
(* combined scenario's where there is one.                                 *)
Impact(id) ==
    LET hits == {i \in DOMAIN results : \E k \in DOMAIN results[i].ids : results[i].ids[k] = id}
    IN IF hits = {} THEN [ids |-> << >>, delta |-> 0, confidence |-> 0]
       ELSE results[CHOOSE i \in hits : \A j \in hits : j <= i]

ActionType(type) ==
    CASE type = "model_update" -> "revert_model"
      [] type = "version_change" -> "restore_version"
      [] OTHER -> "rollback_config"

(* generate_actions and score_actions: one action for each factor, the     *)
(* larger improvement first, then the larger confidence.                   *)
Recommendations ==
    LET scored == [i \in DOMAIN factors |->
                      [id |-> factors[i].id,
                       action |-> ActionType(factors[i].type),
                       improvement |-> Impact(factors[i].id).delta,
                       confidence |-> Impact(factors[i].id).confidence]]
    IN StableSort(scored, [i \in DOMAIN scored |->
                             0 - (100000 * scored[i].improvement + scored[i].confidence)])

(* generate_optimization_plan.                                             *)
Plan ==
    /\ step = "simulate"
    /\ scenarios = << >>
    /\ plan' = Recommendations
    /\ step' = "done"
    /\ UNCHANGED <<history, delayed, event, factors, confidence, scenarios, simulation, results>>

Next ==
    \/ Save
    \/ Detect
    \/ Attribute
    \/ Simulate
    \/ Plan

Spec == Init /\ [][Next]_vars
-----------------------------------------------------------------------------
Ids == (1..MaxRecords) \X Int \X {"model_update", "version_change", "config_change", "unknown"}

(* Every variable ranges over the values its counterpart can have.         *)
TypeOK ==
    /\ Len(history) <= MaxRecords
    /\ \A i \in DOMAIN history :
           /\ history[i].run \in 1..i
           /\ history[i].value \in Values
           /\ [f \in Fields |-> history[i][f]] \in Deployments
    /\ delayed \in BOOLEAN
    /\ step \in {"detect", "attribute", "simulate", "done"}
    /\ step # "detect" => event.shift > Threshold * Window /\ event.start <= event.end
    /\ \A i \in DOMAIN factors : factors[i].id \in Ids /\ factors[i].score \in 1..Unit
    /\ confidence \in 0..Unit
    /\ Len(scenarios) + Len(results) <= TopK + 1
    /\ \A i \in DOMAIN results : results[i].confidence \in 1..Unit
    /\ plan # << >> => Len(plan) = Len(factors)

(* No record is behind the newest when it is saved: what was detected in   *)
(* the history is detected in the longer one, in the same place, so that a *)
(* client's event is still an event when it comes back with it.            *)
InOrderSave == Len(history') > Len(history) /\ \A i \in DOMAIN history :
                   history[i].time <= Last(history').time
EventsPersist == [][InOrderSave => IsPrefix(DriftEvents(history), DriftEvents(history'))]_vars

DistinctRuns(records) ==
    \A i, j \in DOMAIN records : records[i].run = records[j].run => i = j
DistinctTimes(records) ==
    \A i, j \in DOMAIN records : records[i].time = records[j].time => i = j

(* Position in the order of time of the record a change was seen at.       *)
Place(records, id) == CHOOSE i \in DOMAIN records : records[i].run = id[1]

(* An intervention on a change finds it, in a history that grew in order   *)
(* since the attribution and where no run was evaluated twice, unless an   *)
(* earlier intervention of the scenario reverted the record just before:   *)
(* what is then left of the change has another change_id.                  *)
SkippedOnlyBehindRevert ==
    (~delayed /\ DistinctRuns(simulation.base)) =>
        LET records == Chronological(simulation.base)
            At(k) == Place(records, simulation.ids[k])
        IN \A k \in DOMAIN simulation.ids :
               simulation.found[k] \/ \E j \in 1..(k - 1) : At(j) = At(k) - 1

(* A scenario of one change takes the record it was seen at back to the    *)
(* deployment before it and leaves every other record alone, unless        *)
(* system_info came or went as a whole or a run was evaluated twice.       *)
RevertIsExact ==
    (~delayed /\ DistinctRuns(simulation.base) /\ Len(simulation.ids) = 1) =>
        LET before == Chronological(simulation.base)
            after == Chronological(simulation.store)
            n == Place(before, simulation.ids[1])
        IN /\ \A i \in DOMAIN before : i # n => after[i] = before[i]
           /\ before[n].info = before[n - 1].info \/ BothDicts(before[n - 1], before[n])
                  => \A f \in Fields : after[n][f] = before[n - 1][f]

(* The estimate of what the metric would have been is made from records    *)
(* before the drift, a window of them at least: the fallback, the mean of  *)
(* all records with the drifted ones among them, is not taken.             *)
ReferenceBeforeDrift ==
    (simulation.ids # << >> /\ DistinctTimes(simulation.base)) =>
        Len(PreWindow(event, simulation.store)) >= Window

(* A recommendation that was not simulated comes first only where every    *)
(* simulated one makes the metric worse.                                   *)
UnsimulatedOnlyBeforeHarm ==
    LET simulated == UNION {{results[i].ids[k] : k \in DOMAIN results[i].ids} : i \in DOMAIN results}
    IN \A i \in DOMAIN plan : plan[i].id \notin simulated =>
           \A j \in i..Len(plan) : plan[j].id \in simulated => plan[j].improvement < 0
=============================================================================
