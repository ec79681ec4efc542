-------------------------- MODULE OptimizationLoop --------------------------
(***************************************************************************)
(* The closed optimization loop: OptimizationRunner.run_optimization_cycle *)
(* (evaluator/optimization/runner.py) takes a drift event and its causal   *)
(* attribution, simulates the removal of the top factors, lets the         *)
(* OptimizationEngine select an action and the PolicyEvaluator             *)
(* (evaluator/guardrails/policy.py) approve or block it, and appends the   *)
(* outcome to the execution history the next cycles are judged by.         *)
(*                                                                         *)
(* A cycle is synchronous.  It reads the wall clock several times, and the *)
(* clock may advance in between; between cycles it may also be set back.   *)
(*                                                                         *)
(* An action has no parameters (engine.py puts no "params" in its          *)
(* metadata), so the bounds check never rejects it, and its target_run_id  *)
(* is always "" (the simulator's results name no run), so that the         *)
(* flapping check counts every entry of the history.                       *)
(***************************************************************************)
EXTENDS Integers, Sequences, FiniteSets

CONSTANTS
    Tracks,         \* tracks of the drift events
    Changes,        \* change_ids of the system's change events
    Scores,         \* scores of causal factors, rounded
    MinConfidence,  \* min_confidence of the engine
    Cooldown,       \* cooldown_period_s
    Window,         \* flapping_window_s
    MaxFlapping,    \* max_flapping_per_hour
    MaxTime,        \* bound: last reading of the clock
    MaxCycleTime,   \* bound: advance of the clock during a cycle
    MaxCycles,      \* bound: length of the execution history
    MaxSetBacks     \* bound: times the clock is set back

ASSUME LoopConstants ==
    /\ Tracks \subseteq {"retrieval", "generation", "unified"}
    /\ Scores \subseteq Nat
    /\ MinConfidence \in Nat
    /\ Cooldown \in Nat
    /\ Window \in Nat
    /\ MaxFlapping \in Nat
    /\ MaxTime \in Nat
    /\ MaxCycleTime \in Nat
    /\ MaxCycles \in Nat
    /\ MaxSetBacks \in Nat

VARIABLES
    now,            \* time.time()
    history,        \* self.execution_history
    setBacks        \* times the clock was set back

vars == <<now, history, setBacks>>

NoStamp == -1       \* metadata has no "executed_at"

ActionTypes == {"adjust_top_k", "adjust_temperature", "rollback_config"}
Statuses == {"approved", "blocked_by_guardrail"}
Rules == {"none", "cooldown_period", "max_flapping"}

(* _action_signature, without the target run that all actions share.       *)
Signatures == [type : ActionTypes, change : Changes]

(* checked is a history variable: when the action was blocked or approved.  *)
Entries == [sig : Signatures, at : 0..MaxTime \cup {NoStamp},
            status : Statuses, rule : Rules, checked : 0..MaxTime]

(* Causal factors, at most one per change.                                 *)
Attributions == UNION {[S -> Scores] : S \in SUBSET Changes}

Init ==
    /\ now = 0
    /\ history = << >>
    /\ setBacks = 0
-----------------------------------------------------------------------------
(* Mutant of ActionType: the action is named after the track.              *)
ActionTypeIsTrack(track) == track

(* _select_action_type.                                                    *)
ActionType(track) ==
    CASE track = "retrieval"  -> "adjust_top_k"
      [] track = "generation" -> "adjust_temperature"
      [] track = "unified"    -> "rollback_config"

(* run_counterfactual_analysis and select_action.  An intervention changes *)
(* no metric and no timestamp, so every scenario has the same delta, and   *)
(* max() keeps the first result of sufficient confidence: the scenario of  *)
(* a factor of the highest score.                                          *)
Selectable(factors) ==
    {c \in DOMAIN factors :
        /\ factors[c] >= MinConfidence
        /\ \A d \in DOMAIN factors : factors[d] <= factors[c]}

(* An entry without a stamp is taken to be from just now.                  *)
Elapsed(past, t) == IF past.at = NoStamp THEN 0 ELSE t - past.at

(* Mutant of CoolingDown: looks at the latest entry only.                  *)
CoolingDownSinceLast(sig, t) ==
    /\ history # << >>
    /\ Elapsed(history[Len(history)], t) < Cooldown
    /\ history[Len(history)].sig = sig

(* _check_cooldown at time t rejects an action of this signature.          *)
CoolingDown(sig, t) ==
    \E i \in DOMAIN history :
        Elapsed(history[i], t) < Cooldown /\ history[i].sig = sig

(* Mutant of Flapping: off by one.                                         *)
FlappingAboveMax(t) ==
    Cardinality({i \in DOMAIN history : Elapsed(history[i], t) <= Window})
        > MaxFlapping

(* _check_flapping at time t rejects any action.                           *)
Flapping(t) ==
    Cardinality({i \in DOMAIN history : Elapsed(history[i], t) <= Window})
        >= MaxFlapping

(* validate_action, which reads the clock at t1 and at t2.                 *)
RuleViolated(sig, t1, t2) ==
    IF CoolingDown(sig, t1) THEN "cooldown_period"
    ELSE IF Flapping(t2) THEN "max_flapping"
    ELSE "none"

(* A blocked action is appended with its reason, and without executed_at.  *)
Blocked(sig, t1, t2) ==
    /\ RuleViolated(sig, t1, t2) # "none"
    /\ history' = Append(history,
           [sig |-> sig, at |-> NoStamp, status |-> "blocked_by_guardrail",
            rule |-> RuleViolated(sig, t1, t2), checked |-> t1])

(* An approved action is appended with the time at t3, after the checks.   *)
Approved(sig, t1, t2, t3) ==
    /\ RuleViolated(sig, t1, t2) = "none"
    /\ history' = Append(history,
           [sig |-> sig, at |-> t3, status |-> "approved",
            rule |-> "none", checked |-> t3])

(* A cycle that selects an action.  With no factor of enough confidence it *)
(* returns "no_action_needed" and changes nothing.                         *)
Cycle(track, factors) ==
    /\ Len(history) < MaxCycles
    /\ \E change \in Selectable(factors), t2, t3 \in now..(now + MaxCycleTime) :
        LET sig == [type |-> ActionType(track), change |-> change] IN
        /\ t2 <= t3 /\ t3 <= MaxTime
        /\ Blocked(sig, now, t2) \/ Approved(sig, now, t2, t3)
        /\ now' = t3
    /\ UNCHANGED setBacks

Tick ==
    /\ now < MaxTime
    /\ now' = now + 1
    /\ UNCHANGED <<history, setBacks>>

(* time.time() is not monotonic: the clock is corrected.                   *)
SetBack ==
    /\ setBacks < MaxSetBacks
    /\ setBacks' = setBacks + 1
    /\ now' \in 0..(now - 1)
    /\ UNCHANGED history

Next ==
    \/ \E track \in Tracks, factors \in Attributions : Cycle(track, factors)
    \/ Tick
    \/ SetBack

Spec == Init /\ [][Next]_vars
-----------------------------------------------------------------------------
(* Every variable ranges over the values its counterpart can have.         *)
TypeOK ==
    /\ now \in 0..MaxTime
    /\ history \in Seq(Entries)
    /\ setBacks \in 0..MaxSetBacks

IsApproved(i) == history[i].status = "approved"

Gap(i, j) == history[j].at - history[i].at

(* Policy rule 1: between two approvals of the same action the recorded    *)
(* times differ by the cooldown, whatever was blocked in between, however  *)
(* the clock moved during a cycle, and even when it was set back.          *)
CooldownRespected ==
    \A i, j \in DOMAIN history :
        i < j /\ IsApproved(i) /\ IsApproved(j) /\ history[i].sig = history[j].sig
            => Gap(i, j) >= Cooldown

(* Policy rule 2: an approval never completes more than MaxFlapping        *)
(* approvals within the window that ends with it.                          *)
FlappingBounded ==
    \A j \in DOMAIN history :
        IsApproved(j) =>
            Cardinality({i \in 1..(j - 1) : IsApproved(i) /\ Gap(i, j) <= Window})
                < MaxFlapping

(* tests/test_policy_guardrails.py, "Identical action after cooldown       *)
(* period should be allowed": an action is rejected for the cooldown only  *)
(* if it was executed less than the cooldown before.                       *)
CooldownBlocksForCause ==
    \A j \in DOMAIN history :
        history[j].rule = "cooldown_period" =>
            \E i \in 1..(j - 1) :
                /\ IsApproved(i)
                /\ history[i].sig = history[j].sig
                /\ history[j].checked - history[i].at < Cooldown
=============================================================================
