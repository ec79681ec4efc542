-------------------------- MODULE DriftEvaluation ---------------------------
(***************************************************************************)
(* POST /v1/telemetry/evaluate (api/routes/telemetry.py) and               *)
(* DriftMonitor.evaluate_frames (evaluator/drift_monitor.py): concurrent   *)
(* requests that share one monitor object, one event loop and the table    *)
(* telemetry_evaluations, which is also where dynamic baselines are read   *)
(* (evaluator/baseline_service.py, evaluator/drift_store.py).              *)
(*                                                                         *)
(* A frame is its timestamp.  What a threshold is worth is the set of rows *)
(* it was calibrated from, {} for a configured threshold; the statistics   *)
(* themselves are a choice of a verdict.                                   *)
(***************************************************************************)
EXTENDS Integers, Sequences, FiniteSets, Functions

CONSTANTS
    Requests,       \* requests for an evaluation
    Ingestion,      \* the ingestion buffer, which also writes rows
    Frames,         \* timestamps of frames
    Notifier,       \* whether the monitor has a notifier with a webhook:
                    \* the one the gateway builds has none, one that is
                    \* passed to create_app may
    MinBaseline,    \* config.MIN_BASELINE_FRAMES
    Limit,          \* DEFAULT_BASELINE_LIMIT
    Payloads,       \* bound: lists of current frames a request may bring
    MaxCrashes      \* bound: times the process is killed

ASSUME EvaluationConstants ==
    /\ Ingestion \notin Requests
    /\ Frames \subseteq Nat
    /\ IsFiniteSet(Frames)
    /\ Notifier \in BOOLEAN
    /\ MinBaseline \in Nat
    /\ Limit \in Nat \ {0}
    /\ Payloads \subseteq {s \in Seq(Frames) : IsInjective(s)}
    /\ << >> \in Payloads
    /\ MaxCrashes \in Nat

VARIABLES
    pc,             \* where each request is
    current,        \* the current frames of each request, in its order
    source,         \* baseline_source of each request
    baseline,       \* the rows each request read as its dynamic baseline
    verdict,        \* the verdict on each request
    judgedBy,       \* the thresholds in force when it was reached
    alert,          \* the alert of each request
    written,        \* current frames of each request recorded so far
    thresholds,     \* thresholds of the monitor and of its two calculators
    saved,          \* _saved_thresholds: << >> for None
    table,          \* rows of telemetry_evaluations
    cutoff,         \* start of the sliding window: now - hours
    crashes         \* times the process was killed so far

requestVars == <<pc, current, source, baseline, verdict, judgedBy, alert, written>>
monitorVars == <<thresholds, saved>>
vars == <<requestVars, monitorVars, table, cutoff, crashes>>

Metrics == {"jsd", "mmd", "kl", "spectral", "density", "entropy", "reflection"}

(* The metrics for which compute_calibrated_thresholds returns a value.    *)
CalibratedMetrics == {"jsd", "mmd", "kl", "spectral", "entropy"}

Configured == [m \in Metrics |-> {}]

Rows == [frame : Frames, by : Requests \cup {Ingestion}, drifted : BOOLEAN]

(* Between two awaits: the event loop runs nobody else.                    *)
MidTurn == {"calibrate", "judge", "restore"}

(* Suspended in an await.                                                  *)
Awaiting == {"recent", "window", "alert", "record"}
Finished == {"ok", "error", "lost"}

(* Mutant of Turn: the evaluation runs beside the event loop.              *)
AnyTime(r) == TRUE

(* Request r may step: no other request is between two awaits.             *)
Turn(r) == \A q \in Requests \ {r} : pc[q] \notin MidTurn

Init ==
    /\ pc = [r \in Requests |-> "idle"]
    /\ current = [r \in Requests |-> << >>]
    /\ source = [r \in Requests |-> "explicit"]
    /\ baseline = [r \in Requests |-> {}]
    /\ verdict = [r \in Requests |-> "none"]
    /\ judgedBy = [r \in Requests |-> Configured]
    /\ alert = [r \in Requests |-> "none"]
    /\ written = [r \in Requests |-> 0]
    /\ thresholds = Configured
    /\ saved = << >>
    /\ table = {}
    /\ cutoff = 0
    /\ crashes = 0
-----------------------------------------------------------------------------
(* evaluate_telemetry: explicit frames are judged at once; a batch id asks *)
(* for the most recent rows; without either the window is read.            *)
Begin(r) ==
    /\ pc[r] = "idle"
    /\ Turn(r)
    /\ \E s \in Payloads : current' = [current EXCEPT ![r] = s]
    /\ \E next \in {"judge", "recent", "window"} : pc' = [pc EXCEPT ![r] = next]
    /\ UNCHANGED <<source, baseline, verdict, judgedBy, alert, monitorVars>>
    /\ UNCHANGED <<written, table, cutoff, crashes>>

(* get_recent_frames.  Without a row evaluate_frames turns to the window;  *)
(* with rows they are an explicit baseline, as if the client had sent it.  *)
ReadRecent(r) ==
    /\ pc[r] = "recent"
    /\ Turn(r)
    /\ pc' = [pc EXCEPT ![r] = IF table = {} THEN "window" ELSE "judge"]
    /\ UNCHANGED <<current, source, baseline, verdict, judgedBy, alert>>
    /\ UNCHANGED <<written, monitorVars, table, cutoff, crashes>>

(* The first Limit rows of a SELECT; rows of one timestamp in any order.   *)
Oldest(rows) ==
    {B \in SUBSET rows :
        /\ Cardinality(B) = IF Cardinality(rows) < Limit THEN Cardinality(rows) ELSE Limit
        /\ \A x \in B, y \in rows \ B : x.frame <= y.frame}

(* fetch_sliding_baseline_frames.                                          *)
ReadWindow(r) ==
    /\ pc[r] = "window"
    /\ Turn(r)
    /\ \E B \in Oldest({row \in table : row.frame >= cutoff}) :
        baseline' = [baseline EXCEPT ![r] = B]
    /\ source' = [source EXCEPT ![r] = "dynamic"]
    /\ pc' = [pc EXCEPT ![r] = "calibrate"]
    /\ UNCHANGED <<current, verdict, judgedBy, alert, monitorVars>>
    /\ UNCHANGED <<written, table, cutoff, crashes>>

(* The pool or the SELECT raises.                                          *)
ReadFails(r) ==
    /\ pc[r] \in {"recent", "window"}
    /\ Turn(r)
    /\ pc' = [pc EXCEPT ![r] = "error"]
    /\ UNCHANGED <<current, source, baseline, verdict, judgedBy, alert>>
    /\ UNCHANGED <<written, monitorVars, table, cutoff, crashes>>
-----------------------------------------------------------------------------
(* There are thresholds to return: MIN_BASELINE_FRAMES rows, and at least  *)
(* one bootstrap iteration over their halves.                              *)
Suffices(B) == Cardinality(B) >= MinBaseline /\ Cardinality(B) \div 2 >= 1

(* Mutant of Calibrate: without the early return, a small window waits.    *)
CalibrateWhenSufficient(r) ==
    /\ pc[r] = "calibrate"
    /\ Turn(r)
    /\ Suffices(baseline[r])
    /\ saved' = <<thresholds>>
    /\ thresholds' = [m \in Metrics |->
         IF m \in CalibratedMetrics THEN baseline[r] ELSE thresholds[m]]
    /\ pc' = [pc EXCEPT ![r] = "judge"]
    /\ UNCHANGED <<current, source, baseline, verdict, judgedBy, alert>>
    /\ UNCHANGED <<written, table, cutoff, crashes>>

(* Mutant of Calibrate: the calibrated thresholds are all there are.       *)
CalibrateDropsRest(r) ==
    /\ pc[r] = "calibrate"
    /\ Turn(r)
    /\ IF Suffices(baseline[r])
       THEN /\ saved' = <<thresholds>>
            /\ thresholds' = [m \in CalibratedMetrics |-> baseline[r]]
       ELSE UNCHANGED monitorVars
    /\ pc' = [pc EXCEPT ![r] = "judge"]
    /\ UNCHANGED <<current, source, baseline, verdict, judgedBy, alert>>
    /\ UNCHANGED <<written, table, cutoff, crashes>>

(* _apply_calibrated_thresholds, or its early return.                      *)
Calibrate(r) ==
    /\ pc[r] = "calibrate"
    /\ Turn(r)
    /\ IF Suffices(baseline[r])
       THEN /\ saved' = <<thresholds>>
            /\ thresholds' = [m \in Metrics |->
                 IF m \in CalibratedMetrics THEN baseline[r] ELSE thresholds[m]]
       ELSE UNCHANGED monitorVars
    /\ pc' = [pc EXCEPT ![r] = "judge"]
    /\ UNCHANGED <<current, source, baseline, verdict, judgedBy, alert>>
    /\ UNCHANGED <<written, table, cutoff, crashes>>

(* compute_calibrated_thresholds raises, outside the try: the rows hold    *)
(* embeddings of several widths.                                           *)
CalibrateFails(r) ==
    /\ pc[r] = "calibrate"
    /\ Turn(r)
    /\ Suffices(baseline[r])
    /\ pc' = [pc EXCEPT ![r] = "error"]
    /\ UNCHANGED <<current, source, baseline, verdict, judgedBy, alert>>
    /\ UNCHANGED <<written, monitorVars, table, cutoff, crashes>>

(* The three drift computations in the try; they may raise.                *)
Judge(r) ==
    /\ pc[r] = "judge"
    /\ Turn(r)
    /\ judgedBy' = [judgedBy EXCEPT ![r] = thresholds]
    /\ \E v \in {"drifted", "stable", "raised"} : verdict' = [verdict EXCEPT ![r] = v]
    /\ pc' = [pc EXCEPT ![r] = "restore"]
    /\ UNCHANGED <<current, source, baseline, alert, monitorVars>>
    /\ UNCHANGED <<written, table, cutoff, crashes>>

(* The frames are written one by one, if there are any.                    *)
ToRecord(r) == IF current[r] = << >> THEN "ok" ELSE "record"

(* Mutant of AfterJudging: the alert is left to the end.                   *)
RecordFirst(r) ==
    IF verdict[r] = "raised" THEN "error" ELSE ToRecord(r)

AfterJudging(r) ==
    CASE verdict[r] = "raised" -> "error"
      [] verdict[r] = "drifted" /\ Notifier -> "alert"
      [] OTHER -> ToRecord(r)

(* Mutant of Restore: after the try, not in its finally.                   *)
RestoreOnSuccess(r) ==
    /\ pc[r] = "restore"
    /\ Turn(r)
    /\ IF source[r] = "dynamic" /\ saved # << >> /\ verdict[r] # "raised"
       THEN thresholds' = saved[1] /\ saved' = << >>
       ELSE UNCHANGED monitorVars
    /\ pc' = [pc EXCEPT ![r] = AfterJudging(r)]
    /\ UNCHANGED <<current, source, baseline, verdict, judgedBy, alert>>
    /\ UNCHANGED <<written, table, cutoff, crashes>>

(* The finally clause with _restore_thresholds, and on to the next await.  *)
Restore(r) ==
    /\ pc[r] = "restore"
    /\ Turn(r)
    /\ IF source[r] = "dynamic" /\ saved # << >>
       THEN thresholds' = saved[1] /\ saved' = << >>
       ELSE UNCHANGED monitorVars
    /\ pc' = [pc EXCEPT ![r] = AfterJudging(r)]
    /\ UNCHANGED <<current, source, baseline, verdict, judgedBy, alert>>
    /\ UNCHANGED <<written, table, cutoff, crashes>>
-----------------------------------------------------------------------------
(* notify_if_drifted never raises.                                         *)
Alert(r) ==
    /\ pc[r] = "alert"
    /\ Turn(r)
    /\ \E a \in {"sent", "failed"} : alert' = [alert EXCEPT ![r] = a]
    /\ pc' = [pc EXCEPT ![r] = ToRecord(r)]
    /\ UNCHANGED <<current, source, baseline, verdict, judgedBy>>
    /\ UNCHANGED <<written, monitorVars, table, cutoff, crashes>>

RowsOf(r) == {row \in table : row.by = r}

(* What record_evaluation writes for the i-th current frame.               *)
RowFor(r, i) ==
    [frame |-> current[r][i], by |-> r, drifted |-> verdict[r] = "drifted"]

(* record_evaluation of one frame; after the last the answer is 200.       *)
Record(r) ==
    /\ pc[r] = "record"
    /\ Turn(r)
    /\ table' = table \cup {RowFor(r, written[r] + 1)}
    /\ written' = [written EXCEPT ![r] = @ + 1]
    /\ pc' = [pc EXCEPT ![r] = IF written[r] + 1 < Len(current[r]) THEN "record" ELSE "ok"]
    /\ UNCHANGED <<current, source, baseline, verdict, judgedBy, alert>>
    /\ UNCHANGED <<monitorVars, cutoff, crashes>>

(* Mutant of RecordFails: the failure of one frame is logged and skipped.  *)
RecordSkips(r) ==
    /\ pc[r] = "record"
    /\ Turn(r)
    /\ written' = [written EXCEPT ![r] = @ + 1]
    /\ pc' = [pc EXCEPT ![r] = IF written[r] + 1 < Len(current[r]) THEN "record" ELSE "ok"]
    /\ UNCHANGED <<current, source, baseline, verdict, judgedBy, alert>>
    /\ UNCHANGED <<monitorVars, table, cutoff, crashes>>

(* The INSERT raises, having committed or not: the answer is an error.     *)
RecordFails(r) ==
    /\ pc[r] = "record"
    /\ Turn(r)
    /\ table' = table \cup {RowFor(r, written[r] + 1)} \/ UNCHANGED table
    /\ pc' = [pc EXCEPT ![r] = "error"]
    /\ UNCHANGED <<current, source, baseline, verdict, judgedBy, alert>>
    /\ UNCHANGED <<written, monitorVars, cutoff, crashes>>
-----------------------------------------------------------------------------
(* The process is killed and comes back with a new monitor.                *)
Crash ==
    /\ crashes < MaxCrashes
    /\ crashes' = crashes + 1
    /\ pc' = [r \in Requests |-> IF pc[r] \in MidTurn \cup Awaiting THEN "lost" ELSE pc[r]]
    /\ thresholds' = Configured
    /\ saved' = << >>
    /\ UNCHANGED <<current, source, baseline, verdict, judgedBy, alert>>
    /\ UNCHANGED <<written, table, cutoff>>

(* The ingestion buffer stores a raw frame, whose is_drifted is false.     *)
Ingest ==
    /\ \E f \in Frames :
        table' = table \cup {[frame |-> f, by |-> Ingestion, drifted |-> FALSE]}
    /\ UNCHANGED <<requestVars, monitorVars, cutoff, crashes>>

(* Time passes: frames older than some frame leave the window.             *)
Slide ==
    /\ \E f \in Frames : f > cutoff /\ cutoff' = f
    /\ UNCHANGED <<requestVars, monitorVars, table, crashes>>

Step(r) ==
    \/ ReadRecent(r) \/ ReadWindow(r) \/ ReadFails(r)
    \/ Calibrate(r) \/ CalibrateFails(r) \/ Judge(r) \/ Restore(r)
    \/ Alert(r) \/ Record(r) \/ RecordFails(r)

Next ==
    \/ \E r \in Requests : Begin(r) \/ Step(r)
    \/ Crash \/ Ingest \/ Slide

Spec == Init /\ [][Next]_vars

(* asyncio runs every task that is ready, and the calls a request awaits   *)
(* return or raise.                                                        *)
Fairness == \A r \in Requests : WF_vars(Step(r))
LiveSpec == Spec /\ Fairness
-----------------------------------------------------------------------------
Verdicts == {"none", "drifted", "stable", "raised"}

(* The types of the variables.                                             *)
TypeOK ==
    /\ pc \in [Requests -> {"idle"} \cup Awaiting \cup MidTurn \cup Finished]
    /\ current \in [Requests -> Payloads]
    /\ source \in [Requests -> {"explicit", "dynamic"}]
    /\ baseline \in [Requests -> SUBSET Rows]
    /\ verdict \in [Requests -> Verdicts]
    /\ judgedBy \in [Requests -> [Metrics -> SUBSET Rows]]
    /\ alert \in [Requests -> {"none", "sent", "failed"}]
    /\ written \in [Requests -> Nat]
    /\ thresholds \in [Metrics -> SUBSET Rows]
    /\ saved = << >> \/ saved \in [1..1 -> [Metrics -> SUBSET Rows]]
    /\ table \subseteq Rows
    /\ cutoff \in Nat
    /\ crashes \in Nat

ThresholdsFor(r) ==
    [m \in Metrics |->
        IF source[r] = "dynamic" /\ Suffices(baseline[r]) /\ m \in CalibratedMetrics
        THEN baseline[r] ELSE {}]

(* Every request is judged by the thresholds calibrated from its own       *)
(* baseline, or by the configured ones when it brought its baseline or the *)
(* window was too small: never by those of another request, whichever of   *)
(* them ran, raised or was killed in between.                              *)
OwnThresholds ==
    \A r \in Requests :
        verdict[r] \in {"drifted", "stable"} => judgedBy[r] = ThresholdsFor(r)

(* The rows of a request are those of its first frames, all of them once   *)
(* it is answered, and carry its verdict: a failure or a crash leaves a    *)
(* prefix, no gap, and no row of a request that reached no verdict.        *)
RowsFollowAnswer ==
    \A r \in Requests : \E n \in 0..Len(current[r]) :
        /\ RowsOf(r) = {RowFor(r, i) : i \in 1..n}
        /\ pc[r] = "ok" => n = Len(current[r])
        /\ verdict[r] \in {"none", "raised"} => n = 0

(* With a notifier, no drifted evaluation is stored or answered before its *)
(* alert was tried, and there is no alert without a drifted verdict.       *)
AlertedFirst ==
    \A r \in Requests :
        /\ Notifier /\ verdict[r] = "drifted" /\ (RowsOf(r) # {} \/ pc[r] = "ok")
             => alert[r] # "none"
        /\ alert[r] # "none" => verdict[r] = "drifted"

(* Every request that was begun is answered or dies with its process.      *)
RequestsEnd ==
    \A r \in Requests : pc[r] # "idle" ~> pc[r] \in Finished
=============================================================================
