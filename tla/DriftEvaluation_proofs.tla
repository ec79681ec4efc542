----------------------- MODULE DriftEvaluation_proofs -----------------------
(***************************************************************************)
(* Proofs about DriftEvaluation, for any number of requests and frames,    *)
(* any baseline sizes and with or without a notifier.                      *)
(***************************************************************************)
EXTENDS DriftEvaluation, TLAPS

-----------------------------------------------------------------------------
(* The inductive invariant.                                                *)

Early == {"idle", "recent", "window"}

(* Request r holds the event loop and has replaced the thresholds.         *)
Overriding(r) ==
    /\ pc[r] \in {"judge", "restore"}
    /\ source[r] = "dynamic"
    /\ Suffices(baseline[r])

(* At most one request is between two awaits.                              *)
OneTurn ==
    \A q, r \in Requests : pc[q] \in MidTurn /\ pc[r] \in MidTurn => q = r

(* The thresholds in force and the saved ones.                             *)
MonitorOK ==
    /\ (\A r \in Requests : ~Overriding(r)) => thresholds = Configured /\ saved = << >>
    /\ \A r \in Requests : Overriding(r) =>
         thresholds = ThresholdsFor(r) /\ saved = <<Configured>>

(* What a request has not yet reached.                                     *)
ProgressOK ==
    \A r \in Requests :
        /\ pc[r] \in Early => source[r] = "explicit"
        /\ pc[r] = "calibrate" => source[r] = "dynamic"
        /\ pc[r] \in Early \cup {"calibrate", "judge"} => verdict[r] = "none"
        /\ pc[r] = "restore" => verdict[r] # "none"

TurnInv == OneTurn /\ MonitorOK /\ ProgressOK /\ OwnThresholds

BeforeRecord == Early \cup MidTurn \cup {"alert"}

(* What is known of verdict and alert at each place.                       *)
AlertOK ==
    \A r \in Requests :
        /\ pc[r] \in BeforeRecord => alert[r] = "none"
        /\ pc[r] = "alert" => verdict[r] = "drifted"
        /\ pc[r] \in {"record", "ok"} => verdict[r] \in {"drifted", "stable"}
        /\ pc[r] \in {"record", "ok"} /\ Notifier /\ verdict[r] = "drifted"
             => alert[r] # "none"
        /\ alert[r] # "none" => verdict[r] = "drifted"

FirstRows(r, n) == {RowFor(r, i) : i \in 1..n}

(* The rows of a request at each place.                                    *)
RowsOK ==
    \A r \in Requests :
        /\ pc[r] \in BeforeRecord => RowsOf(r) = {} /\ written[r] = 0
        /\ pc[r] = "record" =>
             RowsOf(r) = FirstRows(r, written[r]) /\ written[r] < Len(current[r])
        /\ pc[r] = "ok" => RowsOf(r) = FirstRows(r, Len(current[r]))
        /\ RowsOf(r) # {} /\ Notifier /\ verdict[r] = "drifted" => alert[r] # "none"

RecordInv == AlertOK /\ RowsOK /\ RowsFollowAnswer

IInv == TypeOK /\ TurnInv /\ RecordInv
-----------------------------------------------------------------------------
(* Facts about the operators.                                              *)

(* A current frame is a frame, so what is written for it is a row.         *)
LEMMA RowForIsRow ==
    ASSUME TypeOK, NEW r \in Requests, NEW i \in 1..Len(current[r])
    PROVE  RowFor(r, i) \in Rows
<1>1. current[r] \in Seq(Frames)
  BY EvaluationConstants DEF TypeOK
<1>2. current[r][i] \in Frames
  BY <1>1
<1> QED
  BY <1>2 DEF RowFor, Rows

(* Where a request goes after its verdict, by the verdict.                 *)
LEMMA AfterJudgingCases ==
    ASSUME NEW r \in Requests, verdict[r] \in Verdicts
    PROVE  /\ verdict[r] = "raised" => AfterJudging(r) = "error"
           /\ verdict[r] = "drifted" /\ Notifier => AfterJudging(r) = "alert"
           /\ verdict[r] # "raised" /\ ~(verdict[r] = "drifted" /\ Notifier)
                => AfterJudging(r) = ToRecord(r)
  BY DEF AfterJudging

(* Where a request goes when it has frames to record, or none.             *)
LEMMA ToRecordCases ==
    ASSUME NEW r \in Requests
    PROVE  /\ current[r] = << >> => ToRecord(r) = "ok"
           /\ current[r] # << >> => ToRecord(r) = "record"
  BY DEF ToRecord
-----------------------------------------------------------------------------
(* Types.                                                                  *)

(* The initial state has the types.                                        *)
LEMMA InitType == Init => TypeOK
<1> SUFFICES ASSUME Init PROVE TypeOK
  OBVIOUS
<1>1. Configured \in [Metrics -> SUBSET Rows]
  BY DEF Configured
<1> QED
  BY <1>1, EvaluationConstants DEF Init, TypeOK, Verdicts

(* A step of a request keeps them.                                         *)
LEMMA StepType ==
    ASSUME TypeOK, RowsOK, NEW r \in Requests, Begin(r) \/ Step(r)
    PROVE  TypeOK'
<1> USE DEF TypeOK, Awaiting, MidTurn, Finished
<1>1. CASE Begin(r)
  BY <1>1 DEF Begin, monitorVars
<1>2. CASE ReadRecent(r)
  BY <1>2 DEF ReadRecent, monitorVars
<1>3. CASE ReadWindow(r)
  <2>1. baseline' \in [Requests -> SUBSET Rows]
    BY <1>3 DEF ReadWindow, Oldest
  <2> QED
    BY <1>3, <2>1 DEF ReadWindow, monitorVars
<1>4. CASE ReadFails(r)
  BY <1>4 DEF ReadFails, monitorVars
<1>5. CASE Calibrate(r)
  <2>1. thresholds' \in [Metrics -> SUBSET Rows]
    BY <1>5 DEF Calibrate, monitorVars
  <2>2. saved' = << >> \/ saved' \in [1..1 -> [Metrics -> SUBSET Rows]]
    <3>1. <<thresholds>> \in [1..1 -> [Metrics -> SUBSET Rows]]
      OBVIOUS
    <3> QED
      BY <1>5, <3>1 DEF Calibrate, monitorVars
  <2> QED
    BY <1>5, <2>1, <2>2 DEF Calibrate
<1>6. CASE CalibrateFails(r)
  BY <1>6 DEF CalibrateFails, monitorVars
<1>7. CASE Judge(r)
  BY <1>7 DEF Judge, monitorVars, Verdicts
<1>8. CASE Restore(r)
  <2>1. AfterJudging(r) \in Awaiting \cup Finished
    BY AfterJudgingCases, ToRecordCases
  <2>2. saved # << >> => saved[1] \in [Metrics -> SUBSET Rows]
    OBVIOUS
  <2> QED
    BY <1>8, <2>1, <2>2 DEF Restore, monitorVars
<1>9. CASE Alert(r)
  BY <1>9, ToRecordCases DEF Alert, monitorVars
<1>10. CASE Record(r)
  <2>1. written[r] + 1 \in 1..Len(current[r])
    BY <1>10, EvaluationConstants DEF Record, RowsOK
  <2>2. RowFor(r, written[r] + 1) \in Rows
    BY <2>1, RowForIsRow
  <2> QED
    BY <1>10, <2>2 DEF Record, monitorVars
<1>11. CASE RecordFails(r)
  <2>1. written[r] + 1 \in 1..Len(current[r])
    BY <1>11, EvaluationConstants DEF RecordFails, RowsOK
  <2>2. RowFor(r, written[r] + 1) \in Rows
    BY <2>1, RowForIsRow
  <2> QED
    BY <1>11, <2>2 DEF RecordFails, monitorVars
<1> QED
  BY <1>1, <1>2, <1>3, <1>4, <1>5, <1>6, <1>7, <1>8, <1>9, <1>10, <1>11 DEF Step

(* Every step keeps them.                                                  *)
LEMMA NextType ==
    ASSUME TypeOK, RowsOK, [Next]_vars
    PROVE  TypeOK'
<1>1. CASE \E r \in Requests : Begin(r) \/ Step(r)
  BY <1>1, StepType
<1>2. CASE Crash
  <2>1. Configured \in [Metrics -> SUBSET Rows]
    BY DEF Configured
  <2> QED
    BY <1>2, <2>1 DEF Crash, TypeOK, Awaiting, MidTurn, Finished
<1>3. CASE Ingest
  <2>1. PICK f \in Frames :
           table' = table \cup {[frame |-> f, by |-> Ingestion, drifted |-> FALSE]}
    BY <1>3 DEF Ingest
  <2>2. [frame |-> f, by |-> Ingestion, drifted |-> FALSE] \in Rows
    BY DEF Rows
  <2>3. table' \subseteq Rows
    BY <2>1, <2>2 DEF TypeOK
  <2> QED
    BY <1>3, <2>3 DEF Ingest, TypeOK, requestVars, monitorVars
<1>4. CASE Slide
  BY <1>4, EvaluationConstants DEF Slide, TypeOK, requestVars, monitorVars
<1>5. CASE UNCHANGED vars
  BY <1>5 DEF TypeOK, vars, requestVars, monitorVars
<1> QED
  BY <1>1, <1>2, <1>3, <1>4, <1>5 DEF Next
-----------------------------------------------------------------------------
(* Thresholds.                                                             *)

(* In the initial state nothing is overridden.                             *)
LEMMA InitTurn == Init => TurnInv
<1> SUFFICES ASSUME Init PROVE TurnInv
  OBVIOUS
<1> USE DEF Init
<1>1. OneTurn /\ ProgressOK /\ OwnThresholds
  BY DEF OneTurn, MidTurn, ProgressOK, Early, OwnThresholds
<1>2. MonitorOK
  BY DEF MonitorOK, Overriding
<1> QED
  BY <1>1, <1>2 DEF TurnInv

(* While a request is judged or restores, it alone holds the event loop,   *)
(* so a step of another request finds nothing overridden.                  *)
LEMMA StepTurn ==
    ASSUME TypeOK, OneTurn, NEW r \in Requests, Begin(r) \/ Step(r)
    PROVE  /\ OneTurn'
           /\ \A q \in Requests \ {r} : pc[q] \notin MidTurn /\ pc'[q] = pc[q]
<1>1. Turn(r) /\ \A q \in Requests \ {r} : pc'[q] = pc[q]
  BY DEF Begin, Step, ReadRecent, ReadWindow, ReadFails, Calibrate, CalibrateFails,
         Judge, Restore, Alert, Record, RecordFails, TypeOK
<1> QED
  BY <1>1 DEF Turn, OneTurn

(* What request r is due does not change with the other requests.          *)
LEMMA SameDue ==
    ASSUME NEW r \in Requests, source'[r] = source[r], baseline'[r] = baseline[r]
    PROVE  ThresholdsFor(r)' = ThresholdsFor(r)
  BY DEF ThresholdsFor

(* Without a calibration the configured thresholds are due.                *)
LEMMA DueIsConfigured ==
    ASSUME NEW r \in Requests, ~(source[r] = "dynamic" /\ Suffices(baseline[r]))
    PROVE  ThresholdsFor(r) = Configured
  BY DEF ThresholdsFor, Configured

(* A step of a request passes its places in order.                         *)
LEMMA StepProgress ==
    ASSUME TypeOK, OneTurn, ProgressOK, NEW r \in Requests, Begin(r) \/ Step(r)
    PROVE  ProgressOK'
<1> USE DEF TypeOK, ProgressOK, Early
<1>1. CASE Begin(r)
  BY <1>1 DEF Begin
<1>2. CASE ReadRecent(r) \/ ReadFails(r)
  BY <1>2 DEF ReadRecent, ReadFails
<1>3. CASE ReadWindow(r)
  BY <1>3 DEF ReadWindow
<1>4. CASE Calibrate(r) \/ CalibrateFails(r)
  BY <1>4 DEF Calibrate, CalibrateFails
<1>5. CASE Judge(r)
  BY <1>5 DEF Judge
<1>6. CASE Restore(r)
  <2>1. AfterJudging(r) \in {"error", "alert", "record", "ok"}
    BY AfterJudgingCases, ToRecordCases
  <2> QED
    BY <1>6, <2>1 DEF Restore
<1>7. CASE Alert(r)
  BY <1>7, ToRecordCases DEF Alert
<1>8. CASE Record(r) \/ RecordFails(r)
  BY <1>8 DEF Record, RecordFails
<1> QED
  BY <1>1, <1>2, <1>3, <1>4, <1>5, <1>6, <1>7, <1>8 DEF Step

(* The thresholds are replaced and restored within one turn.               *)
LEMMA StepMonitor ==
    ASSUME TypeOK, TurnInv, NEW r \in Requests, Begin(r) \/ Step(r)
    PROVE  MonitorOK'
<1> USE DEF TypeOK, TurnInv
<1>1. \A q \in Requests \ {r} : ~Overriding(q) /\ ~Overriding(q)'
  BY StepTurn DEF Overriding, MidTurn
<1>2. \/ Overriding(r) /\ thresholds = ThresholdsFor(r) /\ saved = <<Configured>>
      \/ ~Overriding(r) /\ thresholds = Configured /\ saved = << >>
  BY <1>1 DEF MonitorOK
<1>3. SUFFICES
        \/ Overriding(r)' /\ thresholds' = ThresholdsFor(r)' /\ saved' = <<Configured>>
        \/ ~Overriding(r)' /\ thresholds' = Configured /\ saved' = << >>
  BY <1>1 DEF MonitorOK, Configured
<1>4. CASE Begin(r)
  BY <1>2, <1>4 DEF Begin, Overriding, monitorVars, ProgressOK, Early, Configured
<1>5. CASE ReadRecent(r) \/ ReadFails(r)
  BY <1>2, <1>5 DEF ReadRecent, ReadFails, Overriding, monitorVars, ProgressOK, Early
<1>6. CASE ReadWindow(r)
  BY <1>2, <1>6 DEF ReadWindow, Overriding, monitorVars
<1>7. CASE Calibrate(r)
  <2>1. ~Overriding(r) /\ thresholds = Configured /\ saved = << >>
    BY <1>2, <1>7 DEF Calibrate, Overriding
  <2>2. pc'[r] = "judge" /\ source'[r] = source[r] /\ baseline'[r] = baseline[r]
    BY <1>7 DEF Calibrate
  <2>3. CASE Suffices(baseline[r]) /\ source[r] = "dynamic"
    <3>1. saved' = <<Configured>>
      BY <1>7, <2>1, <2>3 DEF Calibrate
    <3>2. thresholds' = ThresholdsFor(r)
      BY <1>7, <2>1, <2>3 DEF Calibrate, ThresholdsFor, Configured
    <3> QED
      BY <2>2, <2>3, <3>1, <3>2, SameDue DEF Overriding
  <2>4. CASE ~Suffices(baseline[r])
    BY <1>7, <2>1, <2>2, <2>4 DEF Calibrate, Overriding, monitorVars
  <2>5. source[r] = "dynamic"
    BY <1>7 DEF Calibrate, ProgressOK
  <2> QED
    BY <2>3, <2>4, <2>5
<1>8. CASE CalibrateFails(r)
  BY <1>2, <1>8 DEF CalibrateFails, Overriding, monitorVars
<1>9. CASE Judge(r)
  <2>1. /\ pc[r] = "judge" /\ pc'[r] = "restore" /\ source'[r] = source[r]
        /\ baseline'[r] = baseline[r] /\ thresholds' = thresholds /\ saved' = saved
    BY <1>9 DEF Judge, monitorVars
  <2> QED
    BY <1>2, <2>1, SameDue DEF Overriding
<1>10. CASE Restore(r)
  <2>1. AfterJudging(r) \notin {"judge", "restore"}
    BY AfterJudgingCases, ToRecordCases
  <2>2. ~Overriding(r)'
    BY <1>10, <2>1 DEF Restore, Overriding
  <2>3. CASE Overriding(r)
    <3>1. source[r] = "dynamic"
      BY <2>3 DEF Overriding
    <3>2. saved = <<Configured>>
      BY <1>2, <2>3
    <3>3. saved # << >> /\ saved[1] = Configured
      BY <3>2
    <3>4. thresholds' = saved[1] /\ saved' = << >>
      BY <1>10, <3>1, <3>3 DEF Restore
    <3> QED
      BY <2>2, <3>3, <3>4
  <2>4. CASE ~Overriding(r)
    BY <1>2, <1>10, <2>2, <2>4 DEF Restore, monitorVars
  <2> QED
    BY <2>3, <2>4
<1>11. CASE Alert(r)
  BY <1>2, <1>11, ToRecordCases DEF Alert, Overriding, monitorVars
<1>12. CASE Record(r) \/ RecordFails(r)
  BY <1>2, <1>12 DEF Record, RecordFails, Overriding, monitorVars
<1> QED
  BY <1>4, <1>5, <1>6, <1>7, <1>8, <1>9, <1>10, <1>11, <1>12 DEF Step

(* A verdict is reached under the thresholds that are due.                 *)
LEMMA StepOwn ==
    ASSUME TypeOK, TurnInv, NEW r \in Requests, Begin(r) \/ Step(r)
    PROVE  OwnThresholds'
<1> USE DEF TypeOK, TurnInv
<1> SUFFICES ASSUME NEW q \in Requests, verdict'[q] \in {"drifted", "stable"}
             PROVE  judgedBy'[q] = ThresholdsFor(q)'
  BY DEF OwnThresholds
<1>1. CASE q = r /\ Judge(r)
  <2>1. /\ pc[r] = "judge" /\ source'[r] = source[r] /\ baseline'[r] = baseline[r]
        /\ judgedBy'[r] = thresholds
    BY <1>1 DEF Judge
  <2>2. CASE Overriding(r)
    BY <1>1, <2>1, <2>2, SameDue DEF MonitorOK
  <2>3. CASE ~Overriding(r)
    <3>1. \A p \in Requests : ~Overriding(p)
      BY <2>1, <2>3 DEF Overriding, OneTurn, MidTurn
    <3>2. thresholds = Configured
      BY <3>1 DEF MonitorOK
    <3>3. ThresholdsFor(r) = Configured
      BY <2>1, <2>3, DueIsConfigured DEF Overriding
    <3> QED
      BY <1>1, <2>1, <3>2, <3>3, SameDue
  <2> QED
    BY <2>2, <2>3
<1>2. CASE ~(q = r /\ Judge(r))
  <2>1. verdict'[q] = verdict[q] /\ judgedBy'[q] = judgedBy[q]
    BY <1>2 DEF Begin, Step, ReadRecent, ReadWindow, ReadFails, Calibrate,
         CalibrateFails, Judge, Restore, Alert, Record, RecordFails
  <2>2. pc[q] \notin Early
    BY <2>1 DEF ProgressOK
  <2>3. source'[q] = source[q] /\ baseline'[q] = baseline[q]
    BY <2>2 DEF Early, Begin, Step, ReadRecent, ReadWindow, ReadFails, Calibrate,
         CalibrateFails, Judge, Restore, Alert, Record, RecordFails
  <2> QED
    BY <2>1, <2>3, SameDue DEF OwnThresholds
<1> QED
  BY <1>1, <1>2

(* Every step keeps what is known of the thresholds.                       *)
LEMMA NextTurn ==
    ASSUME TypeOK, TurnInv, [Next]_vars
    PROVE  TurnInv'
<1>1. CASE \E r \in Requests : Begin(r) \/ Step(r)
  BY <1>1, StepTurn, StepProgress, StepMonitor, StepOwn DEF TurnInv
<1>2. CASE Crash
  <2>1. /\ \A r \in Requests : pc'[r] \notin MidTurn
        /\ \A r \in Requests : pc'[r] \in Early => pc'[r] = pc[r]
        /\ \A r \in Requests : pc'[r] \notin {"calibrate", "judge", "restore"}
    BY <1>2 DEF Crash, TypeOK, MidTurn, Awaiting, Early, Finished
  <2>2. UNCHANGED <<source, baseline, verdict, judgedBy>> /\ thresholds' = Configured
        /\ saved' = << >>
    BY <1>2 DEF Crash
  <2>3. OneTurn'
    BY <2>1 DEF OneTurn
  <2>4. MonitorOK'
    BY <2>1, <2>2 DEF MonitorOK, Overriding, MidTurn, Configured
  <2>5. ProgressOK'
    BY <2>1, <2>2 DEF ProgressOK, TurnInv
  <2>6. OwnThresholds'
    BY <2>2, SameDue DEF OwnThresholds, TurnInv
  <2> QED
    BY <2>3, <2>4, <2>5, <2>6 DEF TurnInv
<1>3. CASE Ingest \/ Slide \/ UNCHANGED vars
  <2>1. UNCHANGED <<pc, source, baseline, verdict, judgedBy, thresholds, saved>>
    BY <1>3 DEF Ingest, Slide, vars, requestVars, monitorVars
  <2>2. OneTurn' /\ ProgressOK'
    BY <2>1 DEF OneTurn, ProgressOK, TurnInv
  <2>3. MonitorOK'
    BY <2>1, SameDue DEF MonitorOK, Overriding, TurnInv, Configured
  <2>4. OwnThresholds'
    BY <2>1, SameDue DEF OwnThresholds, TurnInv
  <2> QED
    BY <2>2, <2>3, <2>4 DEF TurnInv
<1> QED
  BY <1>1, <1>2, <1>3 DEF Next
-----------------------------------------------------------------------------
(* Alerts and rows.                                                        *)

(* Nothing is alerted or recorded in the initial state.                    *)
LEMMA InitRecord == Init => RecordInv
<1> SUFFICES ASSUME Init PROVE RecordInv
  OBVIOUS
<1> USE DEF Init
<1>1. AlertOK
  BY DEF AlertOK
<1>2. \A r \in Requests : RowsOf(r) = {}
  BY DEF RowsOf
<1>3. RowsOK
  BY <1>2 DEF RowsOK
<1>4. RowsFollowAnswer
  <2> SUFFICES ASSUME NEW r \in Requests
               PROVE  \E n \in 0..Len(current[r]) :
                         /\ RowsOf(r) = {RowFor(r, i) : i \in 1..n}
                         /\ pc[r] = "ok" => n = Len(current[r])
                         /\ verdict[r] \in {"none", "raised"} => n = 0
    BY DEF RowsFollowAnswer
  <2>1. 0 \in 0..Len(current[r]) /\ {RowFor(r, i) : i \in 1..0} = {}
    OBVIOUS
  <2> QED
    BY <1>2, <2>1
<1> QED
  BY <1>1, <1>3, <1>4 DEF RecordInv

(* No frame, no row.                                                       *)
LEMMA FirstRowsZero ==
    ASSUME NEW r \in Requests
    PROVE  FirstRows(r, 0) = {}
  BY DEF FirstRows

(* One row more.                                                           *)
LEMMA FirstRowsNext ==
    ASSUME NEW r \in Requests, NEW n \in Nat
    PROVE  FirstRows(r, n + 1) = FirstRows(r, n) \cup {RowFor(r, n + 1)}
<1>1. 1..(n + 1) = (1..n) \cup {n + 1}
  OBVIOUS
<1> QED
  BY <1>1 DEF FirstRows

(* The rows due depend on the frames and the verdict only.                 *)
LEMMA SameFirstRows ==
    ASSUME NEW r \in Requests, NEW n,
           current'[r] = current[r], verdict'[r] = verdict[r]
    PROVE  FirstRows(r, n)' = FirstRows(r, n)
  BY DEF FirstRows, RowFor

(* What a step of r leaves alone of another request.                       *)
LEMMA StepOthers ==
    ASSUME TypeOK, NEW r \in Requests, Begin(r) \/ Step(r), NEW q \in Requests \ {r}
    PROVE  /\ pc'[q] = pc[q] /\ current'[q] = current[q] /\ verdict'[q] = verdict[q]
           /\ alert'[q] = alert[q] /\ written'[q] = written[q]
           /\ RowsOf(q)' = RowsOf(q)
<1>1. /\ pc'[q] = pc[q] /\ current'[q] = current[q] /\ verdict'[q] = verdict[q]
      /\ alert'[q] = alert[q] /\ written'[q] = written[q]
  BY DEF TypeOK, Begin, Step, ReadRecent, ReadWindow, ReadFails, Calibrate,
     CalibrateFails, Judge, Restore, Alert, Record, RecordFails
<1>2. table' = table \/ table' = table \cup {RowFor(r, written[r] + 1)}
  BY DEF Begin, Step, ReadRecent, ReadWindow, ReadFails, Calibrate,
     CalibrateFails, Judge, Restore, Alert, Record, RecordFails
<1>3. RowFor(r, written[r] + 1).by # q
  BY DEF RowFor
<1> QED
  BY <1>1, <1>2, <1>3 DEF RowsOf

(* A step of a request keeps what is known of verdict and alert.           *)
LEMMA StepAlert ==
    ASSUME TypeOK, ProgressOK, AlertOK, NEW r \in Requests, Begin(r) \/ Step(r)
    PROVE  AlertOK'
<1> USE DEF TypeOK, AlertOK, BeforeRecord, Early, MidTurn
<1>1. CASE Begin(r)
  BY <1>1 DEF Begin
<1>2. CASE ReadRecent(r) \/ ReadWindow(r) \/ ReadFails(r)
  BY <1>2 DEF ReadRecent, ReadWindow, ReadFails
<1>3. CASE Calibrate(r) \/ CalibrateFails(r)
  BY <1>3 DEF Calibrate, CalibrateFails
<1>4. CASE Judge(r)
  BY <1>4 DEF Judge
<1>5. CASE Restore(r)
  <2>1. verdict[r] \in {"drifted", "stable", "raised"}
    BY <1>5 DEF Restore, ProgressOK, Verdicts
  <2> QED
    BY <1>5, <2>1, AfterJudgingCases, ToRecordCases DEF Restore, Verdicts
<1>6. CASE Alert(r)
  BY <1>6, ToRecordCases DEF Alert
<1>7. CASE Record(r) \/ RecordFails(r)
  BY <1>7 DEF Record, RecordFails
<1> QED
  BY <1>1, <1>2, <1>3, <1>4, <1>5, <1>6, <1>7 DEF Step

(* A step of a request keeps what is known of its rows.                    *)
LEMMA StepRows ==
    ASSUME TypeOK, ProgressOK, AlertOK, RowsOK, NEW r \in Requests,
           Begin(r) \/ Step(r)
    PROVE  RowsOK'
<1> USE DEF TypeOK
<1> DEFINE RowsOKFor(q) ==
        /\ pc[q] \in BeforeRecord => RowsOf(q) = {} /\ written[q] = 0
        /\ pc[q] = "record" =>
             RowsOf(q) = FirstRows(q, written[q]) /\ written[q] < Len(current[q])
        /\ pc[q] = "ok" => RowsOf(q) = FirstRows(q, Len(current[q]))
        /\ RowsOf(q) # {} /\ Notifier /\ verdict[q] = "drifted" => alert[q] # "none"
<1>1. \A q \in Requests \ {r} : RowsOKFor(q)'
  BY StepOthers, SameFirstRows DEF RowsOK
<1>2. current[r] \in Seq(Frames)
  BY EvaluationConstants
<1>3. CASE \/ Begin(r) \/ ReadRecent(r) \/ ReadWindow(r) \/ ReadFails(r)
           \/ Calibrate(r) \/ CalibrateFails(r) \/ Judge(r)
  <2>1. /\ pc[r] \in BeforeRecord
        /\ pc'[r] \in BeforeRecord \cup {"error"}
        /\ written'[r] = written[r] /\ table' = table
    BY <1>3 DEF Begin, ReadRecent, ReadWindow, ReadFails, Calibrate, CalibrateFails,
       Judge, BeforeRecord, Early, MidTurn
  <2>2. RowsOf(r) = {} /\ written[r] = 0 /\ RowsOf(r)' = {}
    BY <2>1 DEF RowsOK, RowsOf
  <2>3. RowsOKFor(r)'
    BY <2>1, <2>2 DEF BeforeRecord, Early, MidTurn
  <2> QED
    BY <1>1, <2>3 DEF RowsOK
<1>4. CASE Restore(r) \/ Alert(r)
  <2>1. /\ pc[r] \in BeforeRecord
        /\ pc'[r] \in {"error", "alert", ToRecord(r)}
        /\ written'[r] = written[r] /\ table' = table
        /\ current'[r] = current[r] /\ verdict'[r] = verdict[r]
    BY <1>4, AfterJudgingCases
    DEF Restore, Alert, BeforeRecord, Early, MidTurn
  <2>2. RowsOf(r) = {} /\ written[r] = 0 /\ RowsOf(r)' = {}
    BY <2>1 DEF RowsOK, RowsOf
  <2>3. FirstRows(r, 0)' = {}
    BY <2>1, FirstRowsZero, SameFirstRows
  <2>4. pc'[r] = "record" => Len(current[r]) > 0
    BY <1>2, <2>1, ToRecordCases
  <2>5. pc'[r] = "ok" => Len(current[r]) = 0
    BY <1>2, <2>1, ToRecordCases
  <2>6. pc'[r] \in {"error", "alert", "record", "ok"}
    BY <2>1, ToRecordCases
  <2>7. RowsOKFor(r)'
    BY <2>1, <2>2, <2>3, <2>4, <2>5, <2>6 DEF BeforeRecord, Early, MidTurn
  <2> QED
    BY <1>1, <2>7 DEF RowsOK
<1>5. CASE Record(r) \/ RecordFails(r)
  <2>1. /\ pc[r] = "record" /\ current'[r] = current[r] /\ verdict'[r] = verdict[r]
        /\ alert'[r] = alert[r]
    BY <1>5 DEF Record, RecordFails
  <2>2. RowsOf(r) = FirstRows(r, written[r]) /\ written[r] < Len(current[r])
    BY <2>1 DEF RowsOK
  <2>3. Notifier /\ verdict[r] = "drifted" => alert[r] # "none"
    BY <2>1 DEF AlertOK
  <2>4. CASE Record(r)
    <3>1. RowFor(r, written[r] + 1).by = r
      BY DEF RowFor
    <3>2. RowsOf(r)' = RowsOf(r) \cup {RowFor(r, written[r] + 1)}
      BY <2>4, <3>1 DEF Record, RowsOf
    <3>3. RowsOf(r)' = FirstRows(r, written[r] + 1)
      BY <2>2, <3>2, FirstRowsNext
    <3>4. written'[r] = written[r] + 1
      BY <2>4 DEF Record
    <3>5. \/ pc'[r] = "record" /\ written[r] + 1 < Len(current[r])
          \/ pc'[r] = "ok" /\ written[r] + 1 = Len(current[r])
      BY <1>2, <2>2, <2>4 DEF Record
    <3>6. RowsOf(r)' = FirstRows(r, written[r])'
      BY <2>1, <3>3, <3>4 DEF FirstRows, RowFor
    <3>7. pc'[r] = "ok" => written'[r] = Len(current'[r])
      BY <2>1, <3>4, <3>5
    <3>8. pc'[r] = "ok" => RowsOf(r)' = FirstRows(r, Len(current[r]))'
      BY <3>6, <3>7 DEF FirstRows
    <3>9. RowsOKFor(r)'
      BY <2>1, <2>3, <3>4, <3>5, <3>6, <3>8 DEF BeforeRecord, Early, MidTurn
    <3> QED
      BY <1>1, <3>9 DEF RowsOK
  <2>5. CASE RecordFails(r)
    <3>1. pc'[r] = "error"
      BY <2>5 DEF RecordFails
    <3>2. RowsOKFor(r)'
      BY <2>1, <2>3, <3>1 DEF BeforeRecord, Early, MidTurn
    <3> QED
      BY <1>1, <3>2 DEF RowsOK
  <2> QED
    BY <1>5, <2>4, <2>5
<1> QED
  BY <1>3, <1>4, <1>5 DEF Step

(* What a request may have left in the table.                              *)
Answer(r, n) ==
    /\ RowsOf(r) = FirstRows(r, n)
    /\ pc[r] = "ok" => n = Len(current[r])
    /\ verdict[r] \in {"none", "raised"} => n = 0

(* RowsFollowAnswer in terms of Answer.                                    *)
LEMMA AnswerDef ==
    RowsFollowAnswer <=> \A r \in Requests : \E n \in 0..Len(current[r]) : Answer(r, n)
  BY DEF RowsFollowAnswer, Answer, FirstRows

(* A step of a request leaves a prefix in the table.                       *)
LEMMA StepAnswer ==
    ASSUME TypeOK, RecordInv, NEW r \in Requests, Begin(r) \/ Step(r),
           TypeOK', AlertOK', RowsOK'
    PROVE  RowsFollowAnswer'
<1> SUFFICES ASSUME NEW q \in Requests
             PROVE  \E n \in 0..Len(current'[q]) : Answer(q, n)'
  BY DEF RowsFollowAnswer, Answer, FirstRows
<1>1. PICK m \in 0..Len(current[q]) : Answer(q, m)
  BY AnswerDef DEF RecordInv
<1>2. Len(current'[q]) \in Nat
  BY EvaluationConstants DEF TypeOK
<1>3. CASE q # r
  <2>1. Answer(q, m)'
    BY <1>1, <1>3, StepOthers, SameFirstRows DEF Answer
  <2> QED
    BY <1>3, <2>1, StepOthers
<1>4. CASE q = r /\ pc'[r] \in BeforeRecord
  <2>1. RowsOf(r)' = {} /\ pc'[r] # "ok"
    BY <1>4 DEF RowsOK, BeforeRecord, Early, MidTurn
  <2>2. FirstRows(r, 0)' = {}
    BY DEF FirstRows
  <2>3. Answer(r, 0)'
    BY <2>1, <2>2 DEF Answer
  <2> QED
    BY <1>2, <1>4, <2>3
<1>5. CASE q = r /\ pc'[r] = "record"
  <2>1. RowsOf(r)' = FirstRows(r, written[r])' /\ written'[r] < Len(current'[r])
    BY <1>5 DEF RowsOK
  <2>2. verdict'[r] \notin {"none", "raised"}
    BY <1>5 DEF AlertOK
  <2>3. Answer(r, written[r])'
    BY <1>5, <2>1, <2>2 DEF Answer
  <2>4. written'[r] \in 0..Len(current'[r])
    BY <1>2, <1>5, <2>1 DEF TypeOK
  <2> QED
    BY <1>5, <2>3, <2>4
<1>6. CASE q = r /\ pc'[r] = "ok"
  <2>1. RowsOf(r)' = FirstRows(r, Len(current[r]))'
    BY <1>6 DEF RowsOK
  <2>2. verdict'[r] \notin {"none", "raised"}
    BY <1>6 DEF AlertOK
  <2>3. Answer(r, Len(current[r]))'
    BY <1>6, <2>1, <2>2 DEF Answer
  <2> QED
    BY <1>2, <1>6, <2>3
<1>7. CASE q = r /\ pc'[r] = "error"
  <2>1. current'[r] = current[r] /\ verdict'[r] = verdict[r]
    BY <1>7 DEF TypeOK, Begin, Step, ReadRecent, ReadWindow, ReadFails, Calibrate,
       CalibrateFails, Judge, Restore, Alert, Record, RecordFails
  <2>2. CASE RowsOf(r)' = RowsOf(r)
    <3>1. Answer(r, m)'
      BY <1>1, <1>7, <2>1, <2>2, SameFirstRows DEF Answer
    <3> QED
      BY <1>7, <2>1, <3>1
  <2>3. CASE RecordFails(r) /\ table' = table \cup {RowFor(r, written[r] + 1)}
    <3>1. /\ RowsOf(r) = FirstRows(r, written[r]) /\ written[r] < Len(current[r])
          /\ verdict[r] \notin {"none", "raised"}
      BY <2>3 DEF RecordFails, RecordInv, RowsOK, AlertOK
    <3>2. RowFor(r, written[r] + 1).by = r
      BY DEF RowFor
    <3>3. RowsOf(r)' = RowsOf(r) \cup {RowFor(r, written[r] + 1)}
      BY <2>3, <3>2 DEF RowsOf
    <3>4. RowsOf(r)' = FirstRows(r, written[r] + 1)
      BY <3>1, <3>3, FirstRowsNext DEF TypeOK
    <3>5. PICK n \in 0..Len(current[r]) : n = written[r] + 1
      BY <1>2, <2>1, <3>1, <1>7 DEF TypeOK
    <3>6. Answer(r, n)'
      BY <1>7, <2>1, <3>1, <3>4, <3>5, SameFirstRows DEF Answer
    <3> QED
      BY <1>7, <2>1, <3>6
  <2>4. \/ RowsOf(r)' = RowsOf(r)
        \/ RecordFails(r) /\ table' = table \cup {RowFor(r, written[r] + 1)}
    <3>1. CASE table' = table
      BY <3>1 DEF RowsOf
    <3>2. CASE table' # table
      BY <1>7, <3>2 DEF TypeOK, Begin, Step, ReadRecent, ReadWindow, ReadFails,
         Calibrate, CalibrateFails, Judge, Restore, Alert, Record, RecordFails
    <3> QED
      BY <3>1, <3>2
  <2> QED
    BY <2>2, <2>3, <2>4
<1>8. pc'[r] \in BeforeRecord \cup {"record", "ok", "error"}
  BY AfterJudgingCases, ToRecordCases
  DEF TypeOK, Begin, Step, ReadRecent, ReadWindow, ReadFails, Calibrate,
      CalibrateFails, Judge, Restore, Alert, Record, RecordFails, BeforeRecord,
      Early, MidTurn
<1> QED
  BY <1>3, <1>4, <1>5, <1>6, <1>7, <1>8

(* Every step keeps what is known of alerts and rows.                      *)
LEMMA NextRecord ==
    ASSUME TypeOK, ProgressOK, RecordInv, TypeOK', [Next]_vars
    PROVE  RecordInv'
<1>1. CASE \E r \in Requests : Begin(r) \/ Step(r)
  BY <1>1, StepAlert, StepRows, StepAnswer DEF RecordInv
<1>2. CASE ~\E r \in Requests : Begin(r) \/ Step(r)
  <2>1. UNCHANGED <<current, verdict, alert, written>>
    BY <1>2 DEF Next, Crash, Ingest, Slide, vars, requestVars
  <2>2. \A r \in Requests : pc'[r] = "lost" \/ pc'[r] = pc[r]
    BY <1>2 DEF Next, Crash, Ingest, Slide, vars, requestVars, TypeOK
  <2>3. ASSUME NEW r \in Requests PROVE RowsOf(r)' = RowsOf(r)
    <3>1. \/ table' = table
          \/ \E f \in Frames :
                table' = table \cup {[frame |-> f, by |-> Ingestion, drifted |-> FALSE]}
      BY <1>2 DEF Next, Crash, Ingest, Slide, vars, requestVars
    <3> QED
      BY <3>1, EvaluationConstants DEF RowsOf
  <2>4. AlertOK'
    BY <2>1, <2>2 DEF AlertOK, RecordInv, BeforeRecord, Early, MidTurn
  <2>5. \A r \in Requests : \A n : FirstRows(r, n)' = FirstRows(r, n)
    BY <2>1, SameFirstRows
  <2>6. RowsOK'
    <3> SUFFICES ASSUME NEW r \in Requests
                 PROVE  (/\ pc[r] \in BeforeRecord => RowsOf(r) = {} /\ written[r] = 0
                         /\ pc[r] = "record" =>
                              /\ RowsOf(r) = FirstRows(r, written[r])
                              /\ written[r] < Len(current[r])
                         /\ pc[r] = "ok" => RowsOf(r) = FirstRows(r, Len(current[r]))
                         /\ RowsOf(r) # {} /\ Notifier /\ verdict[r] = "drifted"
                              => alert[r] # "none")'
      BY DEF RowsOK
    <3> QED
      BY <2>1, <2>2, <2>3, <2>5
      DEF RowsOK, RecordInv, BeforeRecord, Early, MidTurn
  <2>7. RowsFollowAnswer'
    <3> SUFFICES ASSUME NEW r \in Requests
                 PROVE  \E n \in 0..Len(current'[r]) : Answer(r, n)'
      BY DEF RowsFollowAnswer, Answer, FirstRows
    <3>1. PICK n \in 0..Len(current[r]) : Answer(r, n)
      BY AnswerDef DEF RecordInv
    <3>2. Answer(r, n)'
      BY <2>1, <2>2, <2>3, <2>5, <3>1 DEF Answer
    <3> QED
      BY <2>1, <3>1, <3>2
  <2> QED
    BY <2>4, <2>6, <2>7 DEF RecordInv
<1> QED
  BY <1>1, <1>2
-----------------------------------------------------------------------------
(* The invariant is inductive.                                             *)
LEMMA Invariance == Spec => []IInv
<1>1. Init => IInv
  BY InitType, InitTurn, InitRecord DEF IInv
<1>2. IInv /\ [Next]_vars => IInv'
  <2> SUFFICES ASSUME IInv, [Next]_vars PROVE IInv'
    OBVIOUS
  <2>1. TypeOK'
    BY NextType DEF IInv, RecordInv
  <2> QED
    BY <2>1, NextTurn, NextRecord DEF IInv, TurnInv
<1> QED
  BY <1>1, <1>2, PTL DEF Spec

(* The variables keep their types; a row is only ever written for a frame  *)
(* the request brought (record_evaluation).                                *)
THEOREM TypeCorrect == Spec => []TypeOK
<1>1. IInv => TypeOK
  BY DEF IInv
<1> QED
  BY <1>1, Invariance, PTL

(* However requests interleave, raise and die, evaluate_frames judges each *)
(* by the thresholds of its own baseline or by the configured ones.        *)
THEOREM OwnThresholdsHold == Spec => []OwnThresholds
<1>1. IInv => OwnThresholds
  BY DEF IInv, TurnInv
<1> QED
  BY <1>1, Invariance, PTL

(* The loop of record_evaluation leaves a prefix of the frames, and all of *)
(* them when the request is answered.                                      *)
THEOREM RowsFollowAnswerHolds == Spec => []RowsFollowAnswer
<1>1. IInv => RowsFollowAnswer
  BY DEF IInv, RecordInv
<1> QED
  BY <1>1, Invariance, PTL

(* notify_if_drifted comes before the first row and before the answer.     *)
THEOREM AlertedFirstHolds == Spec => []AlertedFirst
<1>1. IInv => AlertedFirst
  BY DEF IInv, RecordInv, AlertOK, RowsOK, AlertedFirst
<1> QED
  BY <1>1, Invariance, PTL
=============================================================================
