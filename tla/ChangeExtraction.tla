-------------------------- MODULE ChangeExtraction --------------------------
(***************************************************************************)
(* What the offline analysis reads out of an evaluation history: the       *)
(* changes between consecutive records (evaluator/causal), the drift       *)
(* events of a metric's series (evaluator/temporal), and how a             *)
(* counterfactual intervention takes a change back                         *)
(* (evaluator/counterfactual/simulator.py).                                *)
(*                                                                         *)
(* A record has a time, the run it evaluates, the metric's value and a     *)
(* deployment: the fields whose differences are changes.  config stands    *)
(* for the metadata that is left when system_info and pipeline_name are    *)
(* taken out.  info is ABSENT without system_info, EMPTY for {}, NONE for  *)
(* {"model": None}, else the model.                                        *)
(***************************************************************************)
EXTENDS Integers, Sequences, FiniteSets

CONSTANTS
    Window,         \* window_size
    Threshold       \* threshold, in units of a metric value

ASSUME ExtractionConstants ==
    /\ Window \in Nat \ {0}
    /\ Threshold \in Nat

Fields == {"version", "pipeline", "info", "config"}

ABSENT == "absent"
EMPTY == "empty"
NONE == "none"

-----------------------------------------------------------------------------
(* How many of the places come up to i when they are sorted by key, equal  *)
(* keys in the order of the places.                                        *)
Rank(places, key, i) ==
    Cardinality({j \in places : key[j] < key[i] \/ (key[j] = key[i] /\ j <= i)})

Arranged(places, key) ==
    [k \in 1..Cardinality(places) |-> CHOOSE i \in places : Rank(places, key, i) = k]

(* s sorted by the keys of its elements, equal keys in the order of s.     *)
StableSort(s, key) ==
    LET order == Arranged(DOMAIN s, key) IN [k \in DOMAIN s |-> s[order[k]]]

(* The elements of s at some places, in the order of s.                    *)
Kept(s, places) ==
    LET order == Arranged(places, [i \in places |-> i])
    IN [k \in DOMAIN order |-> s[order[k]]]

(* Mutant of Chronological: newest first.                                  *)
NewestFirst(history) == StableSort(history, [i \in DOMAIN history |-> 0 - history[i].time])

(* records.sort(key=timestamp): a record may be saved after one with a     *)
(* later time.                                                             *)
Chronological(history) == StableSort(history, [i \in DOMAIN history |-> history[i].time])

SumOf(s) ==
    LET sum[i \in 0..Len(s)] == IF i = 0 THEN 0 ELSE sum[i - 1] + s[i]
    IN  sum[Len(s)]

Size(x) == IF x < 0 THEN 0 - x ELSE x
-----------------------------------------------------------------------------
(* Where the k-th window after the first begins in a series of n points.   *)
WindowStart(n, k) == k * Window + 1

(* Mutant of MeanShift: reports where the window before begins.            *)
EarlyMeanShift(series, k) ==
    LET i == WindowStart(Len(series), k)
        before == SubSeq(series, i - Window, i - 1)
        after == SubSeq(series, i, i + Window - 1)
    IN [start |-> before[1].time,
        end |-> after[Window].time,
        shift |-> Size(SumOf([j \in 1..Window |-> after[j].value])
                       - SumOf([j \in 1..Window |-> before[j].value]))]

(* The event for two adjacent full windows; shift is Window times the      *)
(* magnitude.                                                              *)
MeanShift(series, k) ==
    LET i == WindowStart(Len(series), k)
        before == SubSeq(series, i - Window, i - 1)
        after == SubSeq(series, i, i + Window - 1)
    IN [start |-> after[1].time,
        end |-> after[Window].time,
        shift |-> Size(SumOf([j \in 1..Window |-> after[j].value])
                       - SumOf([j \in 1..Window |-> before[j].value]))]

(* detect_drift_from_store: the series in order of time, window by window. *)
DriftEvents(history) ==
    LET series == Chronological(history)
        pairs == [k \in 1..(Len(series) \div Window - 1) |-> MeanShift(series, k)]
    IN Kept(pairs, {k \in DOMAIN pairs : pairs[k].shift > Threshold * Window})
-----------------------------------------------------------------------------
(* system_info is a dict on both sides: only then are its fields compared. *)
BothDicts(p, c) == p.info # ABSENT /\ c.info # ABSENT
ModelOf(r) == IF r.info = EMPTY THEN NONE ELSE r.info

(* The first branch of _diff_signatures that names the change wins, but    *)
(* for a version change, which a change of system_info renames.            *)
ChangeType(p, c) ==
    IF p.info # c.info /\ BothDicts(p, c) THEN "model_update"
    ELSE IF p.version # c.version THEN "version_change"
    ELSE IF p.pipeline # c.pipeline THEN "model_update"
    ELSE IF p.config # c.config THEN "config_change"
    ELSE "unknown"

(* The old values a change's details keep.  Where system_info comes or     *)
(* goes as a whole, system_info_diff is {}: no old value at all.           *)
Details(p, c) ==
    [f \in {g \in Fields : p[g] # c[g]} |->
        IF f # "info" THEN p[f]
        ELSE IF BothDicts(p, c) /\ ModelOf(p) # ModelOf(c) THEN ModelOf(p)
        ELSE ABSENT]

(* ChangeEvent: change_id is made of run, time and type, not of details.   *)
Change(p, c) ==
    [id |-> <<c.run, c.time, ChangeType(p, c)>>,
     run |-> c.run,
     time |-> c.time,
     type |-> ChangeType(p, c),
     old |-> Details(p, c)]

(* extract_change_events: one change per consecutive pair that differs.    *)
Changes(history) ==
    LET records == Chronological(history)
        pairs == [i \in 1..(Len(records) - 1) |-> Change(records[i], records[i + 1])]
    IN Kept(pairs, {i \in DOMAIN pairs : DOMAIN pairs[i].old # {}})
-----------------------------------------------------------------------------
(* Mutant of Reverted: the version is left as it is.                       *)
RevertedButVersion(r, old) ==
    [f \in DOMAIN r |->
        IF f = "version" \/ f \notin DOMAIN old THEN r[f] ELSE old[f]]

(* _revert_change.  Without an old value system_info stays, or becomes {}. *)
Reverted(r, old) ==
    [f \in DOMAIN r |->
        IF f \notin DOMAIN old THEN r[f]
        ELSE IF f = "info" /\ old[f] = ABSENT
             THEN IF r[f] = ABSENT THEN EMPTY ELSE r[f]
             ELSE old[f]]

(* Mutant of Intervened: later records are reverted as well.               *)
IntervenedOnward(store, id) ==
    LET records == Chronological(store)
        changes == Changes(store)
        found == {i \in DOMAIN changes : changes[i].id = id}
    IN IF found = {} THEN store
       ELSE LET change == changes[CHOOSE i \in found : \A j \in found : i <= j]
            IN [k \in DOMAIN records |->
                   IF records[k].time >= change.time
                   THEN Reverted(records[k], change.old) ELSE records[k]]

(* apply_intervention with action "remove": the change is looked up in the *)
(* store as it is now, and taken back on the first record of its run.  A   *)
(* change_id that is not there leaves the clone as it is.                  *)
Intervened(store, id) ==
    LET records == Chronological(store)
        changes == Changes(store)
        found == {i \in DOMAIN changes : changes[i].id = id}
    IN IF found = {} THEN store
       ELSE LET change == changes[CHOOSE i \in found : \A j \in found : i <= j]
                ofRun == {k \in DOMAIN records : records[k].run = change.run}
                first == CHOOSE k \in ofRun : \A j \in ofRun : k <= j
            IN [records EXCEPT ![first] = Reverted(@, change.old)]

(* Some change of the store has this id.                                   *)
IsChange(store, id) ==
    LET changes == Changes(store) IN \E i \in DOMAIN changes : changes[i].id = id
=============================================================================
