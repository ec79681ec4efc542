-------------------------- MODULE MCHistoryAnalysis --------------------------
(***************************************************************************)
(* HistoryAnalysis for TLC: deployments that differ from one another in    *)
(* one field or in several, one of them without system_info.               *)
(***************************************************************************)
EXTENDS HistoryAnalysis

Deployed(v, i, c) == [version |-> v, pipeline |-> "rag", info |-> i, config |-> c]

DeploymentsWithoutInfo ==
    {Deployed("v1", "m1", "c1"), Deployed("v2", "m2", "c1"), Deployed("v1", ABSENT, "c2")}

DelaysOrNot == {2, 0 - 1}
=============================================================================
