------------------------- MODULE MCDriftEvaluation --------------------------
(***************************************************************************)
(* DriftEvaluation for TLC: a request brings no frame, or two in the       *)
(* order opposite to their timestamps.                                     *)
(***************************************************************************)
EXTENDS DriftEvaluation

PayloadsForTLC == {<< >>, <<1, 0>>}
=============================================================================
