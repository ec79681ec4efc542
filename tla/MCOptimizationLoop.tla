------------------------- MODULE MCOptimizationLoop -------------------------
(***************************************************************************)
(* OptimizationLoop for TLC; the changes are interchangeable.              *)
(***************************************************************************)
EXTENDS OptimizationLoop, TLC

ChangeSymmetry == Permutations(Changes)
=============================================================================
