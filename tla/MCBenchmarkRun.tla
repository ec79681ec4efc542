---------------------------- MODULE MCBenchmarkRun ----------------------------
(***************************************************************************)
(* BenchmarkRun for TLC: one query, which either pipeline answers once.    *)
(***************************************************************************)
EXTENDS BenchmarkRun

OneQuery == <<"q">>
=============================================================================
