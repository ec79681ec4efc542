---------------------------- MODULE MCLatentStream ----------------------------
(***************************************************************************)
(* The streaming buffer and the drift engine for TLC.  They share no       *)
(* state: a behaviour runs one of them.                                    *)
(***************************************************************************)
EXTENDS StreamingBuffer, LatentDrift

VARIABLE program

vars == <<program, bufferVars, latentVars>>

Init ==
    /\ program \in {"buffer", "engine"}
    /\ BufferInit
    /\ LatentInit
    /\ program = "buffer" => \A ty \in NodeTypes : priors[ty] = 0
    /\ program = "engine" => strategy = "fifo" /\ capacity = 1

Buffering == program = "buffer" /\ BufferNext /\ UNCHANGED <<program, latentVars>>
Detecting == program = "engine" /\ LatentNext /\ UNCHANGED <<program, bufferVars>>

Next == Buffering \/ Detecting

Spec == Init /\ [][Next]_vars
=============================================================================
