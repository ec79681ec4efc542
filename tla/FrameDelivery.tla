--------------------------- MODULE FrameDelivery ---------------------------
(***************************************************************************)
(* What an ingestion buffer (ingestion/queue.py, ingestion/redis_queue.py) *)
(* promises about the frames it has accepted, whatever its mechanism.      *)
(* Frames are numbered 1, 2, ... in the order in which the buffer accepts  *)
(* them; a batch written by DriftStore.batch_store_frames adds one row per *)
(* frame to the table, under a fresh uuid, so a frame written twice would  *)
(* be two rows.                                                            *)
(*                                                                         *)
(* A frame is outstanding until it is written or given up, and only an     *)
(* outstanding frame is ever written or given up.  Both buffers implement  *)
(* this specification: a frame never gets a second row, is never written   *)
(* after it was given up, and no row is made up.                           *)
(***************************************************************************)
EXTENDS Integers, Sequences, Functions

VARIABLES
    accepted,   \* number of frames accepted so far
    table,      \* rows of telemetry_evaluations, each the number of its frame
    discarded   \* frames the buffer has given up

vars == <<accepted, table, discarded>>

Outstanding == (1..accepted) \ (Range(table) \cup discarded)

Init ==
    /\ accepted = 0
    /\ table = << >>
    /\ discarded = {}

(* POST /v1/telemetry/frames answers 202: a non-empty list of new frames.  *)
Accept ==
    /\ accepted' \in Nat
    /\ accepted' > accepted
    /\ UNCHANGED <<table, discarded>>

(* One batch reaches the table: distinct outstanding frames, one row each. *)
Persist ==
    LET n == Len(table) IN
    /\ table' \in Seq(Nat)
    /\ Len(table') > n
    /\ \A i \in 1..n : table'[i] = table[i]
    /\ \A i \in (n + 1)..Len(table') : table'[i] \in Outstanding
    /\ \A i, j \in (n + 1)..Len(table') : table'[i] = table'[j] => i = j
    /\ UNCHANGED <<accepted, discarded>>

(* The buffer gives up some outstanding frames.                            *)
Discard ==
    /\ discarded \subseteq discarded'
    /\ discarded' \ discarded \subseteq Outstanding
    /\ UNCHANGED <<accepted, table>>

Next == Accept \/ Persist \/ Discard

Spec == Init /\ [][Next]_vars
-----------------------------------------------------------------------------
TypeOK ==
    /\ accepted \in Nat
    /\ table \in Seq(1..accepted)
    /\ discarded \in SUBSET (1..accepted)

(* An accepted frame has at most one row, and none once it is given up.    *)
AtMostOnce ==
    /\ \A i, j \in DOMAIN table : table[i] = table[j] => i = j
    /\ Range(table) \cap discarded = {}
=============================================================================
