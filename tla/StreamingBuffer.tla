---------------------------- MODULE StreamingBuffer ----------------------------
(***************************************************************************)
(* StreamingDriftBuffer (evaluator/latent_drift/streaming.py) and its two  *)
(* users: the production gateway's /v1/stream endpoints and the command    *)
(* "sentrix stream".                                                       *)
(*                                                                         *)
(* Of a vector its width is kept, and its number among those buffered on   *)
(* its track since the track was last cleared.                             *)
(***************************************************************************)
EXTENDS Integers, Sequences

CONSTANTS
    Tracks,         \* "retrieval" and "generation"
    Capacities,     \* values of capacity
    Widths,         \* dimensions of vectors
    MinSamples,     \* of is_track_ready
    MaxArrivals     \* bound: vectors buffered on a track between two clears

ASSUME BufferConstants ==
    /\ Tracks = {"retrieval", "generation"}
    /\ Capacities \subseteq Nat \ {0}
    /\ MinSamples \in Nat \ {0} /\ MaxArrivals \in Nat

VARIABLES
    strategy,       \* sample_strategy
    capacity,
    buffers,        \* _buffers
    arrived         \* by track, every vector buffered since the last clear

bufferVars == <<strategy, capacity, buffers, arrived>>

Vectors == [number : Nat \ {0}, width : Widths]

PerTrackCapacity == capacity \div 2

BufferInit ==
    /\ strategy \in {"fifo", "reservoir"}
    /\ capacity \in Capacities
    /\ buffers = [t \in Tracks |-> << >>]
    /\ arrived = [t \in Tracks |-> << >>]
-----------------------------------------------------------------------------
(* Mutant of Overflow: drops the newest element.                           *)
OverflowNewest(buf, vec) ==
    IF strategy = "fifo"
    THEN {Append(SubSeq(buf, 1, Len(buf) - 1), vec)}
    ELSE {[buf EXCEPT ![i] = vec] : i \in 1..Len(buf)}

(* A full buffer takes in another vector.                                  *)
Overflow(buf, vec) ==
    IF strategy = "fifo"
    THEN {Append(Tail(buf), vec)}
    ELSE {[buf EXCEPT ![i] = vec] : i \in 1..Len(buf)}

(* ingest.  A track of capacity 0 takes none: pop and randint raise.       *)
Ingest(t, w) ==
    /\ PerTrackCapacity > 0
    /\ Len(arrived[t]) < MaxArrivals
    /\ LET vec == [number |-> Len(arrived[t]) + 1, width |-> w] IN
        /\ arrived' = [arrived EXCEPT ![t] = Append(@, vec)]
        /\ IF Len(buffers[t]) < PerTrackCapacity
           THEN buffers' = [buffers EXCEPT ![t] = Append(@, vec)]
           ELSE \E buf \in Overflow(buffers[t], vec) : buffers' = [buffers EXCEPT ![t] = buf]
    /\ UNCHANGED <<strategy, capacity>>

(* Mutant of ClearTrack: clears the other track.                           *)
ClearOther(t) ==
    /\ \E other \in Tracks \ {t} : buffers' = [buffers EXCEPT ![other] = << >>]
    /\ arrived' = [arrived EXCEPT ![t] = << >>]
    /\ UNCHANGED <<strategy, capacity>>

ClearTrack(t) ==
    /\ buffers' = [buffers EXCEPT ![t] = << >>]
    /\ arrived' = [arrived EXCEPT ![t] = << >>]
    /\ UNCHANGED <<strategy, capacity>>

Clear ==
    /\ buffers' = [t \in Tracks |-> << >>]
    /\ arrived' = [t \in Tracks |-> << >>]
    /\ UNCHANGED <<strategy, capacity>>

BufferNext ==
    \/ \E t \in Tracks, w \in Widths : Ingest(t, w)
    \/ \E t \in Tracks : ClearTrack(t)
    \/ Clear

BufferSpec == BufferInit /\ [][BufferNext]_bufferVars
-----------------------------------------------------------------------------
IsTrackReady(t) == Len(buffers[t]) >= MinSamples

(* flush_batch, which every flush begins with: vstack raises on vectors of *)
(* two widths, whichever track they are on.                                *)
FlushFails ==
    \E t, u \in Tracks : \E i \in DOMAIN buffers[t], j \in DOMAIN buffers[u] :
        buffers[t][i].width # buffers[u][j].width

(* The track /v1/stream/flush examines, the larger one; nothing is removed *)
(* from it.                                                                *)
Examined ==
    IF Len(buffers["generation"]) > Len(buffers["retrieval"])
    THEN "generation" ELSE "retrieval"
-----------------------------------------------------------------------------
BufferTypeOK ==
    /\ strategy \in {"fifo", "reservoir"}
    /\ capacity \in Capacities
    /\ buffers \in [Tracks -> Seq(Vectors)]
    /\ arrived \in [Tracks -> Seq(Vectors)]

(* Where the vectors a buffer may hold begin, in those that arrived.       *)
First(all) ==
    IF strategy = "fifo" /\ Len(all) > PerTrackCapacity
    THEN Len(all) - PerTrackCapacity + 1 ELSE 1
Oldest(t) == First(arrived[t])

(* As many vectors as arrived, or the capacity; the newest one is among    *)
(* them; each is one that arrived, and none is there twice.                *)
IsSample(buf, all) ==
    /\ Len(buf) = IF Len(all) < PerTrackCapacity THEN Len(all) ELSE PerTrackCapacity
    /\ all # << >> => \E i \in DOMAIN buf : buf[i] = all[Len(all)]
    /\ \A i \in DOMAIN buf : buf[i].number \in First(all)..Len(all)
                             /\ buf[i] = all[buf[i].number]
    /\ \A i, j \in DOMAIN buf : i # j => buf[i].number # buf[j].number
    /\ strategy = "fifo" =>
        \A i \in DOMAIN buf : buf[i].number = First(all) + i - 1

(* A buffer holds as many vectors as arrived, or its capacity; the newest  *)
(* one is among them; under "fifo" they are the latest ones in the order   *)
(* of arrival, under "reservoir" different ones in any order.              *)
BufferIsSample == \A t \in Tracks : IsSample(buffers[t], arrived[t])

(* A flush fails only when the vectors that may still be buffered disagree *)
(* on the width: under "fifo" the latest ones of the tracks, so that       *)
(* enough vectors of one width repair it; under "reservoir" any that came  *)
(* since the last clear, so that one may stay for good.  When it succeeds  *)
(* and a track is ready, the track it examines is ready.                   *)
FlushFailsForCause ==
    /\ FlushFails =>
        \E t, u \in Tracks : \E i \in Oldest(t)..Len(arrived[t]), j \in Oldest(u)..Len(arrived[u]) :
            arrived[t][i].width # arrived[u][j].width
    /\ (\E t \in Tracks : IsTrackReady(t)) => IsTrackReady(Examined)
=============================================================================
