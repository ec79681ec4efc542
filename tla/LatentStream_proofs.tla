------------------------- MODULE LatentStream_proofs -------------------------
(***************************************************************************)
(* Proofs about the two programs MCLatentStream runs, which share nothing. *)
(*                                                                         *)
(* StreamingBuffer: a buffer is a sample of what arrived, for any          *)
(* capacities, widths and strategy and any sequence of calls.              *)
(*                                                                         *)
(* LatentDrift: the fusion of drift results into priors, for any scores,   *)
(* sensitivity, graphs and sequence of results; and what an adaptive       *)
(* threshold cannot detect, for any window of any size.                    *)
(***************************************************************************)
EXTENDS StreamingBuffer, LatentDrift, WellFoundedInduction, TLAPS

-----------------------------------------------------------------------------
(* A vector's number is its place among those that arrived.                *)
Numbered(all) == \A i \in DOMAIN all : all[i].number = i

BufferInv ==
    /\ BufferTypeOK
    /\ BufferIsSample
    /\ \A t \in Tracks : Numbered(arrived[t])

LEMMA CapacityType == ASSUME BufferTypeOK PROVE PerTrackCapacity \in Nat
<1>1. capacity \in Nat
  BY BufferConstants DEF BufferTypeOK
<1> QED
  BY <1>1 DEF PerTrackCapacity

LEMMA EmptyIsSample == ASSUME BufferTypeOK PROVE IsSample(<< >>, << >>) /\ Numbered(<< >>)
BY CapacityType DEF IsSample, Numbered

(* A vector arrives at a buffer that is not full.                          *)
LEMMA AppendIsSample ==
  ASSUME BufferTypeOK,
         NEW buf \in Seq(Vectors), NEW all \in Seq(Vectors), NEW vec \in Vectors,
         IsSample(buf, all), vec.number = Len(all) + 1, Len(buf) < PerTrackCapacity
  PROVE  IsSample(Append(buf, vec), Append(all, vec))
<1> DEFINE new == Append(buf, vec)
           more == Append(all, vec)
<1>1. Len(buf) = Len(all) /\ Len(new) = Len(all) + 1 /\ Len(more) = Len(all) + 1
  BY CapacityType DEF IsSample
<1>2. First(all) = 1 /\ First(more) = 1
  BY <1>1, CapacityType DEF First
<1>3. new[Len(new)] = vec /\ more[Len(more)] = vec /\ more[vec.number] = vec
  BY <1>1
<1>4. \A i \in 1..Len(buf) : new[i] = buf[i]
                             /\ buf[i].number \in 1..Len(all) /\ buf[i] = all[buf[i].number]
  BY <1>2 DEF IsSample
<1>5. \A i \in 1..Len(all) : more[i] = all[i]
  OBVIOUS
<1>6. DOMAIN new = 1..(Len(buf) + 1) /\ DOMAIN buf = 1..Len(buf)
  OBVIOUS
<1>7. \A i \in DOMAIN new : new[i].number \in 1..Len(more) /\ new[i] = more[new[i].number]
  BY <1>1, <1>3, <1>4, <1>5, <1>6
<1>8. \A i, j \in DOMAIN new : i # j => new[i].number # new[j].number
  <2>1. \A i, j \in 1..Len(buf) : i # j => buf[i].number # buf[j].number
    BY DEF IsSample
  <2> QED
    BY <2>1, <1>1, <1>3, <1>4, <1>6
<1>9. strategy = "fifo" => \A i \in DOMAIN new : new[i].number = i
  <2>1. strategy = "fifo" => \A i \in 1..Len(buf) : buf[i].number = i
    BY <1>2 DEF IsSample
  <2> QED
    BY <2>1, <1>1, <1>3, <1>4, <1>6
<1>10. Len(new) = IF Len(more) < PerTrackCapacity THEN Len(more) ELSE PerTrackCapacity
  BY <1>1, CapacityType
<1>11. Len(new) \in DOMAIN new /\ new[Len(new)] = more[Len(more)]
  BY <1>3
<1> HIDE DEF new, more
<1>12. IsSample(new, more)
  BY <1>2, <1>6, <1>7, <1>8, <1>9, <1>10, <1>11 DEF IsSample
<1> QED
  BY <1>12 DEF new, more

(* One arrives at a full buffer under "fifo": the oldest leaves.           *)
LEMMA FifoIsSample ==
  ASSUME BufferTypeOK, strategy = "fifo",
         NEW buf \in Seq(Vectors), NEW all \in Seq(Vectors), NEW vec \in Vectors,
         IsSample(buf, all), vec.number = Len(all) + 1,
         PerTrackCapacity > 0, ~(Len(buf) < PerTrackCapacity)
  PROVE  IsSample(Append(Tail(buf), vec), Append(all, vec))
<1> DEFINE n == PerTrackCapacity
           new == Append(Tail(buf), vec)
           more == Append(all, vec)
<1>1. n \in Nat \ {0} /\ Len(buf) = n /\ Len(all) >= n /\ Len(more) = Len(all) + 1
  BY CapacityType DEF IsSample
<1>2. Len(new) = n /\ DOMAIN new = 1..n /\ DOMAIN buf = 1..n
  BY <1>1
<1>3. First(all) = Len(all) - n + 1 /\ First(more) = Len(all) - n + 2
  BY <1>1 DEF First
<1>4. new[n] = vec /\ more[Len(more)] = vec /\ more[vec.number] = vec
  BY <1>1
<1>5. \A i \in 1..(n - 1) : new[i] = buf[i + 1]
  BY <1>1
<1>6. \A i \in 1..n : buf[i].number = Len(all) - n + i /\ buf[i] = all[buf[i].number]
  <2>1. \A i \in 1..n : buf[i].number = First(all) + i - 1 /\ buf[i] = all[buf[i].number]
    BY <1>2 DEF IsSample
  <2> QED
    BY <2>1, <1>1, <1>3
<1>7. \A i \in 1..Len(all) : more[i] = all[i]
  OBVIOUS
<1>8. \A i \in 1..n : new[i].number = Len(all) - n + 1 + i
  <2> SUFFICES ASSUME NEW i \in 1..n PROVE new[i].number = Len(all) - n + 1 + i
    OBVIOUS
  <2>1. CASE i = n
    BY <2>1, <1>1, <1>4
  <2>2. CASE i # n
    BY <2>2, <1>1, <1>5, <1>6
  <2> QED
    BY <2>1, <2>2
<1>9. \A i \in 1..n : new[i] = more[new[i].number]
  <2> SUFFICES ASSUME NEW i \in 1..n PROVE new[i] = more[new[i].number]
    OBVIOUS
  <2>1. CASE i = n
    BY <2>1, <1>4
  <2>2. CASE i # n
    <3>1. new[i] = buf[i + 1] /\ buf[i + 1].number = Len(all) - n + (i + 1)
          /\ buf[i + 1] = all[buf[i + 1].number]
      BY <2>2, <1>1, <1>5, <1>6
    <3>2. Len(all) - n + (i + 1) \in 1..Len(all)
      BY <2>2, <1>1
    <3> QED
      BY <3>1, <3>2, <1>7
  <2> QED
    BY <2>1, <2>2
<1>10. n \in DOMAIN new /\ new[n] = more[Len(more)]
  BY <1>1, <1>2, <1>4
<1> HIDE DEF new, more
<1>11. \A i \in 1..n : new[i].number \in First(more)..Len(more)
                      /\ new[i].number = First(more) + i - 1
  <2> HIDE DEF n
  <2> SUFFICES ASSUME NEW i \in 1..n
               PROVE  /\ new[i].number \in First(more)..Len(more)
                      /\ new[i].number = First(more) + i - 1
    OBVIOUS
  <2>1. new[i].number = Len(all) - n + 1 + i
    BY <1>8
  <2>2. First(more) = Len(all) - n + 2 /\ Len(more) = Len(all) + 1 /\ n \in Nat \ {0}
        /\ Len(all) >= n /\ Len(all) \in Nat
    BY <1>1, <1>3
  <2> QED
    BY ONLY <2>1, <2>2, i \in 1..n
<1>12. \A i, j \in 1..n : i # j => new[i].number # new[j].number
  BY <1>1, <1>8
<1>13. n = IF Len(more) < n THEN Len(more) ELSE n
  BY <1>1
<1> HIDE DEF n
<1>14. IsSample(new, more)
  BY <1>2, <1>9, <1>10, <1>11, <1>12, <1>13 DEF IsSample, n
<1> QED
  BY <1>14 DEF new, more

(* One arrives at a full buffer under "reservoir": it takes the place of   *)
(* any other.                                                              *)
LEMMA ReservoirIsSample ==
  ASSUME BufferTypeOK, strategy # "fifo",
         NEW buf \in Seq(Vectors), NEW all \in Seq(Vectors), NEW vec \in Vectors,
         IsSample(buf, all), vec.number = Len(all) + 1,
         ~(Len(buf) < PerTrackCapacity), NEW k \in 1..Len(buf)
  PROVE  IsSample([buf EXCEPT ![k] = vec], Append(all, vec))
<1> DEFINE new == [buf EXCEPT ![k] = vec]
           more == Append(all, vec)
<1>1. PerTrackCapacity \in Nat /\ Len(buf) = PerTrackCapacity /\ Len(all) >= PerTrackCapacity
      /\ Len(more) = Len(all) + 1
  BY CapacityType DEF IsSample
<1>2. new \in Seq(Vectors) /\ Len(new) = Len(buf) /\ DOMAIN new = 1..Len(buf)
      /\ DOMAIN buf = 1..Len(buf)
  OBVIOUS
<1>3. First(all) = 1 /\ First(more) = 1
  BY DEF First
<1>4. new[k] = vec /\ more[Len(more)] = vec /\ more[vec.number] = vec
  BY <1>1, <1>2
<1>5. \A i \in 1..Len(buf) : i # k => new[i] = buf[i]
  OBVIOUS
<1>6. \A i \in 1..Len(buf) : buf[i].number \in 1..Len(all) /\ buf[i] = all[buf[i].number]
  BY <1>2, <1>3 DEF IsSample
<1>7. \A i \in 1..Len(all) : more[i] = all[i]
  OBVIOUS
<1>8. \A i \in 1..Len(buf) : new[i].number \in 1..Len(more) /\ new[i] = more[new[i].number]
  BY <1>1, <1>4, <1>5, <1>6, <1>7
<1>9. \A i, j \in 1..Len(buf) : i # j => new[i].number # new[j].number
  <2>1. \A i, j \in 1..Len(buf) : i # j => buf[i].number # buf[j].number
    BY <1>2 DEF IsSample
  <2> QED
    BY <2>1, <1>1, <1>4, <1>5, <1>6
<1>10. k \in DOMAIN new /\ new[k] = more[Len(more)]
  BY <1>2, <1>4
<1> HIDE DEF new, more
<1>11. Len(new) = IF Len(more) < PerTrackCapacity THEN Len(more) ELSE PerTrackCapacity
  BY <1>1, <1>2
<1>12. \A i \in DOMAIN new : new[i].number \in First(more)..Len(more)
                             /\ new[i] = more[new[i].number]
  BY <1>2, <1>3, <1>8
<1>13. \A i, j \in DOMAIN new : i # j => new[i].number # new[j].number
  BY <1>2, <1>9
<1>14. IsSample(new, more)
  BY <1>10, <1>11, <1>12, <1>13 DEF IsSample
<1> QED
  BY <1>14 DEF new, more

(* What a sample is depends on the strategy and the capacity only.         *)
LEMMA SampleUnchanged ==
  ASSUME UNCHANGED <<strategy, capacity>>,
         \A t \in Tracks : IsSample(buffers'[t], arrived'[t])
  PROVE  \A t \in Tracks : IsSample(buffers[t], arrived[t])'
BY DEF IsSample, First, PerTrackCapacity

LEMMA IngestInv ==
  ASSUME BufferInv, NEW t \in Tracks, NEW w \in Widths, Ingest(t, w)
  PROVE  BufferInv'
<1> DEFINE vec == [number |-> Len(arrived[t]) + 1, width |-> w]
<1>1. buffers[t] \in Seq(Vectors) /\ arrived[t] \in Seq(Vectors) /\ BufferTypeOK
  BY DEF BufferInv, BufferTypeOK
<1>2. vec \in Vectors /\ vec.number = Len(arrived[t]) + 1
  BY <1>1 DEF Vectors
<1>3. arrived' = [arrived EXCEPT ![t] = Append(arrived[t], vec)]
      /\ UNCHANGED <<strategy, capacity>> /\ PerTrackCapacity > 0
  BY DEF Ingest
<1>4. PICK buf : /\ buffers' = [buffers EXCEPT ![t] = buf]
                 /\ \/ Len(buffers[t]) < PerTrackCapacity /\ buf = Append(buffers[t], vec)
                    \/ ~(Len(buffers[t]) < PerTrackCapacity) /\ buf \in Overflow(buffers[t], vec)
  BY DEF Ingest
<1> HIDE DEF vec
<1>5. IsSample(buffers[t], arrived[t]) /\ Numbered(arrived[t])
  BY DEF BufferInv, BufferIsSample
<1>6. IsSample(buf, Append(arrived[t], vec)) /\ buf \in Seq(Vectors)
  <2>1. CASE Len(buffers[t]) < PerTrackCapacity /\ buf = Append(buffers[t], vec)
    BY <2>1, <1>1, <1>2, <1>5, AppendIsSample
  <2>2. CASE /\ ~(Len(buffers[t]) < PerTrackCapacity) /\ strategy = "fifo"
             /\ buf = Append(Tail(buffers[t]), vec)
    <3>1. Len(buffers[t]) > 0
      BY <2>2, <1>1, <1>3, CapacityType
    <3>2. buf \in Seq(Vectors)
      BY <2>2, <3>1, <1>1, <1>2
    <3> QED
      BY <2>2, <3>2, <1>1, <1>2, <1>3, <1>5, FifoIsSample
  <2>3. ASSUME ~(Len(buffers[t]) < PerTrackCapacity), strategy # "fifo",
               NEW k \in 1..Len(buffers[t]), buf = [buffers[t] EXCEPT ![k] = vec]
        PROVE  IsSample(buf, Append(arrived[t], vec)) /\ buf \in Seq(Vectors)
    <3>1. IsSample([buffers[t] EXCEPT ![k] = vec], Append(arrived[t], vec))
      BY <2>3, <1>1, <1>2, <1>5, ReservoirIsSample
    <3>2. [buffers[t] EXCEPT ![k] = vec] \in Seq(Vectors)
      BY <1>1, <1>2
    <3> QED
      BY <2>3, <3>1, <3>2
  <2> QED
    BY <1>4, <2>1, <2>2, <2>3 DEF Overflow
<1>7. Numbered(Append(arrived[t], vec))
  BY <1>1, <1>2, <1>5 DEF Numbered
<1>8. BufferTypeOK'
  <2>1. Append(arrived[t], vec) \in Seq(Vectors)
    BY <1>1, <1>2
  <2>2. buffers' \in [Tracks -> Seq(Vectors)] /\ arrived' \in [Tracks -> Seq(Vectors)]
    BY <2>1, <1>1, <1>3, <1>4, <1>6 DEF BufferTypeOK
  <2> QED
    BY <2>2, <1>1, <1>3 DEF BufferTypeOK
<1>9. \A u \in Tracks : IsSample(buffers'[u], arrived'[u]) /\ Numbered(arrived'[u])
  BY <1>1, <1>3, <1>4, <1>6, <1>7 DEF BufferInv, BufferIsSample, BufferTypeOK
<1>10. BufferIsSample'
  BY <1>3, <1>9, SampleUnchanged DEF BufferIsSample
<1> QED
  BY <1>8, <1>9, <1>10 DEF BufferInv

LEMMA ClearInv ==
  ASSUME BufferInv, Clear \/ \E t \in Tracks : ClearTrack(t)
  PROVE  BufferInv'
<1>1. UNCHANGED <<strategy, capacity>>
  BY DEF Clear, ClearTrack
<1>2. BufferTypeOK'
  <2>1. << >> \in Seq(Vectors)
    OBVIOUS
  <2>2. buffers' \in [Tracks -> Seq(Vectors)] /\ arrived' \in [Tracks -> Seq(Vectors)]
    BY <2>1 DEF BufferInv, BufferTypeOK, Clear, ClearTrack
  <2> QED
    BY <1>1, <2>2 DEF BufferInv, BufferTypeOK
<1>3. \A u \in Tracks :
         \/ buffers'[u] = buffers[u] /\ arrived'[u] = arrived[u]
         \/ buffers'[u] = << >> /\ arrived'[u] = << >>
  BY DEF BufferInv, BufferTypeOK, Clear, ClearTrack
<1>4. \A u \in Tracks : IsSample(buffers'[u], arrived'[u]) /\ Numbered(arrived'[u])
  BY <1>3, EmptyIsSample DEF BufferInv, BufferIsSample
<1>5. BufferIsSample'
  BY <1>1, <1>4, SampleUnchanged DEF BufferIsSample
<1> QED
  BY <1>2, <1>4, <1>5 DEF BufferInv

LEMMA BufferInvHolds == BufferSpec => []BufferInv
<1>1. BufferInit => BufferInv
  <2> SUFFICES ASSUME BufferInit PROVE BufferInv
    OBVIOUS
  <2>1. BufferTypeOK
    BY DEF BufferInit, BufferTypeOK
  <2> QED
    BY <2>1, EmptyIsSample DEF BufferInit, BufferInv, BufferIsSample
<1>2. BufferInv /\ [BufferNext]_bufferVars => BufferInv'
  <2> SUFFICES ASSUME BufferInv, [BufferNext]_bufferVars PROVE BufferInv'
    OBVIOUS
  <2>1. CASE UNCHANGED bufferVars
    BY <2>1 DEF bufferVars, BufferInv, BufferTypeOK, BufferIsSample, IsSample, First,
      PerTrackCapacity
  <2>2. CASE BufferNext
    BY <2>2, IngestInv, ClearInv DEF BufferNext
  <2> QED
    BY <2>1, <2>2
<1> QED
  BY <1>1, <1>2, PTL DEF BufferSpec

(* Whatever is ingested and cleared, a buffer is a sample of what arrived  *)
(* since: the latest vectors under "fifo", different ones always, and the  *)
(* newest among them.                                                      *)
THEOREM BufferSamples == BufferSpec => []BufferIsSample
<1>1. BufferInv => BufferIsSample
  BY DEF BufferInv
<1> QED
  BY <1>1, BufferInvHolds, PTL

(* A sample's vectors are among those that may be buffered.                *)
LEMMA SampleIsOfWindow ==
  ASSUME BufferIsSample, NEW t \in Tracks, NEW i \in DOMAIN buffers[t]
  PROVE  \E k \in Oldest(t)..Len(arrived[t]) : buffers[t][i] = arrived[t][k]
BY DEF BufferIsSample, IsSample, Oldest

(* A flush fails only because of vectors that may still be buffered, and   *)
(* the track it examines is ready when any is.                             *)
THEOREM FlushHolds == BufferSpec => []FlushFailsForCause
<1>1. BufferInv => FlushFailsForCause
  <2> SUFFICES ASSUME BufferInv PROVE FlushFailsForCause
    OBVIOUS
  <2>1. ASSUME FlushFails
        PROVE  \E t, u \in Tracks :
                 \E i \in Oldest(t)..Len(arrived[t]), j \in Oldest(u)..Len(arrived[u]) :
                   arrived[t][i].width # arrived[u][j].width
    BY <2>1, SampleIsOfWindow DEF FlushFails, BufferInv
  <2>2. (\E t \in Tracks : IsTrackReady(t)) => IsTrackReady(Examined)
    <3>1. \A t \in Tracks : Len(buffers[t]) \in Nat
      <4> TAKE t \in Tracks
      <4>1. buffers[t] \in Seq(Vectors)
        BY DEF BufferInv, BufferTypeOK
      <4> QED
        BY <4>1
    <3> QED
      BY <3>1, BufferConstants DEF IsTrackReady, Examined
  <2> QED
    BY <2>1, <2>2 DEF FlushFailsForCause
<1> QED
  BY <1>1, BufferInvHolds, PTL
-----------------------------------------------------------------------------
(* What a fusion reads are scores.                                         *)
ResultsOK ==
    \A t \in DOMAIN results :
        /\ results[t].score \in Scores
        /\ results[t].breakdown = << >> \/ results[t].breakdown \in [Tracked -> Scores]

EvidenceOK ==
    /\ priors \in [NodeTypes -> Nat]
    /\ evidence \in [NodeTypes -> SUBSET Nat]
    /\ PriorIsHighest

LatentInv == ResultsOK /\ EvidenceOK

LEMMA FailureProbType == ASSUME NEW score \in Scores PROVE FailureProb(score) \in Nat
<1>1. score \in Nat /\ Sensitivity \in Nat
  BY LatentConstants
<1>2. score * Sensitivity \in Nat
  BY <1>1
<1> QED
  BY <1>2 DEF FailureProb

LEMMA InitInv == LatentInit => LatentInv
<1> SUFFICES ASSUME LatentInit PROVE LatentInv
  OBVIOUS
<1>1. Priors \subseteq Nat
  BY LatentConstants
<1>2. ResultsOK
  BY DEF LatentInit, ResultsOK
<1>3. priors \in [NodeTypes -> Nat] /\ evidence = [ty \in NodeTypes |-> {priors[ty]}]
  BY <1>1 DEF LatentInit
<1>4. \A ty \in NodeTypes : priors[ty] \in Nat /\ evidence[ty] = {priors[ty]}
  BY <1>3
<1>5. evidence \in [NodeTypes -> SUBSET Nat]
  BY <1>3, <1>4
<1>6. PriorIsHighest
  BY <1>4 DEF PriorIsHighest
<1> QED
  BY <1>2, <1>3, <1>5, <1>6 DEF LatentInv, EvidenceOK

(* Scores of some tracks are fused into the graph.                         *)
LEMMA FusedInv ==
  ASSUME LatentInv, NEW scores, Fused(scores),
         \A t \in DOMAIN scores : scores[t] \in Scores
  PROVE  LatentInv'
<1>1. ResultsOK'
  BY DEF Fused, LatentInv, ResultsOK
<1>2. ASSUME NEW ty \in NodeTypes
      PROVE  /\ priors'[ty] \in Nat /\ evidence'[ty] \subseteq Nat
             /\ priors'[ty] \in evidence'[ty]
             /\ \A p \in evidence'[ty] : p <= priors'[ty]
  <2>1. /\ priors[ty] \in Nat /\ evidence[ty] \subseteq Nat
        /\ priors[ty] \in evidence[ty]
        /\ \A p \in evidence[ty] : p <= priors[ty]
    BY DEF LatentInv, EvidenceOK, PriorIsHighest
  <2>2. CASE ty \in DOMAIN scores
    <3> DEFINE prob == FailureProb(scores[ty])
    <3>1. prob \in Nat
      BY <2>2, FailureProbType
    <3>2. priors'[ty] = (IF prob > priors[ty] THEN prob ELSE priors[ty])
      BY <2>2 DEF Fused, Raised
    <3>3. evidence'[ty] = evidence[ty] \cup {prob}
      BY <2>2 DEF Fused
    <3> HIDE DEF prob
    <3> QED
      BY <2>1, <3>1, <3>2, <3>3
  <2>3. CASE ty \notin DOMAIN scores
    BY <2>1, <2>3 DEF Fused
  <2> QED
    BY <2>2, <2>3
<1>3. priors' \in [NodeTypes -> Nat] /\ evidence' \in [NodeTypes -> SUBSET Nat]
  BY <1>2 DEF Fused
<1> QED
  BY <1>1, <1>2, <1>3 DEF LatentInv, EvidenceOK, PriorIsHighest

LEMMA FuseInv == ASSUME LatentInv, NEW t \in Tracked, Fuse(t) PROVE LatentInv'
<1>1. t \in DOMAIN results /\ results[t].score \in Scores
  BY DEF Fuse, LatentInv, ResultsOK
<1>2. CASE results[t].breakdown # << >>
  <2>1. results[t].breakdown \in [Tracked -> Scores]
    BY <1>1, <1>2 DEF LatentInv, ResultsOK
  <2> QED
    BY <1>2, <2>1, FusedInv DEF Fuse
<1>3. CASE results[t].breakdown = << >>
  <2>1. Fused([u \in {t} |-> results[t].score])
    BY <1>3 DEF Fuse
  <2> QED
    BY <1>1, <2>1, FusedInv
<1> QED
  BY <1>2, <1>3

LEMMA FuseDualInv == ASSUME LatentInv, FuseDual PROVE LatentInv'
<1> DEFINE scores == [t \in DOMAIN results \cap {"retrieval", "generation"} |-> results[t].score]
<1>1. Fused(scores)
  BY DEF FuseDual
<1>2. \A t \in DOMAIN scores : scores[t] \in Scores
  BY DEF LatentInv, ResultsOK
<1> HIDE DEF scores
<1> QED
  BY <1>1, <1>2, FusedInv

(* The drift computations replace the results and leave the graph alone.   *)
LEMMA ComputeInv ==
  ASSUME LatentInv,
         \/ \E score \in Scores : ComputeDrift(score)
         \/ \E t \in Tracked, score \in Scores : ComputeOnce(t, score)
         \/ \E scores \in [Tracked -> Scores] : ComputeDual(scores)
  PROVE  LatentInv'
<1>1. UNCHANGED <<priors, evidence>>
  BY DEF ComputeDrift, ComputeOnce, ComputeDual
<1>2. ResultsOK'
  <2>1. ASSUME NEW score \in Scores, ComputeDrift(score) PROVE ResultsOK'
    BY <2>1 DEF ComputeDrift, ResultsOK
  <2>2. ASSUME NEW t \in Tracked, NEW score \in Scores, ComputeOnce(t, score) PROVE ResultsOK'
    BY <2>2 DEF ComputeOnce, ResultsOK
  <2>3. ASSUME NEW scores \in [Tracked -> Scores], ComputeDual(scores) PROVE ResultsOK'
    BY <2>3 DEF ComputeDual, ResultsOK
  <2> QED
    BY <2>1, <2>2, <2>3
<1> QED
  BY <1>1, <1>2 DEF LatentInv, EvidenceOK, PriorIsHighest

LEMMA NewGraphInv == ASSUME LatentInv, NewGraph PROVE LatentInv'
BY DEF LatentInv, NewGraph, ResultsOK, EvidenceOK, PriorIsHighest

(* The prior of a kind of nodes is the highest evidence fused into it, for *)
(* every sequence of results and fusions and any sensitivity.              *)
THEOREM PriorHolds == LatentSpec => []PriorIsHighest
<1>1. LatentInv /\ [LatentNext]_latentVars => LatentInv'
  <2> SUFFICES ASSUME LatentInv, [LatentNext]_latentVars PROVE LatentInv'
    OBVIOUS
  <2>1. CASE UNCHANGED latentVars \/ Fit \/ Reset
    BY <2>1 DEF latentVars, Fit, Reset, LatentInv, ResultsOK, EvidenceOK, PriorIsHighest
  <2>2. CASE LatentNext
    BY <2>1, <2>2, ComputeInv, FuseInv, FuseDualInv, NewGraphInv DEF LatentNext
  <2> QED
    BY <2>1, <2>2
<1>2. LatentInv => PriorIsHighest
  BY DEF LatentInv, EvidenceOK
<1> QED
  BY <1>1, <1>2, InitInv, PTL DEF LatentSpec
-----------------------------------------------------------------------------
(* Induction over Nat, on a set.                                           *)
LEMMA SetInduction ==
  ASSUME NEW G, 0 \in G, \A n \in Nat : n \in G => n + 1 \in G
  PROVE  Nat \subseteq G
<1> DEFINE Bad == {n \in Nat : n \notin G}
<1>1. Bad \subseteq Nat
  OBVIOUS
<1>2. ASSUME Bad # {} PROVE FALSE
  <2>1. PICK x \in Bad : \A y \in Bad : ~(<<y, x>> \in OpToRel(<, Nat))
    <3> HIDE DEF Bad
    <3> QED
      BY <1>1, <1>2, NatLessThanWellFounded, WFMin
  <2>2. \A y \in Bad : ~(y < x)
    BY <2>1 DEF OpToRel
  <2>3. x # 0 /\ x - 1 \in Nat /\ x - 1 < x
    OBVIOUS
  <2>4. x - 1 \in G
    BY <2>2, <2>3
  <2> QED
    BY <2>3, <2>4
<1> QED
  BY <1>2

-----------------------------------------------------------------------------
(* f holds the sums of the prefixes of s.                                  *)
IsSums(f, s) == f = [i \in 0..Len(s) |-> IF i = 0 THEN 0 ELSE f[i - 1] + s[i]]
Sums(s) == CHOOSE f : IsSums(f, s)

(* f does so up to the n-th.                                               *)
SumsTo(f, s, n) == \A i \in 0..n : f[i] = IF i = 0 THEN 0 ELSE f[i - 1] + s[i]

LEMMA SumsStep ==
  ASSUME NEW s \in Seq(Int), NEW n \in Nat, n + 1 <= Len(s),
         NEW f \in [0..n -> Int], SumsTo(f, s, n)
  PROVE  \E g \in [0..(n + 1) -> Int] : SumsTo(g, s, n + 1)
<1> DEFINE g == [i \in 0..(n + 1) |-> IF i = n + 1 THEN f[n] + s[n + 1] ELSE f[i]]
<1>1. g \in [0..(n + 1) -> Int]
  <2>1. f[n] + s[n + 1] \in Int
    OBVIOUS
  <2> QED
    BY <2>1
<1>2. g[n + 1] = f[n] + s[n + 1] /\ \A i \in 0..n : g[i] = f[i]
  OBVIOUS
<1>3. SumsTo(g, s, n + 1)
  <2> HIDE DEF g
  <2> SUFFICES ASSUME NEW i \in 0..(n + 1) PROVE g[i] = IF i = 0 THEN 0 ELSE g[i - 1] + s[i]
    BY DEF SumsTo
  <2>1. CASE i = n + 1
    BY <2>1, <1>2
  <2>2. CASE i # n + 1
    <3>1. i \in 0..n /\ (i # 0 => i - 1 \in 0..n)
      BY <2>2
    <3> QED
      BY <3>1, <1>2 DEF SumsTo
  <2> QED
    BY <2>1, <2>2
<1> QED
  BY <1>1, <1>3

LEMMA SumsExist == ASSUME NEW s \in Seq(Int) PROVE \E f : IsSums(f, s)
<1> DEFINE G == {n \in Nat : n <= Len(s) => \E f \in [0..n -> Int] : SumsTo(f, s, n)}
<1>1. 0 \in G
  <2>1. SumsTo([i \in 0..0 |-> 0], s, 0)
    BY DEF SumsTo
  <2>2. [i \in 0..0 |-> 0] \in [0..0 -> Int]
    OBVIOUS
  <2> QED
    BY <2>1, <2>2
<1>2. ASSUME NEW n \in Nat, n \in G PROVE n + 1 \in G
  <2>1. CASE n + 1 <= Len(s)
    <3>1. \E f \in [0..n -> Int] : SumsTo(f, s, n)
      BY <1>2, <2>1
    <3> QED
      BY <2>1, <3>1, SumsStep
  <2>2. CASE ~(n + 1 <= Len(s))
    BY <2>2
  <2> QED
    BY <2>1, <2>2
<1>3. Nat \subseteq G
  <2> HIDE DEF G
  <2> QED
    BY <1>1, <1>2, SetInduction
<1>4. \E f \in [0..Len(s) -> Int] : SumsTo(f, s, Len(s))
  <2>1. Len(s) \in G
    BY <1>3
  <2> QED
    BY <2>1
<1>5. PICK f \in [0..Len(s) -> Int] : SumsTo(f, s, Len(s))
  BY <1>4
<1>6. IsSums(f, s)
  BY <1>5 DEF IsSums, SumsTo
<1> QED
  BY <1>6

LEMMA SumsUnfold ==
  ASSUME NEW s \in Seq(Int)
  PROVE  /\ Sums(s)[0] = 0
         /\ \A i \in 1..Len(s) : Sums(s)[i] = Sums(s)[i - 1] + s[i]
         /\ Total(s) = Sums(s)[Len(s)]
<1>1. IsSums(Sums(s), s)
  BY SumsExist DEF Sums
<1>2. Total(s) = Sums(s)[Len(s)]
  BY DEF Total, Sums, IsSums
<1>3. Len(s) \in Nat
  OBVIOUS
<1> DEFINE f == Sums(s)
<1> HIDE DEF f
<1>4. f = [i \in 0..Len(s) |-> IF i = 0 THEN 0 ELSE f[i - 1] + s[i]]
  BY <1>1 DEF IsSums, f
<1>5. \A i \in 0..Len(s) : f[i] = IF i = 0 THEN 0 ELSE f[i - 1] + s[i]
  BY <1>4
<1>6. f[0] = 0 /\ \A i \in 1..Len(s) : f[i] = f[i - 1] + s[i]
  BY <1>3, <1>5
<1> QED
  BY <1>2, <1>6 DEF f

(* One term more in the inequality of Cauchy and Schwarz.                  *)
LEMMA CauchyStep ==
  ASSUME NEW m \in Nat, NEW tot \in Nat, NEW sq \in Nat, NEW x \in Nat, m * sq >= tot * tot
  PROVE  (m + 1) * (sq + x * x) >= (tot + x) * (tot + x)
<1>1. m * (x * x) + sq >= 2 * (tot * x)
  <2>1. CASE m = 0
    <3>1. tot = 0
      BY <2>1
    <3> QED
      BY <2>1, <3>1
  <2>2. CASE m # 0
    <3>1. (m * x - tot) * (m * x - tot) >= 0
      OBVIOUS
    <3>2. m * (m * (x * x) + sq) >= m * (2 * (tot * x))
      BY <3>1
    <3> QED
      BY <2>2, <3>2
  <2> QED
    BY <2>1, <2>2
<1> QED
  BY <1>1

(* The squares of the first m of s.                                        *)
SquaresOf(s) == [i \in DOMAIN s |-> s[i] * s[i]]

LEMMA PrefixCauchy ==
  ASSUME NEW s \in Seq(Nat)
  PROVE  \A m \in 0..Len(s) :
            /\ Sums(s)[m] \in Nat /\ Sums(SquaresOf(s))[m] \in Nat
            /\ m * Sums(SquaresOf(s))[m] >= Sums(s)[m] * Sums(s)[m]
<1> DEFINE T == Sums(s)
           Q == Sums(SquaresOf(s))
           G == {m \in Nat : m <= Len(s) =>
                    T[m] \in Nat /\ Q[m] \in Nat /\ m * Q[m] >= T[m] * T[m]}
<1>1. SquaresOf(s) \in Seq(Int) /\ Len(SquaresOf(s)) = Len(s) /\ s \in Seq(Int)
      /\ \A i \in 1..Len(s) : SquaresOf(s)[i] = s[i] * s[i]
  BY DEF SquaresOf
<1>2. T[0] = 0 /\ Q[0] = 0
      /\ \A i \in 1..Len(s) : T[i] = T[i - 1] + s[i] /\ Q[i] = Q[i - 1] + s[i] * s[i]
  BY <1>1, SumsUnfold
<1> HIDE DEF T, Q
<1>3. 0 \in G
  <2>1. T[0] \in Nat /\ Q[0] \in Nat /\ 0 * Q[0] >= T[0] * T[0]
    BY <1>2
  <2> QED
    BY <2>1
<1>4. ASSUME NEW m \in Nat, m \in G PROVE m + 1 \in G
  <2> SUFFICES ASSUME m + 1 <= Len(s)
               PROVE  /\ T[m + 1] \in Nat /\ Q[m + 1] \in Nat
                      /\ (m + 1) * Q[m + 1] >= T[m + 1] * T[m + 1]
    OBVIOUS
  <2>1. T[m] \in Nat /\ Q[m] \in Nat /\ m * Q[m] >= T[m] * T[m]
    BY <1>4
  <2>2. m + 1 \in 1..Len(s) /\ s[m + 1] \in Nat /\ (m + 1) - 1 = m
    OBVIOUS
  <2>3. T[m + 1] = T[m] + s[m + 1] /\ Q[m + 1] = Q[m] + s[m + 1] * s[m + 1]
    BY <1>2, <2>2
  <2>4. (m + 1) * (Q[m] + s[m + 1] * s[m + 1]) >= (T[m] + s[m + 1]) * (T[m] + s[m + 1])
    BY <2>1, <2>2, CauchyStep
  <2>5. s[m + 1] * s[m + 1] \in Nat
    BY <2>2
  <2>6. T[m + 1] \in Nat /\ Q[m + 1] \in Nat
    <3>1. s[m + 1] \in Nat
      BY <2>2
    <3>2. T[m] + s[m + 1] \in Nat
      BY ONLY <2>1, <3>1
    <3>3. Q[m] + s[m + 1] * s[m + 1] \in Nat
      BY ONLY <2>1, <2>5, SMTT(30)
    <3> QED
      BY ONLY <2>3, <3>2, <3>3
  <2>7. (m + 1) * Q[m + 1] >= T[m + 1] * T[m + 1]
    BY <2>3, <2>4
  <2> QED
    BY <2>6, <2>7
<1>5. Nat \subseteq G
  <2> HIDE DEF G
  <2> QED
    BY <1>3, <1>4, SetInduction
<1> QED
  BY <1>5 DEF T, Q

(* What the last of n scores lies above their mean is at most (n - 1) /    *)
(* sqrt(n) of their standard deviations, without division.                 *)
LEMMA LastOfSample ==
  ASSUME NEW m \in Nat, NEW tot \in Nat, NEW sq \in Nat, NEW x \in Nat, m * sq >= tot * tot
  PROVE  LET above == (m + 1) * x - (tot + x)
             spread == (m + 1) * (sq + x * x) - (tot + x) * (tot + x)
         IN  m * spread >= above * above
<1> DEFINE above == (m + 1) * x - (tot + x)
           spread == (m + 1) * (sq + x * x) - (tot + x) * (tot + x)
<1>1. above = m * x - tot
  OBVIOUS
<1>2. above * above = (m * x) * (m * x) - 2 * ((m * x) * tot) + tot * tot
  BY <1>1
<1>3. spread = (m + 1) * sq + m * (x * x) - tot * tot - 2 * (tot * x)
  OBVIOUS
<1>4. m * spread = (m + 1) * (m * sq) + (m * x) * (m * x) - m * (tot * tot) - 2 * ((m * x) * tot)
  BY <1>3
<1>5. (m + 1) * (m * sq) >= (m + 1) * (tot * tot)
  OBVIOUS
<1>6. (m + 1) * (tot * tot) = m * (tot * tot) + tot * tot
  OBVIOUS
<1> QED
  BY <1>2, <1>4, <1>5, <1>6

LEMMA NoOutlier ==
  ASSUME NEW s \in Seq(Scores), Len(s) >= 2,
         (Len(s) - 1) * (Len(s) - 1) <= SensitivityZ * SensitivityZ * Len(s)
  PROVE  ~Outlies(s[Len(s)], s)
<1> DEFINE m == Len(s) - 1
           x == s[Len(s)]
           tot == Sums(s)[m]
           sq == Sums(SquaresOf(s))[m]
           above == (m + 1) * x - (tot + x)
           spread == (m + 1) * (sq + x * x) - (tot + x) * (tot + x)
           zz == SensitivityZ * SensitivityZ
<1>1. s \in Seq(Nat)
  <2>1. Scores \subseteq Nat
    BY LatentConstants
  <2>2. \A i \in 1..Len(s) : s[i] \in Scores
    OBVIOUS
  <2>3. \A i \in 1..Len(s) : s[i] \in Nat
    BY <2>1, <2>2
  <2> QED
    BY <2>3
<1>2. m \in Nat \ {0} /\ x \in Nat /\ Len(s) = m + 1 /\ m + 1 \in 1..Len(s) /\ (m + 1) - 1 = m
  BY <1>1
<1>3. tot \in Nat /\ sq \in Nat /\ m * sq >= tot * tot
  BY <1>1, <1>2, PrefixCauchy
<1>4. SquaresOf(s) \in Seq(Int) /\ Len(SquaresOf(s)) = Len(s) /\ s \in Seq(Int)
      /\ SquaresOf(s)[m + 1] = x * x
  BY <1>1, <1>2 DEF SquaresOf
<1>5. Total(s) = tot + x
  <2>1. Total(s) = Sums(s)[m + 1] /\ Sums(s)[m + 1] = Sums(s)[m] + s[m + 1]
    BY <1>2, <1>4, SumsUnfold
  <2> QED
    BY <2>1, <1>2
<1>6. Squares(s) = sq + x * x
  <2>1. Squares(s) = Total(SquaresOf(s))
    BY DEF Squares, SquaresOf
  <2>2. Total(SquaresOf(s)) = Sums(SquaresOf(s))[m + 1]
        /\ Sums(SquaresOf(s))[m + 1] = Sums(SquaresOf(s))[m] + SquaresOf(s)[m + 1]
    BY <1>2, <1>4, SumsUnfold
  <2> QED
    BY <2>1, <2>2, <1>4
<1>7. Outlies(x, s) <=> above > 0 /\ above * above * m > zz * (m + 1) * spread
  <2> HIDE DEF x, tot, sq, m
  <2> QED
    BY <1>2, <1>5, <1>6 DEF Outlies
<1>8. m * spread >= above * above
  <2> HIDE DEF x, tot, sq, m
  <2> QED
    BY <1>2, <1>3, LastOfSample
<1>9. m * m <= zz * (m + 1) /\ zz \in Nat
  BY <1>2, LatentConstants
<1>10. above \in Int /\ spread \in Int
  <2>1. (m + 1) * x \in Int /\ tot + x \in Int /\ x * x \in Int /\ m + 1 \in Int
    BY <1>2, <1>3
  <2>2. (m + 1) * (sq + x * x) \in Int /\ (tot + x) * (tot + x) \in Int
    <3> DEFINE v == sq + x * x
               w == tot + x
               n == m + 1
    <3>1. v \in Int /\ w \in Int /\ n \in Int
      BY <2>1, <1>3
    <3> HIDE DEF v, w, n
    <3>2. n * v \in Int /\ w * w \in Int
      BY ONLY <3>1
    <3> QED
      BY ONLY <3>2 DEF v, w, n
  <2> QED
    BY <2>1, <2>2
<1> HIDE DEF x, tot, sq, m, above, spread, zz
<1>11. spread >= 0
  <2>1. above * above >= 0
    BY <1>10
  <2> QED
    BY <2>1, <1>2, <1>8, <1>10
<1>12. above * above * m <= (m * spread) * m
  BY <1>2, <1>8, <1>10
<1>13. (m * spread) * m = (m * m) * spread
  BY <1>2, <1>10
<1>14. (m * m) * spread <= (zz * (m + 1)) * spread
  BY <1>2, <1>9, <1>10, <1>11
<1>15. ~(above * above * m > zz * (m + 1) * spread)
  BY <1>2, <1>9, <1>10, <1>12, <1>13, <1>14
<1> QED
  BY <1>7, <1>15 DEF x

-----------------------------------------------------------------------------
(* The manager's window is of scores, and a detection over it is of a      *)
(* score that is too high for the window's size, or for the maximum.       *)
OutlierInv == window \in Seq(Scores) /\ OutliersNeedClamp

LEMMA UpdatedType ==
  ASSUME window \in Seq(Scores), NEW score \in Scores
  PROVE  LET s == Updated(score) IN s \in Seq(Scores) /\ Len(s) > 0 /\ s[Len(s)] = score
<1> DEFINE s == Append(window, score)
<1>1. s \in Seq(Scores) /\ Len(s) = Len(window) + 1 /\ s[Len(s)] = score
      /\ Len(window) \in Nat
  OBVIOUS
<1>2. WindowSize \in Nat \ {0}
  BY LatentConstants
<1>3. Updated(score) = IF Len(s) > WindowSize THEN Tail(s) ELSE s
  BY DEF Updated
<1> HIDE DEF s
<1>4. CASE Len(s) > WindowSize
  <2>1. Len(s) >= 2
    BY <1>1, <1>2, <1>4
  <2>2. Tail(s) \in Seq(Scores) /\ Len(Tail(s)) = Len(s) - 1 /\ Tail(s)[Len(s) - 1] = s[Len(s)]
    BY <1>1, <2>1
  <2> QED
    BY <1>1, <1>3, <1>4, <2>1, <2>2
<1>5. CASE ~(Len(s) > WindowSize)
  BY <1>1, <1>3, <1>5
<1> QED
  BY <1>4, <1>5

LEMMA ComputeDriftOutlier ==
  ASSUME OutlierInv, NEW score \in Scores, ComputeDrift(score)
  PROVE  OutlierInv'
<1> DEFINE s == Updated(score)
<1>1. window' = s /\ s \in Seq(Scores) /\ Len(s) \in Nat /\ s[Len(s)] = score
  BY UpdatedType DEF OutlierInv, ComputeDrift
<1>2. /\ DOMAIN results' = {"unified"}
      /\ results'["unified"].detected = Exceeds(score, s)
      /\ results'["unified"].over = Len(s)
      /\ results'["unified"].score = score
  BY <1>1 DEF ComputeDrift
<1> HIDE DEF s
<1>3. ASSUME Exceeds(score, s), Len(s) >= 2,
             (Len(s) - 1) * (Len(s) - 1) <= SensitivityZ * SensitivityZ * Len(s)
      PROVE  score > MaxThreshold
  <2>1. ~Outlies(score, s)
    BY <1>1, <1>3, NoOutlier
  <2>2. ~(Len(s) < 2)
    BY <1>1, <1>3
  <2> QED
    BY <1>3, <2>1, <2>2 DEF Exceeds
<1>4. OutliersNeedClamp'
  BY <1>2, <1>3 DEF OutliersNeedClamp
<1> QED
  BY <1>1, <1>4 DEF OutlierInv

(* While z is at least (n - 1) / sqrt(n), no score of a window of n is     *)
(* detected for being an outlier: only one above the absolute maximum is.  *)
THEOREM OutliersAreClamped == LatentSpec => []OutliersNeedClamp
<1>1. LatentInit => OutlierInv
  <2>1. << >> \in Seq(Scores)
    OBVIOUS
  <2> QED
    BY <2>1 DEF LatentInit, OutlierInv, OutliersNeedClamp
<1>2. OutlierInv /\ [LatentNext]_latentVars => OutlierInv'
  <2> SUFFICES ASSUME OutlierInv, [LatentNext]_latentVars PROVE OutlierInv'
    OBVIOUS
  <2>1. CASE UNCHANGED <<window, results>>
    BY <2>1 DEF OutlierInv, OutliersNeedClamp
  <2>2. CASE UNCHANGED latentVars \/ Fit \/ FuseDual \/ NewGraph \/ \E t \in Tracked : Fuse(t)
    BY <2>1, <2>2 DEF latentVars, Fit, Fuse, FuseDual, Fused, NewGraph
  <2>3. CASE Reset
    <3>1. << >> \in Seq(Scores)
      OBVIOUS
    <3> QED
      BY <2>3, <3>1 DEF Reset, OutlierInv, OutliersNeedClamp
  <2>4. ASSUME NEW t \in Tracked, NEW score \in Scores, ComputeOnce(t, score) PROVE OutlierInv'
    <3>1. \A u \in DOMAIN results' : ~(results'[u].over >= 2)
      BY <2>4 DEF ComputeOnce
    <3> QED
      BY <2>4, <3>1 DEF ComputeOnce, OutlierInv, OutliersNeedClamp
  <2>5. ASSUME NEW scores \in [Tracked -> Scores], ComputeDual(scores) PROVE OutlierInv'
    <3>1. \A u \in DOMAIN results' : ~(results'[u].over >= 2)
      BY <2>5 DEF ComputeDual
    <3> QED
      BY <2>5, <3>1 DEF ComputeDual, OutlierInv, OutliersNeedClamp
  <2>6. ASSUME NEW score \in Scores, ComputeDrift(score) PROVE OutlierInv'
    BY <2>6, ComputeDriftOutlier
  <2> QED
    BY <2>2, <2>3, <2>4, <2>5, <2>6 DEF LatentNext
<1>3. OutlierInv => OutliersNeedClamp
  BY DEF OutlierInv
<1> QED
  BY <1>1, <1>2, <1>3, PTL DEF LatentSpec
=============================================================================
