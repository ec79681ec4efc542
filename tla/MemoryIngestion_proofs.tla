---------------------- MODULE MemoryIngestion_proofs ----------------------
(***************************************************************************)
(* Proofs about MemoryIngestion, for every batch size and bound.           *)
(*                                                                         *)
(* For any number of callers IInv is inductive: besides the type invariant *)
(* and the partition of the accepted frames it says that no place holds a  *)
(* frame twice, and what a worker task holds at each point of _run.  With  *)
(* one caller LInv is: it follows the one _STOP and the order of the       *)
(* frames from the queue through the batch to the table.                   *)
(***************************************************************************)
EXTENDS MemoryIngestion, SequenceTheorems, TLAPS

Distinct(s) == \A i, j \in 1..Len(s) : s[i] = s[j] /\ s[i] # STOP => i = j

(* The values of the control variables.                                    *)
ControlOK ==
    /\ workerTask \in Tasks \cup {NoTask}
    /\ stopped \in BOOLEAN
    /\ pc \in [Tasks -> {"unborn", "created", "get", "got", "flush", "done"}]
    /\ awaiting \in [Callers -> Tasks \cup {NoTask}]
    /\ mark \in [Callers -> 0..accepted]
    /\ accepted \in 0..MaxFrames

SequencesOK ==
    /\ queue \in Seq(Nat)
    /\ hand \in [Tasks -> Seq(Nat)]
    /\ table \in Seq(Nat)
    /\ Distinct(queue)
    /\ Distinct(table)

(* What a worker holds: nothing, the item it got, or a batch of frames.    *)
HandOK ==
    \A w \in Tasks :
        /\ pc[w] \notin {"got", "flush"} => hand[w] = << >>
        /\ pc[w] = "got" => Len(hand[w]) = 1
        /\ pc[w] = "flush" => STOP \notin Range(hand[w])
        /\ Distinct(hand[w])

IInv == ControlOK /\ SequencesOK /\ HandOK /\ EveryFrameInOnePlace
-----------------------------------------------------------------------------
(* The rows, frames and items of a sequence after concatenation, SubSeq    *)
(* and Tail, as sets.                                                      *)
LEMMA InRange ==
    ASSUME NEW s \in Seq(Nat)
    PROVE  /\ Len(s) \in Nat
           /\ \A i \in 1..Len(s) : s[i] \in Nat /\ s[i] \in Range(s)
           /\ \A x \in Range(s) : x \in Nat /\ \E i \in 1..Len(s) : s[i] = x
    BY DEF Range

(* Splitting off the first n items of a sequence without repetition parts  *)
(* its items in two disjoint sets.                                         *)
LEMMA SplitDistinct ==
    ASSUME NEW s \in Seq(Nat), Distinct(s),
           NEW n \in 0..Len(s), NEW m \in n..Len(s),
           \A i \in 1..n : s[i] # STOP,
           \A i \in (n + 1)..m : s[i] = STOP
    PROVE  LET front == SubSeq(s, 1, n)
               rest  == SubSeq(s, m + 1, Len(s))
           IN /\ front \in Seq(Nat) /\ rest \in Seq(Nat)
              /\ Len(front) = n
              /\ Distinct(front) /\ Distinct(rest)
              /\ STOP \notin Range(front)
              /\ Range(front) \cap Range(rest) = {}
              /\ Range(s) \ {STOP} = Range(front) \cup (Range(rest) \ {STOP})
    <1> DEFINE front == SubSeq(s, 1, n)
               rest  == SubSeq(s, m + 1, Len(s))
    <1>0. Len(s) \in Nat /\ n \in Nat /\ m \in Nat /\ n <= m /\ m <= Len(s)
        BY InRange
    <1>1. /\ front \in Seq(Nat) /\ Len(front) = n
          /\ \A i \in 1..n : front[i] = s[i]
        BY SubSeqProperties
    <1>2. /\ rest \in Seq(Nat) /\ Len(rest) = Len(s) - m
          /\ \A i \in 1..(Len(s) - m) : rest[i] = s[m + i]
        BY SubSeqProperties
    <1> HIDE DEF front, rest
    <1>3. \A i \in 1..(Len(s) - m) : m + i \in 1..Len(s) /\ m + i > n
        BY <1>0
    <1>4. \A i \in 1..n : i \in 1..Len(s)
        BY <1>0
    <1>5. Distinct(front)
        <2> SUFFICES ASSUME NEW i \in 1..n, NEW j \in 1..n,
                            front[i] = front[j], front[i] # STOP
                     PROVE  i = j
            BY <1>1 DEF Distinct
        <2>1. s[i] = s[j] /\ s[i] # STOP
            BY <1>1
        <2>2. QED BY <2>1, <1>4 DEF Distinct
    <1>6. Distinct(rest)
        <2> SUFFICES ASSUME NEW i \in 1..(Len(s) - m), NEW j \in 1..(Len(s) - m),
                            rest[i] = rest[j], rest[i] # STOP
                     PROVE  i = j
            BY <1>2 DEF Distinct
        <2>1. rest[i] = s[m + i] /\ rest[j] = s[m + j]
            BY <1>2
        <2>2. m + i = m + j
            BY <2>1, <1>3 DEF Distinct
        <2>3. QED BY <2>2, <1>0
    <1>7. \A x \in Range(front) : \E i \in 1..n : s[i] = x
        <2> TAKE x \in Range(front)
        <2>1. PICK i \in 1..n : front[i] = x
            BY <1>1, InRange
        <2>2. QED BY <2>1, <1>1
    <1>8. \A x \in Range(rest) : \E i \in 1..(Len(s) - m) : s[m + i] = x
        <2> TAKE x \in Range(rest)
        <2>1. PICK i \in 1..(Len(s) - m) : rest[i] = x
            BY <1>2, InRange
        <2>2. QED BY <2>1, <1>2
    <1>9. STOP \notin Range(front)
        BY <1>7
    <1>10. Range(front) \cap Range(rest) = {}
        <2> SUFFICES ASSUME NEW x \in Range(front), x \in Range(rest) PROVE FALSE
            OBVIOUS
        <2>1. PICK i \in 1..n : s[i] = x
            BY <1>7
        <2>2. PICK j \in 1..(Len(s) - m) : s[m + j] = x
            BY <1>8
        <2>3. i \in 1..Len(s) /\ m + j \in 1..Len(s) /\ i # m + j
            BY <1>3, <1>4
        <2>4. s[i] # STOP
            OBVIOUS
        <2>5. QED BY <2>1, <2>2, <2>3, <2>4 DEF Distinct
    <1>11. Range(s) \ {STOP} = Range(front) \cup (Range(rest) \ {STOP})
        <2>1. ASSUME NEW x \in Range(s), x # STOP
              PROVE  x \in Range(front) \/ x \in Range(rest)
            <3>1. PICK i \in 1..Len(s) : s[i] = x
                BY InRange
            <3>2. CASE i <= n
                <4>1. i \in 1..n /\ front[i] = x
                    BY <3>1, <3>2, <1>1
                <4>2. QED BY <4>1, <1>1, InRange
            <3>3. CASE i > m
                <4>1. i - m \in 1..(Len(s) - m) /\ m + (i - m) = i
                    BY <3>3, <1>0
                <4>2. rest[i - m] = x
                    BY <4>1, <3>1, <1>2
                <4>3. QED BY <4>1, <4>2, <1>2, InRange
            <3>4. i <= n \/ i > m
                BY <3>1, <2>1, <1>0
            <3>5. QED BY <3>2, <3>3, <3>4
        <2>2. ASSUME NEW x \in Range(front) PROVE x \in Range(s)
            <3>1. PICK i \in 1..n : s[i] = x
                BY <1>7
            <3>2. QED BY <3>1, <1>4, InRange
        <2>3. ASSUME NEW x \in Range(rest) PROVE x \in Range(s)
            <3>1. PICK j \in 1..(Len(s) - m) : s[m + j] = x
                BY <1>8
            <3>2. QED BY <3>1, <1>3, InRange
        <2>4. QED BY <2>1, <2>2, <2>3, <1>9
    <1>12. QED BY <1>1, <1>2, <1>5, <1>6, <1>9, <1>10, <1>11 DEF front, rest

(* Joining two disjoint sequences without repetition.                      *)
LEMMA JoinDistinct ==
    ASSUME NEW s \in Seq(Nat), NEW t \in Seq(Nat), Distinct(s), Distinct(t),
           Range(s) \cap Range(t) \subseteq {STOP}
    PROVE  /\ s \o t \in Seq(Nat)
           /\ Len(s \o t) = Len(s) + Len(t)
           /\ Distinct(s \o t)
           /\ Range(s \o t) = Range(s) \cup Range(t)
    <1>1. /\ s \o t \in Seq(Nat)
          /\ Len(s \o t) = Len(s) + Len(t)
          /\ \A i \in 1..(Len(s) + Len(t)) : (s \o t)[i] =
                IF i <= Len(s) THEN s[i] ELSE t[i - Len(s)]
        BY ConcatProperties
    <1>2. Range(s \o t) = Range(s) \cup Range(t)
        BY RangeConcatenation
    <1>3. Distinct(s \o t)
        <2> SUFFICES ASSUME NEW i \in 1..(Len(s) + Len(t)), NEW j \in 1..(Len(s) + Len(t)),
                            (s \o t)[i] = (s \o t)[j], (s \o t)[i] # STOP
                     PROVE  i = j
            BY <1>1 DEF Distinct
        <2>1. CASE i <= Len(s) /\ j <= Len(s)
            BY <2>1, <1>1, InRange DEF Distinct
        <2>2. CASE i > Len(s) /\ j > Len(s)
            <3>1. /\ i - Len(s) \in 1..Len(t) /\ j - Len(s) \in 1..Len(t)
                  /\ t[i - Len(s)] = t[j - Len(s)] /\ t[i - Len(s)] # STOP
                BY <2>2, <1>1, InRange
            <3>2. i - Len(s) = j - Len(s)
                BY <3>1 DEF Distinct
            <3>3. QED BY <3>2, InRange
        <2>3. CASE i <= Len(s) /\ j > Len(s)
            <3>0. /\ i \in 1..Len(s) /\ j - Len(s) \in 1..Len(t)
                  /\ (s \o t)[i] = s[i] /\ (s \o t)[j] = t[j - Len(s)]
                BY <2>3, <1>1, InRange
            <3>1. s[i] \in Range(s) /\ t[j - Len(s)] \in Range(t) /\ s[i] = t[j - Len(s)]
                BY <3>0, InRange
            <3>2. QED BY <3>1, <2>3, <1>1
        <2>4. CASE i > Len(s) /\ j <= Len(s)
            <3>0. /\ j \in 1..Len(s) /\ i - Len(s) \in 1..Len(t)
                  /\ (s \o t)[j] = s[j] /\ (s \o t)[i] = t[i - Len(s)]
                BY <2>4, <1>1, InRange
            <3>1. s[j] \in Range(s) /\ t[i - Len(s)] \in Range(t) /\ s[j] = t[i - Len(s)]
                BY <3>0, InRange
            <3>2. QED BY <3>1, <2>4, <1>1
        <2>5. QED BY <2>1, <2>2, <2>3, <2>4, InRange
    <1>4. QED BY <1>1, <1>2, <1>3
-----------------------------------------------------------------------------
(* The partition of the accepted frames 1..a between the queue Q, the      *)
(* workers' hands H, the table T and the discarded frames D.               *)
Partition(a, Q, H, T, D) ==
    /\ \A f : f \in 1..a <=> f \in Q \/ f \in T \/ f \in D \/ \E w \in Tasks : f \in H[w]
    /\ \A f \in Q : f \notin T /\ f \notin D
    /\ \A w \in Tasks : \A f \in H[w] : f \notin Q /\ f \notin T /\ f \notin D
    /\ \A v, w \in Tasks : v # w => \A f \in H[v] : f \notin H[w]
    /\ \A f \in T : f \notin D

Hands == [w \in Tasks |-> Held(w)]

LEMMA PartitionIff ==
    EveryFrameInOnePlace <=> Partition(accepted, Queued, Hands, Range(table), discarded)
    <1> DEFINE H == UNION {Held(w) : w \in Tasks}
    <1>1. \A f : f \in H <=> \E w \in Tasks : f \in Held(w)
        OBVIOUS
    <1>2. \A w \in Tasks : Hands[w] = Held(w)
        BY DEF Hands
    <1>3. (1..accepted = Queued \cup H \cup Range(table) \cup discarded)
          <=> \A f : f \in 1..accepted
                <=> f \in Queued \/ f \in Range(table) \/ f \in discarded
                    \/ \E w \in Tasks : f \in Hands[w]
        BY <1>1, <1>2
    <1> HIDE DEF H
    <1>4. EveryFrameInOnePlace <=>
            /\ 1..accepted = Queued \cup H \cup Range(table) \cup discarded
            /\ Queued \cap (Range(table) \cup discarded) = {}
            /\ \A w \in Tasks : Held(w) \cap (Queued \cup Range(table) \cup discarded) = {}
            /\ \A v, w \in Tasks : v # w => Held(v) \cap Held(w) = {}
            /\ Range(table) \cap discarded = {}
        BY Zenon DEF EveryFrameInOnePlace, H
    <1>5. /\ Queued \cap (Range(table) \cup discarded) = {}
            <=> \A f \in Queued : f \notin Range(table) /\ f \notin discarded
          /\ Range(table) \cap discarded = {}
            <=> \A f \in Range(table) : f \notin discarded
        OBVIOUS
    <1>6. ASSUME NEW w \in Tasks
          PROVE  Held(w) \cap (Queued \cup Range(table) \cup discarded) = {}
                   <=> \A f \in Hands[w] : /\ f \notin Queued
                                           /\ f \notin Range(table)
                                           /\ f \notin discarded
        BY <1>2
    <1>7. ASSUME NEW v \in Tasks, NEW w \in Tasks
          PROVE  Held(v) \cap Held(w) = {} <=> \A f \in Hands[v] : f \notin Hands[w]
        BY <1>2
    <1>8. (\A w \in Tasks : Held(w) \cap (Queued \cup Range(table) \cup discarded) = {})
            <=> \A w \in Tasks : \A f \in Hands[w] : /\ f \notin Queued
                                                    /\ f \notin Range(table)
                                                    /\ f \notin discarded
        BY ONLY <1>6
    <1>9. (\A v, w \in Tasks : v # w => Held(v) \cap Held(w) = {})
            <=> \A v, w \in Tasks : v # w => \A f \in Hands[v] : f \notin Hands[w]
        BY ONLY <1>7
    <1>10. QED BY ONLY <1>3, <1>4, <1>5, <1>8, <1>9, Zenon DEF Partition

LEMMA PartitionGrows ==
    ASSUME NEW a \in Nat, NEW n \in Nat, NEW Q, NEW H, NEW T, NEW D,
           Partition(a, Q, H, T, D)
    PROVE  Partition(a + n, Q \cup (a + 1)..(a + n), H, T, D)
    BY DEF Partition
-----------------------------------------------------------------------------
LEMMA InitIInv == Init => IInv
    <1> SUFFICES ASSUME Init PROVE IInv
        OBVIOUS
    <1> USE IngestionConstants DEF Init, NoTask
    <1>1. ControlOK
        <2>1. accepted \in 0..MaxFrames /\ mark \in [Callers -> 0..accepted]
            OBVIOUS
        <2>2. /\ workerTask \in Tasks \cup {NoTask} /\ stopped \in BOOLEAN
              /\ awaiting \in [Callers -> Tasks \cup {NoTask}]
            OBVIOUS
        <2>3. pc \in [Tasks -> {"unborn", "created", "get", "got", "flush", "done"}]
            OBVIOUS
        <2>4. QED BY <2>1, <2>2, <2>3 DEF ControlOK
    <1>2. Range(<< >>) = {}
        BY DEF Range
    <1>3. SequencesOK
        BY DEF SequencesOK, Distinct
    <1>4. HandOK
        BY DEF HandOK, Distinct
    <1>5. EveryFrameInOnePlace
        <2>1. Queued = {} /\ \A w \in Tasks : Hands[w] = {}
            BY <1>2 DEF Queued, Held, Hands
        <2>2. Partition(0, {}, Hands, {}, {})
            BY <2>1 DEF Partition
        <2>3. QED BY <1>2, <2>1, <2>2, PartitionIff
    <1>6. QED BY <1>1, <1>3, <1>4, <1>5 DEF IInv

(* IInv seen from its parts.                                               *)
LEMMA IInvTypes == IInv => TypeOK
    <1> SUFFICES ASSUME IInv PROVE TypeOK
        OBVIOUS
    <1>1. accepted \in Nat
        BY IngestionConstants DEF IInv, ControlOK
    <1>2. Partition(accepted, Queued, Hands, Range(table), discarded)
        BY PartitionIff DEF IInv
    <1>3. \A s \in Seq(Nat) : \A T : Range(s) \subseteq T => s \in Seq(T)
        BY SeqOfRange, SeqMonotonic
    <1>4. queue \in Seq(0..accepted)
        <2>1. Range(queue) \subseteq 0..accepted
            BY <1>1, <1>2 DEF Partition, Queued, STOP
        <2>2. QED BY <1>3, <2>1 DEF IInv, SequencesOK
    <1>5. hand \in [Tasks -> Seq(0..accepted)]
        <2> SUFFICES ASSUME NEW w \in Tasks PROVE hand[w] \in Seq(0..accepted)
            BY DEF IInv, SequencesOK
        <2>1. Range(hand[w]) \subseteq 0..accepted
            BY <1>1, <1>2 DEF Partition, Hands, Held, STOP
        <2>2. QED BY <1>3, <2>1 DEF IInv, SequencesOK
    <1>6. table \in Seq(1..accepted) /\ discarded \in SUBSET (1..accepted)
        <2>1. Range(table) \subseteq 1..accepted /\ discarded \subseteq 1..accepted
            BY <1>2 DEF Partition
        <2>2. QED BY <1>3, <2>1 DEF IInv, SequencesOK
    <1>7. QED BY <1>4, <1>5, <1>6 DEF IInv, ControlOK, TypeOK
-----------------------------------------------------------------------------
LEMMA PartitionIffNext ==
    EveryFrameInOnePlace' <=>
        Partition(accepted', Queued', Hands', Range(table'), discarded')
    <1>1. (EveryFrameInOnePlace
             <=> Partition(accepted, Queued, Hands, Range(table), discarded))'
        BY PartitionIff, PTL
    <1>2. QED BY <1>1

(* What each action does to the places of the frames, as sets.             *)
LEMMA PlacesOf ==
    /\ Queued = Range(queue) \ {STOP} /\ Queued' = Range(queue') \ {STOP}
    /\ \A w \in Tasks : /\ Hands[w] = Range(hand[w]) \ {STOP}
                        /\ Hands'[w] = Range(hand'[w]) \ {STOP}
    BY DEF Queued, Hands, Held

LEMMA EmptyRange == Range(<< >>) = {}
    BY DEF Range

LEMMA EnqueueIInv ==
    ASSUME IInv, NEW n \in 1..MaxPost, Enqueue(n)
    PROVE  IInv'
    <1> DEFINE new == [i \in 1..n |-> accepted + i]
    <1> USE DEF Enqueue, workerVars, callerVars
    <1>0. n \in Nat /\ accepted \in Nat /\ MaxFrames \in Nat
        BY IngestionConstants DEF IInv, ControlOK
    <1>1. /\ new \in Seq(Nat) /\ Len(new) = n
          /\ \A i \in 1..n : new[i] = accepted + i
        <2>1. new \in [1..n -> Nat]
            BY <1>0
        <2>2. new \in Seq(Nat) /\ DOMAIN new = 1..n
            BY <1>0, <2>1, SeqDef
        <2>3. QED BY <1>0, <2>2, LenProperties
    <1>2. Range(new) = (accepted + 1)..(accepted + n)
        <2>1. ASSUME NEW f \in Range(new) PROVE f \in (accepted + 1)..(accepted + n)
            <3>1. PICK i \in 1..n : new[i] = f
                BY <1>1, InRange
            <3>2. QED BY <3>1, <1>0, <1>1
        <2>2. ASSUME NEW f \in (accepted + 1)..(accepted + n) PROVE f \in Range(new)
            <3>1. f - accepted \in 1..n /\ accepted + (f - accepted) = f
                BY <1>0
            <3>2. new[f - accepted] = f
                BY <3>1, <1>1
            <3>3. QED BY <3>1, <3>2, <1>1, InRange
        <2>3. QED BY <2>1, <2>2
    <1>3. Distinct(new)
        BY <1>0, <1>1 DEF Distinct
    <1>4. ControlOK'
        BY <1>0 DEF IInv, ControlOK
    <1>5. Partition(accepted, Queued, Hands, Range(table), discarded)
        BY PartitionIff DEF IInv
    <1> HIDE DEF new
    <1>6. queue' = queue \o new
        BY DEF new
    <1>7. /\ queue' \in Seq(Nat) /\ Distinct(queue')
          /\ Range(queue') = Range(queue) \cup Range(new)
        <2>1. \A f \in Range(queue) : f # STOP => f \in 1..accepted
            BY <1>5, PlacesOf DEF Partition
        <2>2. Range(queue) \cap Range(new) \subseteq {STOP}
            BY <2>1, <1>0, <1>2
        <2>3. QED BY <2>2, <1>1, <1>3, <1>6, JoinDistinct DEF IInv, SequencesOK
    <1>8. SequencesOK'
        BY <1>7 DEF IInv, SequencesOK
    <1>9. HandOK'
        BY DEF IInv, HandOK
    <1>10. Partition(accepted', Queued', Hands', Range(table'), discarded')
        <2>1. Queued' = Queued \cup (accepted + 1)..(accepted + n)
            BY <1>0, <1>2, <1>7, PlacesOf DEF STOP
        <2>2. Hands' = Hands
            BY DEF Hands, Held
        <2>3. QED BY <2>1, <2>2, <1>0, <1>5, PartitionGrows
    <1>11. QED BY <1>4, <1>8, <1>9, <1>10, PartitionIffNext DEF IInv

(* The actions that leave the frames where they are.                       *)
LEMMA FramesStay ==
    ASSUME IInv, UNCHANGED <<queue, hand, deliveryVars>>
    PROVE  SequencesOK' /\ EveryFrameInOnePlace'
    <1>1. SequencesOK'
        BY DEF IInv, SequencesOK, deliveryVars
    <1>2. Queued' = Queued /\ Hands' = Hands
        BY DEF Queued, Hands, Held
    <1>3. QED BY <1>1, <1>2, PartitionIff, PartitionIffNext DEF IInv, deliveryVars

LEMMA CallerIInv ==
    ASSUME IInv, NEW c \in Callers, Start(c) \/ StopNoWorker(c) \/ StopReturn(c)
    PROVE  IInv'
    <1> USE DEF callerVars, deliveryVars
    <1>1. UNCHANGED <<queue, hand, deliveryVars>>
        BY DEF Start, StopNoWorker, StopReturn
    <1>2. ControlOK'
        BY DEF IInv, ControlOK, Start, StopNoWorker, StopReturn
    <1>3. HandOK'
        BY DEF IInv, ControlOK, HandOK, Start, StopNoWorker, StopReturn
    <1>4. QED BY <1>1, <1>2, <1>3, FramesStay DEF IInv

LEMMA RetryIInv ==
    ASSUME IInv, NEW w \in Tasks, Retry(w)
    PROVE  IInv'
    <1> USE DEF callerVars, deliveryVars, LoopHead
    <1>1. UNCHANGED <<queue, hand, deliveryVars>>
        BY DEF Retry
    <1>2. ControlOK'
        BY DEF IInv, ControlOK, Retry
    <1>3. HandOK'
        BY DEF IInv, ControlOK, HandOK, Retry
    <1>4. QED BY <1>1, <1>2, <1>3, FramesStay DEF IInv

LEMMA StopRequestIInv ==
    ASSUME IInv, NEW c \in Callers, StopRequest(c)
    PROVE  IInv'
    <1> USE DEF StopRequest, workerVars, deliveryVars
    <1>0. queue \in Seq(Nat) /\ Distinct(queue) /\ STOP \in Nat
        BY DEF IInv, SequencesOK, STOP
    <1>1. ControlOK'
        <2>1. accepted \in Nat /\ accepted \in 0..accepted
            BY IngestionConstants DEF IInv, ControlOK
        <2>2. QED BY <2>1 DEF IInv, ControlOK
    <1>2. /\ <<STOP>> \in Seq(Nat) /\ Range(<<STOP>>) = {STOP}
          /\ Distinct(<<STOP>>)
        BY <1>0 DEF Range, Distinct
    <1>3. queue' = queue \o <<STOP>>
        BY <1>0, AppendIsConcat
    <1>4. /\ queue' \in Seq(Nat) /\ Distinct(queue')
          /\ Range(queue') = Range(queue) \cup {STOP}
        BY <1>0, <1>2, <1>3, JoinDistinct
    <1>5. SequencesOK'
        BY <1>4 DEF IInv, SequencesOK
    <1>6. HandOK'
        BY DEF IInv, HandOK
    <1>7. Queued' = Queued /\ Hands' = Hands
        BY <1>4 DEF Queued, Hands, Held
    <1>8. QED BY <1>1, <1>5, <1>6, <1>7, PartitionIff, PartitionIffNext DEF IInv

LEMMA HeadTailDistinct ==
    ASSUME NEW s \in Seq(Nat), s # << >>, Distinct(s)
    PROVE  /\ Tail(s) \in Seq(Nat) /\ Distinct(Tail(s))
           /\ Head(s) \in Nat
           /\ Range(s) = {Head(s)} \cup Range(Tail(s))
           /\ Head(s) # STOP => Head(s) \notin Range(Tail(s))
    <1>1. /\ Tail(s) \in Seq(Nat) /\ Head(s) \in Nat
          /\ Len(Tail(s)) = Len(s) - 1
          /\ \A i \in 1..Len(Tail(s)) : Tail(s)[i] = s[i + 1]
        BY HeadTailProperties
    <1>2. Len(s) \in Nat \ {0} /\ Head(s) = s[1]
        BY EmptySeq
    <1>3. \A i \in 1..(Len(s) - 1) : /\ Tail(s)[i] = s[i + 1]
                                    /\ i + 1 \in 1..Len(s) /\ i + 1 # 1
        BY <1>1, <1>2
    <1>4. Distinct(Tail(s))
        <2> SUFFICES ASSUME NEW i \in 1..(Len(s) - 1), NEW j \in 1..(Len(s) - 1),
                            Tail(s)[i] = Tail(s)[j], Tail(s)[i] # STOP
                     PROVE  i = j
            BY <1>1 DEF Distinct
        <2>1. s[i + 1] = s[j + 1] /\ s[i + 1] # STOP
            BY <1>3
        <2>2. i + 1 = j + 1
            BY <1>3, <2>1 DEF Distinct
        <2>3. QED BY <2>2, <1>2
    <1>5. \A f \in Range(Tail(s)) : \E i \in 1..(Len(s) - 1) : s[i + 1] = f
        <2> TAKE f \in Range(Tail(s))
        <2>1. PICK i \in 1..(Len(s) - 1) : Tail(s)[i] = f
            BY <1>1, InRange
        <2>2. QED BY <2>1, <1>3
    <1>6. Range(s) = {Head(s)} \cup Range(Tail(s))
        <2>1. ASSUME NEW f \in Range(s), f # Head(s) PROVE f \in Range(Tail(s))
            <3>1. PICK i \in 1..Len(s) : s[i] = f
                BY InRange
            <3>2. i - 1 \in 1..(Len(s) - 1) /\ (i - 1) + 1 = i
                BY <1>2, <2>1, <3>1
            <3>3. Tail(s)[i - 1] = f
                BY <1>3, <3>1, <3>2
            <3>4. QED BY <3>2, <3>3, <1>1, InRange
        <2>2. ASSUME NEW f \in Range(Tail(s)) PROVE f \in Range(s)
            <3>1. PICK i \in 1..(Len(s) - 1) : s[i + 1] = f
                BY <1>5
            <3>2. QED BY <3>1, <1>3, InRange
        <2>3. Head(s) \in Range(s)
            BY <1>2, InRange
        <2>4. QED BY <2>1, <2>2, <2>3
    <1>7. ASSUME Head(s) # STOP, Head(s) \in Range(Tail(s)) PROVE FALSE
        <2>1. PICK i \in 1..(Len(s) - 1) : s[i + 1] = Head(s)
            BY <1>5, <1>7
        <2>2. 1 \in 1..Len(s) /\ s[1] = s[i + 1] /\ s[1] # STOP
            BY <2>1, <1>2, <1>7
        <2>3. QED BY <2>2, <1>3 DEF Distinct
    <1>8. QED BY <1>1, <1>4, <1>6, <1>7

LEMMA DequeueIInv ==
    ASSUME IInv, NEW w \in Tasks, Dequeue(w)
    PROVE  IInv'
    <1> USE DEF Dequeue, callerVars, deliveryVars
    <1> DEFINE item == Head(queue)
    <1>1. /\ queue' \in Seq(Nat) /\ Distinct(queue') /\ item \in Nat
          /\ Range(queue) = {item} \cup Range(queue')
          /\ item # STOP => item \notin Range(queue')
        BY HeadTailDistinct DEF IInv, SequencesOK
    <1>2. /\ hand \in [Tasks -> Seq(Nat)] /\ hand[w] = << >>
          /\ pc \in [Tasks -> {"unborn", "created", "get", "got", "flush", "done"}]
        BY DEF IInv, ControlOK, SequencesOK, HandOK
    <1>3. hand' = [hand EXCEPT ![w] = <<item>>]
        OBVIOUS
    <1> HIDE DEF item
    <1>4. /\ <<item>> \in Seq(Nat) /\ Range(<<item>>) = {item}
          /\ Distinct(<<item>>) /\ Len(<<item>>) = 1
        BY <1>1 DEF Range, Distinct
    <1>5. ControlOK'
        BY DEF IInv, ControlOK
    <1>6. SequencesOK'
        BY <1>1, <1>2, <1>3, <1>4 DEF IInv, SequencesOK
    <1>7. HandOK'
        <2> SUFFICES ASSUME NEW v \in Tasks
                     PROVE  /\ pc'[v] \notin {"got", "flush"} => hand'[v] = << >>
                            /\ pc'[v] = "got" => Len(hand'[v]) = 1
                            /\ pc'[v] = "flush" => STOP \notin Range(hand'[v])
                            /\ Distinct(hand'[v])
            BY DEF HandOK, Distinct
        <2>1. CASE v = w
            BY <2>1, <1>2, <1>3, <1>4
        <2>2. CASE v # w
            BY <2>2, <1>2, <1>3 DEF IInv, HandOK
        <2>3. QED BY <2>1, <2>2
    <1>8. Partition(accepted', Queued', Hands', Range(table'), discarded')
        <2> DEFINE X == {item} \ {STOP}
        <2>1. Queued = Queued' \cup X /\ Queued' \cap X = {}
            BY <1>1, PlacesOf
        <2>a. /\ hand'[w] = <<item>> /\ hand[w] = << >>
              /\ \A v \in Tasks : v # w => hand'[v] = hand[v]
            BY <1>2, <1>3
        <2>2. /\ Hands'[w] = Hands[w] \cup X
              /\ \A v \in Tasks : v # w => Hands'[v] = Hands[v]
            <3>1. Hands'[w] = X /\ Hands[w] = {}
                BY ONLY <2>a, <1>4, EmptyRange, PlacesOf
            <3>2. \A v \in Tasks : v # w => Hands'[v] = Hands[v]
                BY ONLY <2>a, PlacesOf
            <3>3. QED BY ONLY <3>1, <3>2
        <2> HIDE DEF X
        <2>3. Partition(accepted, Queued, Hands, Range(table), discarded)
            BY PartitionIff DEF IInv
        <2>4. accepted' = accepted /\ table' = table /\ discarded' = discarded
            OBVIOUS
        <2> HIDE DEF Dequeue
        <2>5. Partition(accepted, Queued', Hands', Range(table), discarded)
            BY <2>1, <2>2, <2>3 DEF Partition
        <2>6. QED BY ONLY <2>4, <2>5
    <1>9. QED BY <1>5, <1>6, <1>7, <1>8, PartitionIffNext DEF IInv

LEMMA GotStopIInv ==
    ASSUME IInv, NEW w \in Tasks, GotStop(w)
    PROVE  IInv'
    <1> USE DEF GotStop, callerVars, deliveryVars
    <1>1. /\ hand \in [Tasks -> Seq(Nat)] /\ hand[w] = <<STOP>>
          /\ pc \in [Tasks -> {"unborn", "created", "get", "got", "flush", "done"}]
        BY DEF IInv, ControlOK, SequencesOK
    <1>2. << >> \in Seq(Nat) /\ Distinct(<< >>) /\ Range(<<STOP>>) = {STOP}
        BY DEF Distinct, Range
    <1>3. ControlOK'
        BY DEF IInv, ControlOK
    <1>4. SequencesOK'
        BY <1>1, <1>2 DEF IInv, SequencesOK
    <1>5. HandOK'
        BY <1>1, <1>2, EmptyRange DEF IInv, HandOK, Distinct
    <1>6. Partition(accepted', Queued', Hands', Range(table'), discarded')
        <2>1. Queued' = Queued
            BY DEF Queued
        <2>a. /\ hand'[w] = << >> /\ hand[w] = <<STOP>>
              /\ \A v \in Tasks : v # w => hand'[v] = hand[v]
            BY <1>1
        <2>2. \A v \in Tasks : Hands'[v] = Hands[v]
            <3>1. Hands'[w] = {} /\ Hands[w] = {}
                BY ONLY <2>a, <1>2, EmptyRange, PlacesOf
            <3>2. QED BY ONLY <2>a, <3>1, PlacesOf
        <2>3. Partition(accepted, Queued, Hands, Range(table), discarded)
            BY PartitionIff DEF IInv
        <2>4. QED BY <2>1, <2>2, <2>3 DEF Partition
    <1>7. QED BY <1>3, <1>4, <1>5, <1>6, PartitionIffNext DEF IInv

LEMMA GotFrameIInv ==
    ASSUME IInv, NEW w \in Tasks, GotFrame(w)
    PROVE  IInv'
    <1> USE DEF callerVars, deliveryVars
    <1>1. /\ hand \in [Tasks -> Seq(Nat)] /\ Len(hand[w]) = 1 /\ hand[w] # <<STOP>>
          /\ pc \in [Tasks -> {"unborn", "created", "get", "got", "flush", "done"}]
          /\ queue \in Seq(Nat) /\ Distinct(queue) /\ Distinct(hand[w])
        BY DEF IInv, ControlOK, SequencesOK, HandOK, GotFrame
    <1>2. PICK n \in 0..(BatchSize - 1) :
            /\ Takes(n)
            /\ hand' = [hand EXCEPT ![w] = @ \o SubSeq(queue, 1, n)]
            /\ IF n < BatchSize - 1 /\ n < Len(queue)
               THEN /\ queue' = SubSeq(queue, n + 2, Len(queue))
                    /\ stopped' = TRUE
               ELSE /\ queue' = SubSeq(queue, n + 1, Len(queue))
                    /\ UNCHANGED stopped
        BY DEF GotFrame
    <1>3. /\ pc' = [pc EXCEPT ![w] = "flush"]
          /\ UNCHANGED <<workerTask, awaiting, mark, accepted, table, discarded>>
        BY DEF GotFrame
    <1> DEFINE m == IF n < BatchSize - 1 /\ n < Len(queue) THEN n + 1 ELSE n
    <1> DEFINE front == SubSeq(queue, 1, n)
    <1>4. /\ n \in 0..Len(queue) /\ m \in n..Len(queue)
          /\ \A i \in 1..n : queue[i] # STOP
          /\ \A i \in (n + 1)..m : queue[i] = STOP
          /\ queue' = SubSeq(queue, m + 1, Len(queue))
        <2>1. BatchSize \in Nat \ {0} /\ Len(queue) \in Nat
            BY <1>1, IngestionConstants
        <2>2. n <= Len(queue) /\ \A i \in 1..n : queue[i] # STOP
            BY <1>2 DEF Takes
        <2>3. CASE n < BatchSize - 1 /\ n < Len(queue)
            <3>1. m = n + 1 /\ queue[n + 1] = STOP
                BY <2>3, <1>2 DEF Takes
            <3>2. queue' = SubSeq(queue, n + 2, Len(queue)) /\ m + 1 = n + 2
                BY <2>3, <1>2, <3>1
            <3>3. QED BY <2>1, <2>2, <2>3, <3>1, <3>2
        <2>4. CASE ~(n < BatchSize - 1 /\ n < Len(queue))
            BY <2>1, <2>2, <2>4, <1>2
        <2>5. QED BY <2>3, <2>4
    <1> HIDE DEF m
    <1>5. /\ front \in Seq(Nat) /\ queue' \in Seq(Nat)
          /\ Distinct(front) /\ Distinct(queue')
          /\ STOP \notin Range(front)
          /\ Range(front) \cap Range(queue') = {}
          /\ Queued = Range(front) \cup Queued'
        BY <1>1, <1>4, SplitDistinct, PlacesOf
    <1> HIDE DEF front
    <1>6. Partition(accepted, Queued, Hands, Range(table), discarded)
        BY PartitionIff DEF IInv
    <1>7. STOP \notin Range(hand[w])
        <2> SUFFICES ASSUME STOP \in Range(hand[w]) PROVE FALSE
            OBVIOUS
        <2>1. PICK i \in 1..Len(hand[w]) : hand[w][i] = STOP
            BY <1>1, InRange
        <2>2. hand[w][1] = STOP
            BY <2>1, <1>1
        <2>3. QED BY <2>2, <1>1
    <1>8. /\ hand[w] \o front \in Seq(Nat)
          /\ Distinct(hand[w] \o front)
          /\ Range(hand[w] \o front) = Range(hand[w]) \cup Range(front)
        <2>1. Range(hand[w]) \cap Range(front) \subseteq {STOP}
            BY <1>5, <1>6, <1>7, PlacesOf DEF Partition
        <2>2. QED BY <2>1, <1>1, <1>5, JoinDistinct
    <1>9. hand' = [hand EXCEPT ![w] = hand[w] \o front]
        BY <1>2 DEF front
    <1>10. ControlOK'
        BY <1>2, <1>3 DEF IInv, ControlOK
    <1>11. SequencesOK'
        BY <1>1, <1>3, <1>5, <1>8, <1>9 DEF IInv, SequencesOK
    <1>12. HandOK'
        <2> SUFFICES ASSUME NEW v \in Tasks
                     PROVE  /\ pc'[v] \notin {"got", "flush"} => hand'[v] = << >>
                            /\ pc'[v] = "got" => Len(hand'[v]) = 1
                            /\ pc'[v] = "flush" => STOP \notin Range(hand'[v])
                            /\ Distinct(hand'[v])
            BY DEF HandOK, Distinct
        <2>1. CASE v = w
            BY <2>1, <1>1, <1>3, <1>5, <1>7, <1>8, <1>9
        <2>2. CASE v # w
            BY <2>2, <1>1, <1>3, <1>9 DEF IInv, HandOK
        <2>3. QED BY <2>1, <2>2
    <1>13. Partition(accepted', Queued', Hands', Range(table'), discarded')
        <2>1. /\ Hands'[w] = Hands[w] \cup Range(front)
              /\ \A v \in Tasks : v # w => Hands'[v] = Hands[v]
            BY <1>1, <1>5, <1>8, <1>9, PlacesOf
        <2>2. Queued' \cap Range(front) = {}
            BY <1>5, PlacesOf
        <2>3. QED BY <2>1, <2>2, <1>3, <1>5, <1>6 DEF Partition
    <1>14. QED BY <1>10, <1>11, <1>12, <1>13, PartitionIffNext DEF IInv

(* A batch that leaves the hand of w, to the table or to the discarded.    *)
LEMMA FlushIInv ==
    ASSUME IInv, NEW w \in Tasks, pc[w] = "flush",
           hand' = [hand EXCEPT ![w] = << >>],
           pc' = [pc EXCEPT ![w] = LoopHead(stopped)],
           UNCHANGED <<queue, workerTask, stopped, callerVars, accepted>>,
           \/ discarded' = discarded \cup Range(hand[w]) /\ table' = table
           \/ table' = table \o hand[w] /\ discarded' = discarded
    PROVE  IInv'
    <1> USE DEF callerVars, LoopHead
    <1>1. /\ hand \in [Tasks -> Seq(Nat)] /\ Distinct(hand[w])
          /\ STOP \notin Range(hand[w])
          /\ pc \in [Tasks -> {"unborn", "created", "get", "got", "flush", "done"}]
          /\ table \in Seq(Nat) /\ Distinct(table)
        BY DEF IInv, ControlOK, SequencesOK, HandOK
    <1>2. << >> \in Seq(Nat) /\ Distinct(<< >>)
        BY DEF Distinct
    <1>3. Partition(accepted, Queued, Hands, Range(table), discarded)
        BY PartitionIff DEF IInv
    <1>4. /\ table \o hand[w] \in Seq(Nat) /\ Distinct(table \o hand[w])
          /\ Range(table \o hand[w]) = Range(table) \cup Range(hand[w])
        <2>1. Range(table) \cap Range(hand[w]) \subseteq {STOP}
            BY <1>1, <1>3, PlacesOf DEF Partition
        <2>2. QED BY <2>1, <1>1, JoinDistinct
    <1>5. ControlOK'
        BY DEF IInv, ControlOK
    <1>6. SequencesOK'
        BY <1>1, <1>2, <1>4 DEF IInv, SequencesOK
    <1>7. HandOK'
        BY <1>1, <1>2, EmptyRange DEF IInv, HandOK, Distinct
    <1>8. Partition(accepted', Queued', Hands', Range(table'), discarded')
        <2>1. /\ Hands'[w] = {} /\ Hands[w] = Range(hand[w])
              /\ \A v \in Tasks : v # w => Hands'[v] = Hands[v]
              /\ Queued' = Queued
            <3>1. /\ hand'[w] = << >>
                  /\ \A v \in Tasks : v # w => hand'[v] = hand[v]
                BY <1>1
            <3>2. Queued' = Queued
                BY DEF Queued
            <3>3. Hands'[w] = {} /\ Hands[w] = Range(hand[w])
                <4>1. Range(hand'[w]) = {}
                    BY <3>1, EmptyRange, Zenon
                <4>2. /\ Hands'[w] = Range(hand'[w]) \ {STOP}
                      /\ Hands[w] = Range(hand[w]) \ {STOP}
                    BY PlacesOf
                <4>3. STOP \notin Range(hand[w])
                    BY <1>1
                <4>4. QED BY ONLY <4>1, <4>2, <4>3
            <3>4. \A v \in Tasks : v # w => Hands'[v] = Hands[v]
                BY <3>1, PlacesOf
            <3>5. QED BY <3>2, <3>3, <3>4
        <2>2. \/ /\ discarded' = discarded \cup Hands[w]
                 /\ Range(table') = Range(table)
              \/ /\ Range(table') = Range(table) \cup Hands[w]
                 /\ discarded' = discarded
            BY <1>4, <2>1
        <2>3. QED BY <2>1, <2>2, <1>3 DEF Partition
    <1>9. QED BY <1>5, <1>6, <1>7, <1>8, PartitionIffNext DEF IInv
-----------------------------------------------------------------------------
(* Every step of the specification, one case per action, keeps IInv.       *)
LEMMA StepIInv == IInv /\ [Next]_vars => IInv'
    <1> SUFFICES ASSUME IInv, [Next]_vars PROVE IInv'
        OBVIOUS
    <1>1. ASSUME NEW n \in 1..MaxPost, Enqueue(n) PROVE IInv'
        BY <1>1, EnqueueIInv
    <1>2. ASSUME NEW c \in Callers, Start(c) \/ StopNoWorker(c) \/ StopReturn(c)
          PROVE  IInv'
        BY <1>2, CallerIInv
    <1>3. ASSUME NEW c \in Callers, StopRequest(c) PROVE IInv'
        BY <1>3, StopRequestIInv
    <1>4. ASSUME NEW w \in Tasks, Worker(w) PROVE IInv'
        <2>1. CASE Retry(w)
            BY <2>1, RetryIInv
        <2>2. CASE Dequeue(w)
            BY <2>2, DequeueIInv
        <2>3. CASE GotStop(w)
            BY <2>3, GotStopIInv
        <2>4. CASE GotFrame(w)
            BY <2>4, GotFrameIInv
        <2>5. CASE FlushOk(w)
            BY <2>5, FlushIInv DEF FlushOk, callerVars
        <2>6. CASE FlushFails(w)
            BY <2>6, FlushIInv DEF FlushFails, callerVars
        <2>7. QED BY <1>4, <2>1, <2>2, <2>3, <2>4, <2>5, <2>6 DEF Worker
    <1>5. ASSUME UNCHANGED vars PROVE IInv'
        <2> USE <1>5 DEF vars, workerVars, callerVars, deliveryVars
        <2>1. ControlOK' /\ HandOK'
            BY DEF IInv, ControlOK, HandOK
        <2>2. QED BY <2>1, FramesStay DEF IInv
    <1>6. QED BY <1>1, <1>2, <1>3, <1>4, <1>5 DEF Next

LEMMA Inductive == Spec => []IInv
    BY InitIInv, StepIInv, PTL DEF Spec

(* Every variable of the buffer keeps the values its counterpart in        *)
(* AsyncIngestionBuffer can have: only accepted frames and _STOP travel    *)
(* through the queue and the batches, only accepted frames reach the table.*)
THEOREM TypeCorrect == Spec => []TypeOK
    BY Inductive, IInvTypes, PTL

(* However many workers run and callers start and stop them, _run and      *)
(* _flush neither lose sight of an accepted frame nor handle it twice.     *)
THEOREM FramesConserved == Spec => []EveryFrameInOnePlace
    <1>1. IInv => EveryFrameInOnePlace
        BY DEF IInv
    <1>2. QED BY Inductive, <1>1, PTL
-----------------------------------------------------------------------------
(* The implementation of FrameDelivery.  What a batch adds to the table    *)
(* was held by a worker, hence outstanding.                                *)
LEMMA HeldIsOutstanding ==
    ASSUME IInv, NEW w \in Tasks, pc[w] = "flush"
    PROVE  /\ Range(hand[w]) \subseteq Delivery!Outstanding
           /\ \A i, j \in 1..Len(hand[w]) : hand[w][i] = hand[w][j] => i = j
    <1>1. /\ STOP \notin Range(hand[w]) /\ Distinct(hand[w])
          /\ hand[w] \in Seq(Nat)
        BY DEF IInv, HandOK, SequencesOK
    <1>2. Partition(accepted, Queued, Hands, Range(table), discarded)
        BY PartitionIff DEF IInv
    <1>3. Range(hand[w]) = Hands[w]
        BY <1>1, PlacesOf
    <1>4. Range(hand[w]) \subseteq Delivery!Outstanding
        <2>1. \A f \in Hands[w] : f \in 1..accepted /\ f \notin Range(table) \cup discarded
            BY <1>2 DEF Partition
        <2>2. Delivery!Outstanding = (1..accepted) \ (Range(table) \cup discarded)
            BY DEF Delivery!Outstanding, Range, Delivery!Range
        <2>3. QED BY <2>1, <2>2, <1>3
    <1>5. \A i \in 1..Len(hand[w]) : hand[w][i] # STOP
        BY <1>1, InRange
    <1>6. QED BY <1>1, <1>4, <1>5 DEF Distinct

LEMMA AcceptRefines ==
    ASSUME IInv, NEW n \in 1..MaxPost, Enqueue(n)
    PROVE  Delivery!Accept
    BY IngestionConstants DEF IInv, ControlOK, Enqueue, Delivery!Accept

LEMMA PersistRefines ==
    ASSUME IInv, NEW w \in Tasks, pc[w] = "flush",
           table' = table \o hand[w], UNCHANGED <<accepted, discarded>>
    PROVE  [Delivery!Next]_(Delivery!vars)
    <1>1. /\ table \in Seq(Nat) /\ hand[w] \in Seq(Nat)
          /\ Len(table) \in Nat /\ Len(hand[w]) \in Nat
        BY DEF IInv, SequencesOK
    <1>2. /\ table' \in Seq(Nat) /\ Len(table') = Len(table) + Len(hand[w])
          /\ \A i \in 1..(Len(table) + Len(hand[w])) : table'[i] =
                IF i <= Len(table) THEN table[i] ELSE hand[w][i - Len(table)]
        BY <1>1, ConcatProperties
    <1>3. CASE hand[w] = << >>
        <2>1. table' = table
            BY <1>1, <1>3, ConcatEmptySeq
        <2>2. QED BY <2>1 DEF Delivery!vars
    <1>4. CASE hand[w] # << >>
        <2>1. Len(hand[w]) > 0
            BY <1>1, <1>4, EmptySeq
        <2>2. \A i \in 1..Len(table) : table'[i] = table[i]
            BY <1>1, <1>2
        <2>3. \A i \in (Len(table) + 1)..Len(table') :
                /\ i - Len(table) \in 1..Len(hand[w])
                /\ table'[i] = hand[w][i - Len(table)]
            BY <1>1, <1>2
        <2>4. \A i \in (Len(table) + 1)..Len(table') : table'[i] \in Delivery!Outstanding
            BY <1>1, <2>3, HeldIsOutstanding, InRange
        <2>5. ASSUME NEW i \in (Len(table) + 1)..Len(table'),
                     NEW j \in (Len(table) + 1)..Len(table'), table'[i] = table'[j]
              PROVE  i = j
            <3>1. i - Len(table) = j - Len(table)
                BY <2>3, <2>5, HeldIsOutstanding
            <3>2. QED BY <3>1, <1>1, <1>2
        <2>6. Delivery!Persist
            <3>1. Len(table') > Len(table)
                BY <1>1, <1>2, <2>1
            <3>2. QED BY <3>1, <1>2, <2>2, <2>4, <2>5, Zenon DEF Delivery!Persist
        <2>7. QED BY <2>6 DEF Delivery!Next
    <1>5. QED BY <1>3, <1>4

LEMMA DiscardRefines ==
    ASSUME IInv, NEW w \in Tasks, pc[w] = "flush",
           discarded' = discarded \cup Range(hand[w]), UNCHANGED <<accepted, table>>
    PROVE  Delivery!Discard
    BY HeldIsOutstanding DEF Delivery!Discard

LEMMA StepRefines == IInv /\ [Next]_vars => [Delivery!Next]_(Delivery!vars)
    <1> SUFFICES ASSUME IInv, [Next]_vars PROVE [Delivery!Next]_(Delivery!vars)
        OBVIOUS
    <1> USE DEF deliveryVars, Delivery!vars
    <1>1. ASSUME NEW n \in 1..MaxPost, Enqueue(n) PROVE Delivery!Next
        BY <1>1, AcceptRefines DEF Delivery!Next
    <1>2. ASSUME NEW c \in Callers,
                 Start(c) \/ StopRequest(c) \/ StopNoWorker(c) \/ StopReturn(c)
          PROVE  UNCHANGED Delivery!vars
        BY <1>2 DEF Start, StopRequest, StopNoWorker, StopReturn
    <1>3. ASSUME NEW w \in Tasks,
                 Retry(w) \/ Dequeue(w) \/ GotStop(w) \/ GotFrame(w)
          PROVE  UNCHANGED Delivery!vars
        BY <1>3 DEF Retry, Dequeue, GotStop, GotFrame
    <1>4. ASSUME NEW w \in Tasks, FlushOk(w) PROVE [Delivery!Next]_(Delivery!vars)
        BY <1>4, PersistRefines DEF FlushOk
    <1>5. ASSUME NEW w \in Tasks, FlushFails(w) PROVE [Delivery!Next]_(Delivery!vars)
        <2>1. CASE discarded' = discarded \cup Range(hand[w]) /\ UNCHANGED table
            BY <1>5, <2>1, DiscardRefines DEF FlushFails, Delivery!Next
        <2>2. CASE table' = table \o hand[w] /\ UNCHANGED discarded
            BY <1>5, <2>2, PersistRefines DEF FlushFails
        <2>3. QED BY <1>5, <2>1, <2>2 DEF FlushFails
    <1>6. CASE UNCHANGED vars
        BY <1>6 DEF vars
    <1>7. QED BY <1>1, <1>2, <1>3, <1>4, <1>5, <1>6 DEF Next, Worker

(* AsyncIngestionBuffer implements FrameDelivery: a frame enqueued once    *)
(* gets at most one row, and none after _flush dropped its batch, whatever *)
(* the callers of start_worker and stop_worker and the database do.        *)
THEOREM ImplementsDelivery == Spec => DeliverySpec
    <1>1. Init => Delivery!Init
        BY DEF Init, Delivery!Init
    <1>2. QED BY <1>1, StepRefines, Inductive, PTL
              DEF Spec, DeliverySpec, Delivery!Spec
-----------------------------------------------------------------------------
(* What FrameDelivery promises, proved of it alone, so that it holds of    *)
(* every buffer that implements it.                                        *)
DeliveryInv ==
    /\ accepted \in Nat
    /\ table \in Seq(Nat)
    /\ discarded \subseteq 1..accepted
    /\ Delivery!Range(table) \subseteq 1..accepted
    /\ Delivery!AtMostOnce

LEMMA DeliveryPersists == DeliveryInv /\ Delivery!Persist => DeliveryInv'
    <1> SUFFICES ASSUME DeliveryInv, Delivery!Persist PROVE DeliveryInv'
        OBVIOUS
    <1> DEFINE n == Len(table)
    <1>1. /\ table \in Seq(Nat) /\ table' \in Seq(Nat)
          /\ n \in Nat /\ Len(table') \in Nat /\ n < Len(table')
          /\ accepted' = accepted /\ discarded' = discarded
        BY DEF DeliveryInv, Delivery!Persist
    <1>2. /\ \A i \in 1..n : table'[i] = table[i] /\ table[i] \in Delivery!Range(table)
          /\ \A i \in (n + 1)..Len(table') : table'[i] \in Delivery!Outstanding
        BY <1>1 DEF Delivery!Persist, Delivery!Range
    <1>3. \A i \in (n + 1)..Len(table') :
            /\ table'[i] \in 1..accepted
            /\ table'[i] \notin Delivery!Range(table)
            /\ table'[i] \notin discarded
        BY <1>2 DEF Delivery!Outstanding
    <1>4. \A i \in 1..Len(table') : i \in 1..n \/ i \in (n + 1)..Len(table')
        BY <1>1
    <1>5. \A i \in 1..Len(table') : table'[i] \in 1..accepted /\ table'[i] \notin discarded
        BY <1>2, <1>3, <1>4 DEF DeliveryInv, Delivery!AtMostOnce
    <1>6. \A f \in Delivery!Range(table') : f \in 1..accepted /\ f \notin discarded
        BY <1>1, <1>5, SMTT(30) DEF Delivery!Range
    <1>7. ASSUME NEW i \in 1..Len(table'), NEW j \in 1..Len(table'), table'[i] = table'[j]
          PROVE  i = j
        <2>0. \A k, l \in (n + 1)..Len(table') : table'[k] = table'[l] => k = l
            BY DEF Delivery!Persist
        <2>1. CASE i \in 1..n /\ j \in 1..n
            <3>1. DOMAIN table = 1..n /\ \A k, l \in DOMAIN table : table[k] = table[l] => k = l
                BY <1>1 DEF DeliveryInv, Delivery!AtMostOnce
            <3>2. QED BY <2>1, <3>1, <1>2, <1>7
        <2>2. CASE i \in (n + 1)..Len(table') /\ j \in (n + 1)..Len(table')
            BY ONLY <2>0, <2>2, table'[i] = table'[j]
        <2>3. CASE i \in 1..n /\ j \in (n + 1)..Len(table')
            BY <2>3, <1>2, <1>3, <1>7
        <2>4. CASE i \in (n + 1)..Len(table') /\ j \in 1..n
            BY <2>4, <1>2, <1>3, <1>7
        <2>5. QED BY <1>4, <2>1, <2>2, <2>3, <2>4
    <1>8. Delivery!AtMostOnce'
        <2>1. DOMAIN table' = 1..Len(table')
            BY <1>1
        <2>2. Delivery!Range(table') \cap discarded' = {}
            BY <1>1, <1>6
        <2>3. QED BY <1>7, <2>1, <2>2, Zenon DEF Delivery!AtMostOnce
    <1>9. QED BY <1>1, <1>6, <1>8 DEF DeliveryInv

(* A frame that the buffer accepted once never gets a second row, and a    *)
(* frame of a batch given up never gets one: the promise of both buffers,  *)
(* for any number of frames and batches of any size.                       *)
THEOREM AcceptedOnceStoredOnce == Delivery!Spec => []Delivery!AtMostOnce
    <1>1. Delivery!Init => DeliveryInv
        BY DEF Delivery!Init, DeliveryInv, Delivery!AtMostOnce, Delivery!Range
    <1>2. DeliveryInv /\ [Delivery!Next]_(Delivery!vars) => DeliveryInv'
        <2> SUFFICES ASSUME DeliveryInv, [Delivery!Next]_(Delivery!vars) PROVE DeliveryInv'
            OBVIOUS
        <2>1. CASE Delivery!Accept
            BY <2>1 DEF Delivery!Accept, DeliveryInv, Delivery!AtMostOnce
        <2>2. CASE Delivery!Persist
            BY <2>2, DeliveryPersists
        <2>3. CASE Delivery!Discard
            BY <2>3 DEF Delivery!Discard, DeliveryInv, Delivery!AtMostOnce, Delivery!Outstanding
        <2>4. CASE UNCHANGED Delivery!vars
            BY <2>4 DEF Delivery!vars, DeliveryInv, Delivery!AtMostOnce
        <2>5. QED BY <2>1, <2>2, <2>3, <2>4 DEF Delivery!Next
    <1>3. DeliveryInv => Delivery!AtMostOnce
        BY DEF DeliveryInv
    <1>4. QED BY <1>1, <1>2, <1>3, PTL DEF Delivery!Spec

(* So the in-memory buffer never writes a frame twice, and never one of a  *)
(* batch it dropped.                                                       *)
THEOREM NoSecondRow == Spec => []Delivery!AtMostOnce
    BY ImplementsDelivery, AcceptedOnceStoredOnce, PTL DEF DeliverySpec
-----------------------------------------------------------------------------
(* One caller of start_worker and stop_worker: the lifespan of the app.    *)
(* Then there is one worker at a time and one _STOP at a time, and what is *)
(* held stands between what is stored and what is queued.                  *)
OneCaller == \A c, d \in Callers : c = d

Ascending(s) ==
    \A i, j \in 1..Len(s) : i < j /\ s[i] # STOP /\ s[j] # STOP => s[i] < s[j]

OneStop(s) == \A i, j \in 1..Len(s) : s[i] = STOP /\ s[j] = STOP => i = j

(* The items of s behind its last _STOP are above k.                       *)
Beyond(s, k) ==
    \A j \in 1..Len(s) : (\A i \in j..Len(s) : s[i] # STOP) => s[j] > k

Below(S, T) == \A f \in S : \A g \in T : f < g

NoStop == STOP \notin Range(queue) /\ \A w \in Tasks : STOP \notin Range(hand[w])

(* There is one _STOP, which belongs to the stop_worker under way and is   *)
(* gone once the worker has read it.                                       *)
StopOnce ==
    /\ OneStop(queue)
    /\ \A w \in Tasks : STOP \in Range(hand[w]) => STOP \notin Range(queue)
    /\ stopped => NoStop
    /\ (\A c \in Callers : awaiting[c] = NoTask) =>
            /\ NoStop
            /\ Running => ~stopped
    /\ workerTask # NoTask /\ pc[workerTask] = "done" => stopped

(* The worker that runs, or is awaited, is the one that _worker_task names.*)
CurrentOK ==
    /\ \A w \in Tasks : pc[w] = "unborn" => workerTask # w
    /\ \A c \in Callers : awaiting[c] # NoTask => awaiting[c] = workerTask
    /\ LiveWorkerIsCurrent

(* Frames behind the _STOP of a stop_worker came after its call.           *)
MarkOK == \A c \in Callers : awaiting[c] # NoTask => Beyond(queue, mark[c])

OrderOK ==
    /\ Ascending(queue)
    /\ Ascending(table)
    /\ \A w \in Tasks : Ascending(hand[w])
    /\ Below(Range(table), Queued)
    /\ \A w \in Tasks : Below(Range(table), Hands[w]) /\ Below(Hands[w], Queued)

LInv == IInv /\ StopOnce /\ CurrentOK /\ MarkOK /\ OrderOK
-----------------------------------------------------------------------------
(* What is left of a sequence without its first m items.                   *)
Suffix(t, s, m) ==
    /\ m \in 0..Len(s)
    /\ Len(t) = Len(s) - m
    /\ \A i \in 1..Len(t) : t[i] = s[m + i]

LEMMA RestIsSuffix ==
    ASSUME NEW s \in Seq(Nat), NEW m \in 0..Len(s)
    PROVE  LET t == SubSeq(s, m + 1, Len(s)) IN t \in Seq(Nat) /\ Suffix(t, s, m)
    <1> DEFINE t == SubSeq(s, m + 1, Len(s))
    <1>1. Len(s) \in Nat /\ m \in Nat /\ m <= Len(s)
        BY InRange
    <1>2. /\ t \in Seq(Nat) /\ Len(t) = Len(s) - m
          /\ \A i \in 1..(Len(s) - m) : t[i] = s[m + i]
        BY <1>1, SubSeqProperties
    <1> HIDE DEF t
    <1>3. QED BY <1>2 DEF Suffix, t

LEMMA SuffixKeeps ==
    ASSUME NEW s \in Seq(Nat), NEW t \in Seq(Nat), NEW m, Suffix(t, s, m)
    PROVE  /\ Ascending(s) => Ascending(t)
           /\ OneStop(s) => OneStop(t)
           /\ \A k : Beyond(s, k) => Beyond(t, k)
           /\ Range(t) \subseteq Range(s)
           /\ \A i \in 1..m : OneStop(s) /\ s[i] = STOP => STOP \notin Range(t)
    <1>1. /\ Len(s) \in Nat /\ Len(t) \in Nat /\ m \in Nat /\ Len(s) = m + Len(t)
          /\ \A i \in 1..Len(t) : t[i] = s[m + i] /\ m + i \in 1..Len(s)
        BY DEF Suffix
    <1>2. ASSUME Ascending(s) PROVE Ascending(t)
        <2> SUFFICES ASSUME NEW i \in 1..Len(t), NEW j \in 1..Len(t),
                            i < j, t[i] # STOP, t[j] # STOP
                     PROVE  t[i] < t[j]
            BY DEF Ascending
        <2>1. m + i < m + j
            BY <1>1
        <2>2. QED BY <1>1, <1>2, <2>1 DEF Ascending
    <1>3. ASSUME OneStop(s) PROVE OneStop(t)
        <2> SUFFICES ASSUME NEW i \in 1..Len(t), NEW j \in 1..Len(t),
                            t[i] = STOP, t[j] = STOP
                     PROVE  i = j
            BY DEF OneStop
        <2>1. m + i = m + j
            BY <1>1, <1>3 DEF OneStop
        <2>2. m \in Nat /\ i \in Nat /\ j \in Nat
            BY <1>1
        <2>3. QED BY ONLY <2>1, <2>2
    <1>4. ASSUME NEW k, Beyond(s, k) PROVE Beyond(t, k)
        <2> SUFFICES ASSUME NEW j \in 1..Len(t), \A i \in j..Len(t) : t[i] # STOP
                     PROVE  t[j] > k
            BY DEF Beyond
        <2>1. ASSUME NEW i \in (m + j)..Len(s) PROVE s[i] # STOP
            <3>1. i - m \in j..Len(t) /\ i - m \in 1..Len(t) /\ m + (i - m) = i
                BY <1>1
            <3>2. QED BY <1>1, <3>1
        <2>2. s[m + j] > k
            BY <1>1, <1>4, <2>1 DEF Beyond
        <2>3. QED BY <1>1, <2>2
    <1>5. Range(t) \subseteq Range(s)
        <2> SUFFICES ASSUME NEW x \in Range(t) PROVE x \in Range(s)
            OBVIOUS
        <2>1. PICK i \in 1..Len(t) : t[i] = x
            BY InRange
        <2>2. QED BY <1>1, <2>1, InRange
    <1>6. ASSUME NEW i \in 1..m, OneStop(s), s[i] = STOP, STOP \in Range(t)
          PROVE  FALSE
        <2>1. PICK j \in 1..Len(t) : t[j] = STOP
            BY <1>6, InRange
        <2>2. s[m + j] = STOP /\ m + j # i /\ i \in 1..Len(s)
            <3>1. s[m + j] = STOP
                BY ONLY <1>1, <2>1
            <3>2. m + j # i /\ i \in 1..Len(s)
                <4>1. m \in Nat /\ Len(s) \in Nat /\ m <= Len(s) /\ j \in Nat /\ j > 0
                    BY <1>1, <2>1
                <4>2. QED BY ONLY <4>1, i \in 1..m
            <3>3. QED BY <3>1, <3>2
        <2>3. QED BY <1>1, <1>6, <2>2 DEF OneStop
    <1>7. QED BY <1>2, <1>3, <1>4, <1>5, <1>6

LEMMA TailIsSuffix ==
    ASSUME NEW s \in Seq(Nat), s # << >>
    PROVE  /\ Tail(s) \in Seq(Nat) /\ Suffix(Tail(s), s, 1)
           /\ Head(s) = s[1] /\ 1 \in 1..Len(s) /\ Head(s) \in Range(s)
    <1>1. /\ Tail(s) \in Seq(Nat)
          /\ Len(Tail(s)) = Len(s) - 1
          /\ \A i \in 1..Len(Tail(s)) : Tail(s)[i] = s[i + 1]
        BY HeadTailProperties
    <1>2. Len(s) \in Nat \ {0} /\ Head(s) = s[1]
        BY EmptySeq
    <1>3. \A i \in 1..Len(Tail(s)) : i + 1 = 1 + i
        OBVIOUS
    <1>4. QED BY <1>1, <1>2, <1>3, InRange DEF Suffix

LEMMA JoinKeeps ==
    ASSUME NEW s \in Seq(Nat), NEW t \in Seq(Nat), STOP \notin Range(t)
    PROVE  /\ OneStop(s) => OneStop(s \o t)
           /\ Ascending(s) /\ Ascending(t) /\ Below(Range(s) \ {STOP}, Range(t))
                => Ascending(s \o t)
           /\ \A k : Beyond(s, k) /\ (\A x \in Range(t) : x > k) => Beyond(s \o t, k)
    <1> DEFINE u == s \o t
    <1>1. /\ Len(s) \in Nat /\ Len(t) \in Nat /\ Len(u) = Len(s) + Len(t)
          /\ \A i \in 1..Len(u) :
                \/ i \in 1..Len(s) /\ u[i] = s[i] /\ s[i] \in Range(s)
                \/ /\ i > Len(s) /\ i - Len(s) \in 1..Len(t)
                   /\ u[i] = t[i - Len(s)] /\ t[i - Len(s)] \in Range(t)
        <2>1. /\ Len(s) \in Nat /\ Len(t) \in Nat /\ Len(u) = Len(s) + Len(t)
              /\ \A i \in 1..(Len(s) + Len(t)) :
                    u[i] = IF i <= Len(s) THEN s[i] ELSE t[i - Len(s)]
            BY ConcatProperties
        <2> HIDE DEF u
        <2>2. \A i \in 1..(Len(s) + Len(t)) :
                \/ i <= Len(s) /\ i \in 1..Len(s)
                \/ ~(i <= Len(s)) /\ i > Len(s) /\ i - Len(s) \in 1..Len(t)
            BY <2>1
        <2>3. QED BY <2>1, <2>2, InRange
    <1> HIDE DEF u
    <1>2. ASSUME OneStop(s) PROVE OneStop(u)
        <2> SUFFICES ASSUME NEW i \in 1..Len(u), NEW j \in 1..Len(u),
                            u[i] = STOP, u[j] = STOP
                     PROVE  i = j
            BY DEF OneStop
        <2>1. i \in 1..Len(s) /\ s[i] = STOP /\ j \in 1..Len(s) /\ s[j] = STOP
            BY <1>1
        <2>2. QED BY <1>2, <2>1 DEF OneStop
    <1>3. ASSUME Ascending(s), Ascending(t), Below(Range(s) \ {STOP}, Range(t))
          PROVE  Ascending(u)
        <2> SUFFICES ASSUME NEW i \in 1..Len(u), NEW j \in 1..Len(u),
                            i < j, u[i] # STOP, u[j] # STOP
                     PROVE  u[i] < u[j]
            BY DEF Ascending
        <2>1. CASE j \in 1..Len(s) /\ u[j] = s[j]
            <3>1. i \in 1..Len(s) /\ u[i] = s[i]
                BY <1>1, <2>1
            <3>2. QED BY <1>3, <2>1, <3>1 DEF Ascending
        <2>2. CASE i > Len(s) /\ i - Len(s) \in 1..Len(t) /\ u[i] = t[i - Len(s)]
            <3>1. ~(j \in 1..Len(s))
                BY <1>1, <2>2
            <3>2. j - Len(s) \in 1..Len(t) /\ u[j] = t[j - Len(s)]
                BY <1>1, <3>1
            <3>3. i - Len(s) < j - Len(s)
                BY <1>1
            <3>4. QED BY <1>3, <2>2, <3>2, <3>3 DEF Ascending
        <2>3. CASE u[i] \in Range(s) /\ u[j] \in Range(t)
            BY <1>3, <2>3 DEF Below
        <2>4. QED BY <1>1, <2>1, <2>2, <2>3
    <1>4. ASSUME NEW k, Beyond(s, k), \A x \in Range(t) : x > k
          PROVE  Beyond(u, k)
        <2> SUFFICES ASSUME NEW j \in 1..Len(u), \A i \in j..Len(u) : u[i] # STOP
                     PROVE  u[j] > k
            BY DEF Beyond
        <2>1. CASE j \in 1..Len(s) /\ u[j] = s[j]
            <3>1. ASSUME NEW i \in j..Len(s) PROVE s[i] # STOP
                <4>1. i \in j..Len(u) /\ i \in 1..Len(u) /\ ~(i > Len(s))
                    BY <1>1, <2>1
                <4>2. QED BY <1>1, <4>1
            <3>2. QED BY <1>4, <2>1, <3>1 DEF Beyond
        <2>2. CASE u[j] \in Range(t)
            BY <1>4, <2>2
        <2>3. QED BY <1>1, <2>1, <2>2
    <1>5. QED BY <1>2, <1>3, <1>4 DEF u

LEMMA StopAppended ==
    ASSUME NEW s \in Seq(Nat), STOP \notin Range(s)
    PROVE  LET t == Append(s, STOP)
           IN /\ OneStop(t)
              /\ Ascending(s) => Ascending(t)
              /\ \A k : Beyond(t, k)
              /\ Range(t) = Range(s) \cup {STOP}
    <1> DEFINE t == Append(s, STOP)
    <1>1. /\ t \in Seq(Nat) /\ Len(s) \in Nat /\ Len(t) = Len(s) + 1
          /\ \A i \in 1..Len(s) : t[i] = s[i] /\ s[i] # STOP
          /\ t[Len(t)] = STOP
        BY AppendProperties, InRange DEF STOP
    <1>2. Range(t) = Range(s) \cup {STOP}
        BY AppendProperties DEF STOP, Range
    <1> HIDE DEF t
    <1>3. \A i \in 1..Len(t) : i \in 1..Len(s) \/ i = Len(t)
        BY <1>1
    <1>4. OneStop(t)
        BY <1>1, <1>3 DEF OneStop
    <1>5. Ascending(s) => Ascending(t)
        BY <1>1, <1>3 DEF Ascending
    <1>6. \A k : Beyond(t, k)
        BY <1>1 DEF Beyond
    <1>7. QED BY <1>2, <1>4, <1>5, <1>6 DEF t
-----------------------------------------------------------------------------
LEMMA IInvFacts ==
    ASSUME IInv
    PROVE  /\ queue \in Seq(Nat) /\ table \in Seq(Nat) /\ hand \in [Tasks -> Seq(Nat)]
           /\ pc \in [Tasks -> {"unborn", "created", "get", "got", "flush", "done"}]
           /\ workerTask \in Tasks \cup {NoTask}
           /\ stopped \in BOOLEAN
           /\ awaiting \in [Callers -> Tasks \cup {NoTask}]
           /\ \A c \in Callers : mark[c] \in Nat /\ mark[c] <= accepted
           /\ mark \in [Callers -> Nat]
           /\ accepted \in Nat
           /\ \A w \in Tasks : pc[w] \notin {"got", "flush"} => hand[w] = << >>
           /\ NoTask \notin Tasks
    BY IngestionConstants DEF IInv, ControlOK, SequencesOK, HandOK, Tasks, NoTask

LEMMA NothingAtHand ==
    ASSUME IInv, CurrentOK, NEW w \in Tasks, workerTask # w \/ ~Live(w)
    PROVE  hand[w] = << >> /\ Hands[w] = {} /\ STOP \notin Range(hand[w])
    <1>1. hand[w] = << >>
        BY IInvFacts DEF CurrentOK, LiveWorkerIsCurrent, Live
    <1>2. QED BY <1>1, EmptyRange, PlacesOf

(* The steps that leave queue, batches and table alone.                    *)
LEMMA OrderStays ==
    ASSUME OrderOK, UNCHANGED <<queue, hand, table>>
    PROVE  OrderOK'
    BY DEF OrderOK, Queued, Hands, Held

LEMMA StartLInv ==
    ASSUME OneCaller, LInv, NEW c \in Callers, Start(c)
    PROVE  StopOnce' /\ CurrentOK' /\ MarkOK' /\ OrderOK'
    <1> USE DEF LInv, callerVars, deliveryVars
    <1>1. PICK w \in Tasks : /\ pc[w] = "unborn" /\ workerTask' = w
                             /\ pc' = [pc EXCEPT ![w] = "created"]
        BY DEF Start
    <1>2. /\ awaiting[c] = NoTask /\ ~Running /\ stopped' = FALSE
          /\ UNCHANGED <<queue, hand, awaiting, mark, accepted, table, discarded>>
        BY DEF Start
    <1>3. \A d \in Callers : awaiting[d] = NoTask
        BY <1>2 DEF OneCaller
    <1>4. NoStop /\ NoStop'
        BY <1>2, <1>3 DEF StopOnce, NoStop
    <1>5. StopOnce'
        BY <1>1, <1>2, <1>4, IInvFacts DEF StopOnce, NoStop
    <1>6. CurrentOK'
        <2>1. \A v \in Tasks : ~Live(v)
            BY <1>2, IInvFacts DEF CurrentOK, LiveWorkerIsCurrent, Live, Running
        <2>2. QED BY <1>1, <1>2, <1>3, <2>1, IInvFacts
                  DEF CurrentOK, LiveWorkerIsCurrent, Live
    <1>7. QED BY <1>2, <1>5, <1>6, OrderStays DEF MarkOK

LEMMA StopNoWorkerLInv ==
    ASSUME OneCaller, LInv, NEW c \in Callers, StopNoWorker(c)
    PROVE  StopOnce' /\ CurrentOK' /\ MarkOK' /\ OrderOK'
    <1> USE DEF LInv, callerVars, deliveryVars
    <1>1. /\ awaiting[c] = NoTask /\ ~Running /\ workerTask' = NoTask
          /\ UNCHANGED <<queue, stopped, pc, hand, awaiting, mark, table>>
        BY DEF StopNoWorker
    <1>2. \A d \in Callers : awaiting[d] = NoTask
        BY <1>1 DEF OneCaller
    <1>3. StopOnce'
        BY <1>1, <1>2 DEF StopOnce, NoStop, Running
    <1>4. CurrentOK'
        BY <1>1, <1>2, IInvFacts DEF CurrentOK, LiveWorkerIsCurrent, Live, Running
    <1>5. QED BY <1>1, <1>3, <1>4, OrderStays DEF MarkOK

LEMMA StopReturnLInv ==
    ASSUME OneCaller, LInv, NEW c \in Callers, StopReturn(c)
    PROVE  StopOnce' /\ CurrentOK' /\ MarkOK' /\ OrderOK'
    <1> USE DEF LInv, deliveryVars
    <1>1. /\ awaiting[c] # NoTask /\ pc[awaiting[c]] = "done" /\ workerTask' = NoTask
          /\ awaiting' = [awaiting EXCEPT ![c] = NoTask]
          /\ UNCHANGED <<queue, stopped, pc, hand, mark, table>>
        BY DEF StopReturn
    <1>2. \A d \in Callers : awaiting'[d] = NoTask
        BY <1>1, IInvFacts DEF OneCaller
    <1>3. awaiting[c] = workerTask
        BY <1>1 DEF CurrentOK
    <1>4. NoStop
        BY <1>1, <1>3 DEF StopOnce
    <1>5. StopOnce'
        BY <1>1, <1>4 DEF StopOnce, NoStop, Running
    <1>6. CurrentOK'
        BY <1>1, <1>2, <1>3, IInvFacts DEF CurrentOK, LiveWorkerIsCurrent, Live
    <1>7. QED BY <1>1, <1>2, <1>5, <1>6, OrderStays DEF MarkOK

LEMMA StopRequestLInv ==
    ASSUME OneCaller, LInv, NEW c \in Callers, StopRequest(c)
    PROVE  StopOnce' /\ CurrentOK' /\ MarkOK' /\ OrderOK'
    <1> USE DEF LInv, workerVars, deliveryVars
    <1>1. /\ awaiting[c] = NoTask /\ Running /\ queue' = Append(queue, STOP)
          /\ awaiting' = [awaiting EXCEPT ![c] = workerTask]
          /\ UNCHANGED <<workerTask, stopped, pc, hand, table>>
        BY DEF StopRequest
    <1>2. NoStop /\ ~stopped
        BY <1>1 DEF StopOnce, OneCaller
    <1>3. /\ OneStop(queue') /\ Ascending(queue') /\ \A k : Beyond(queue', k)
          /\ Range(queue') = Range(queue) \cup {STOP}
        BY <1>1, <1>2, StopAppended, IInvFacts DEF NoStop, OrderOK
    <1>4. StopOnce'
        <2>1. workerTask # NoTask /\ pc[workerTask] # "done"
            BY <1>1 DEF Running
        <2>2. \E d \in Callers : awaiting'[d] # NoTask
            BY <1>1, <2>1, IInvFacts
        <2>3. QED BY <1>1, <1>2, <1>3, <2>1, <2>2 DEF StopOnce, NoStop
    <1>5. CurrentOK'
        BY <1>1, IInvFacts DEF OneCaller, CurrentOK, LiveWorkerIsCurrent, Live
    <1>6. MarkOK'
        BY <1>3 DEF MarkOK
    <1>7. OrderOK'
        <2>1. Queued' = Queued /\ Hands' = Hands
            BY <1>1, <1>3 DEF Queued, Hands, Held
        <2>2. QED BY <1>1, <1>3, <2>1 DEF OrderOK
    <1>8. QED BY <1>4, <1>5, <1>6, <1>7

LEMMA EnqueueLInv ==
    ASSUME LInv, NEW n \in 1..MaxPost, Enqueue(n)
    PROVE  StopOnce' /\ CurrentOK' /\ MarkOK' /\ OrderOK'
    <1> DEFINE new == [i \in 1..n |-> accepted + i]
    <1> USE DEF LInv, workerVars, callerVars
    <1>0. n \in Nat /\ accepted \in Nat
        BY IngestionConstants DEF IInv, ControlOK
    <1>1. /\ new \in Seq(Nat) /\ Len(new) = n
          /\ \A i \in 1..n : new[i] = accepted + i
        <2>1. new \in [1..n -> Nat]
            BY <1>0
        <2>2. new \in Seq(Nat) /\ DOMAIN new = 1..n
            BY <1>0, <2>1, SeqDef
        <2>3. QED BY <1>0, <2>2, LenProperties
    <1>2. /\ queue' = queue \o new
          /\ UNCHANGED <<workerTask, stopped, pc, hand, awaiting, mark, table>>
        BY DEF Enqueue
    <1> HIDE DEF new
    <1>3. \A f \in Range(new) : f > accepted /\ f # STOP
        <2> TAKE f \in Range(new)
        <2>1. PICK i \in 1..n : new[i] = f
            BY <1>1, InRange
        <2>2. QED BY <1>0, <1>1, <2>1 DEF STOP
    <1>4. Ascending(new)
        BY <1>0, <1>1 DEF Ascending
    <1>5. Range(queue') = Range(queue) \cup Range(new)
        BY <1>1, <1>2, IInvFacts, RangeConcatenation
    <1>6. Partition(accepted, Queued, Hands, Range(table), discarded)
        BY PartitionIff DEF IInv
    <1>7. ASSUME NEW S, \A f \in S : f \in 1..accepted PROVE Below(S, Range(new))
        <2>1. \A f \in S : f \in Int /\ f <= accepted
            BY <1>0, <1>7
        <2>2. \A g \in Range(new) : g \in Nat
            BY <1>1, InRange
        <2>3. QED BY <1>0, <1>3, <2>1, <2>2 DEF Below
    <1>8. /\ Below(Queued, Range(new)) /\ Below(Range(table), Range(new))
          /\ \A w \in Tasks : Below(Hands[w], Range(new))
        BY <1>6, <1>7 DEF Partition
    <1>9. /\ OneStop(queue') /\ Ascending(queue')
          /\ \A c \in Callers : Beyond(queue, mark[c]) => Beyond(queue', mark[c])
        <2>1. STOP \notin Range(new) /\ queue \in Seq(Nat)
            BY <1>3, IInvFacts
        <2>2. OneStop(queue) /\ Ascending(queue) /\ Below(Range(queue) \ {STOP}, Range(new))
            BY <1>8, PlacesOf DEF StopOnce, OrderOK
        <2>3. ASSUME NEW c \in Callers PROVE \A f \in Range(new) : f > mark[c]
            <3>1. \A f \in Range(new) : f \in Nat /\ f > accepted
                BY <1>1, <1>3, InRange
            <3>2. mark[c] \in Nat /\ mark[c] <= accepted
                BY IInvFacts
            <3>3. QED BY <1>0, <3>1, <3>2
        <2>4. QED BY <1>1, <1>2, <1>4, <2>1, <2>2, <2>3, JoinKeeps
    <1>10. StopOnce' /\ CurrentOK' /\ MarkOK'
        BY <1>2, <1>3, <1>5, <1>9
           DEF StopOnce, NoStop, Running, CurrentOK, LiveWorkerIsCurrent, Live, MarkOK
    <1>11. OrderOK'
        <2>1. Queued' = Queued \cup Range(new) /\ Hands' = Hands
            BY <1>2, <1>3, <1>5 DEF Queued, Hands, Held
        <2>2. QED BY <1>2, <1>8, <1>9, <2>1 DEF OrderOK, Below
    <1>12. QED BY <1>10, <1>11

LEMMA RetryLInv ==
    ASSUME LInv, NEW w \in Tasks, Retry(w)
    PROVE  StopOnce' /\ CurrentOK' /\ MarkOK' /\ OrderOK'
    <1> USE DEF LInv, callerVars, deliveryVars
    <1>1. /\ pc[w] \in {"created", "get"} /\ pc' = [pc EXCEPT ![w] = LoopHead(stopped)]
          /\ UNCHANGED <<queue, workerTask, stopped, hand, awaiting, mark, table>>
        BY DEF Retry
    <1>2. workerTask = w /\ pc[w] \notin {"unborn", "done"} /\ w # NoTask
        BY <1>1, IInvFacts DEF CurrentOK, LiveWorkerIsCurrent, Live
    <1>3. StopOnce'
        BY <1>1, <1>2, IInvFacts DEF StopOnce, NoStop, Running, LoopHead
    <1>4. CurrentOK'
        BY <1>1, <1>2, IInvFacts DEF CurrentOK, LiveWorkerIsCurrent, Live, LoopHead
    <1>5. QED BY <1>1, <1>3, <1>4, OrderStays DEF MarkOK
LEMMA DequeueLInv ==
    ASSUME LInv, NEW w \in Tasks, Dequeue(w)
    PROVE  StopOnce' /\ CurrentOK' /\ MarkOK' /\ OrderOK'
    <1> USE DEF LInv, callerVars, deliveryVars
    <1> DEFINE item == Head(queue)
    <1>1. /\ pc[w] = "get" /\ queue # << >> /\ queue' = Tail(queue)
          /\ hand' = [hand EXCEPT ![w] = <<item>>]
          /\ pc' = [pc EXCEPT ![w] = "got"]
          /\ UNCHANGED <<workerTask, stopped, awaiting, mark, table>>
        BY DEF Dequeue
    <1>2. /\ queue' \in Seq(Nat) /\ Suffix(queue', queue, 1)
          /\ item = queue[1] /\ 1 \in 1..Len(queue) /\ item \in Range(queue)
        BY <1>1, TailIsSuffix, IInvFacts
    <1> HIDE DEF item
    <1>3. /\ Ascending(queue') /\ OneStop(queue') /\ Range(queue') \subseteq Range(queue)
          /\ \A k : Beyond(queue, k) => Beyond(queue', k)
          /\ item = STOP => STOP \notin Range(queue')
        BY <1>2, SuffixKeeps, IInvFacts DEF StopOnce, OrderOK
    <1>4. workerTask = w /\ w # NoTask
        BY <1>1, IInvFacts DEF CurrentOK, LiveWorkerIsCurrent, Live
    <1>5. /\ hand'[w] = <<item>> /\ Range(<<item>>) = {item} /\ Ascending(<<item>>)
          /\ \A v \in Tasks : v # w => hand'[v] = hand[v] /\ STOP \notin Range(hand[v])
                                       /\ Hands[v] = {}
        BY <1>1, <1>4, IInvFacts, NothingAtHand DEF Range, Ascending
    <1>6. NoStop => NoStop'
        BY <1>2, <1>3, <1>5 DEF NoStop
    <1>7. StopOnce'
        BY <1>1, <1>3, <1>4, <1>5, <1>6, IInvFacts DEF StopOnce, Running
    <1>8. CurrentOK'
        BY <1>1, <1>4, IInvFacts DEF CurrentOK, LiveWorkerIsCurrent, Live
    <1>9. MarkOK'
        BY <1>1, <1>3 DEF MarkOK
    <1>10. OrderOK'
        <2>1. /\ Hands'[w] = {item} \ {STOP}
              /\ \A v \in Tasks : v # w => Hands'[v] = {}
            <3>1. \A v \in Tasks : v # w => Hands'[v] = Hands[v]
                BY <1>5, PlacesOf
            <3>2. QED BY <1>5, <3>1, PlacesOf
        <2>2. Queued' \subseteq Queued /\ Hands'[w] \subseteq Queued
            BY <1>2, <1>3, <2>1, PlacesOf
        <2>3. Below(Hands'[w], Queued')
            <3> SUFFICES ASSUME item # STOP, NEW g \in Range(queue'), g # STOP
                         PROVE  item < g
                BY <2>1, PlacesOf DEF Below
            <3>1. PICK i \in 1..Len(queue') : queue'[i] = g
                BY <1>2, InRange
            <3>2. queue[1 + i] = g /\ 1 + i \in 1..Len(queue) /\ 1 < 1 + i
                <4>1. /\ Len(queue') = Len(queue) - 1
                      /\ \A k \in 1..Len(queue') : queue'[k] = queue[1 + k]
                    BY <1>2 DEF Suffix
                <4>2. queue[1 + i] = g
                    BY ONLY <3>1, <4>1
                <4>3. Len(queue) \in Nat
                    BY IInvFacts
                <4>4. 1 + i \in 1..Len(queue) /\ 1 < 1 + i
                    BY ONLY <3>1, <4>1, <4>3
                <4>5. QED BY ONLY <4>2, <4>4
            <3>3. QED BY <1>2, <3>2 DEF OrderOK, Ascending
        <2>4. \A v \in Tasks : Ascending(hand'[v])
            BY <1>5 DEF OrderOK
        <2>5. \A v \in Tasks : Below(Range(table), Hands'[v]) /\ Below(Hands'[v], Queued')
            BY <2>1, <2>2, <2>3 DEF OrderOK, Below
        <2>6. Below(Range(table), Queued')
            BY <2>2 DEF OrderOK, Below
        <2>7. QED BY <1>1, <1>3, <2>4, <2>5, <2>6 DEF OrderOK
    <1>11. QED BY <1>7, <1>8, <1>9, <1>10

LEMMA GotStopLInv ==
    ASSUME LInv, NEW w \in Tasks, GotStop(w)
    PROVE  StopOnce' /\ CurrentOK' /\ MarkOK' /\ OrderOK'
    <1> USE DEF LInv, callerVars, deliveryVars
    <1>1. /\ pc[w] = "got" /\ hand[w] = <<STOP>> /\ stopped' = TRUE
          /\ hand' = [hand EXCEPT ![w] = << >>]
          /\ pc' = [pc EXCEPT ![w] = "done"]
          /\ UNCHANGED <<queue, workerTask, awaiting, mark, table>>
        BY DEF GotStop
    <1>2. workerTask = w /\ w # NoTask
        BY <1>1, IInvFacts DEF CurrentOK, LiveWorkerIsCurrent, Live
    <1>3. Range(hand[w]) = {STOP} /\ STOP \notin Range(queue)
        BY <1>1 DEF StopOnce, Range
    <1>4. /\ hand'[w] = << >>
          /\ \A v \in Tasks : v # w => hand'[v] = hand[v] /\ STOP \notin Range(hand[v])
        BY <1>1, <1>2, IInvFacts, NothingAtHand
    <1>5. NoStop' /\ ~NoStop
        BY <1>1, <1>3, <1>4, EmptyRange DEF NoStop
    <1>6. StopOnce'
        BY <1>1, <1>5 DEF StopOnce, NoStop
    <1>7. CurrentOK'
        BY <1>1, <1>2, IInvFacts DEF CurrentOK, LiveWorkerIsCurrent, Live
    <1>8. MarkOK'
        BY <1>1 DEF MarkOK
    <1>9. OrderOK'
        <2>1. Queued' = Queued
            BY <1>1 DEF Queued
        <2>2. Hands'[w] = {} /\ Hands[w] = {}
            BY <1>3, <1>4, EmptyRange, PlacesOf
        <2>3. \A v \in Tasks : v # w => Hands'[v] = Hands[v]
            BY <1>4, PlacesOf
        <2>4. \A v \in Tasks : Ascending(hand'[v])
            BY <1>4 DEF OrderOK, Ascending
        <2>5. QED BY <1>1, <2>1, <2>2, <2>3, <2>4 DEF OrderOK
    <1>10. QED BY <1>6, <1>7, <1>8, <1>9

LEMMA GotFrameLInv ==
    ASSUME LInv, NEW w \in Tasks, GotFrame(w)
    PROVE  StopOnce' /\ CurrentOK' /\ MarkOK' /\ OrderOK'
    <1> USE DEF LInv, callerVars, deliveryVars
    <1>1. /\ pc[w] = "got" /\ pc' = [pc EXCEPT ![w] = "flush"]
          /\ UNCHANGED <<workerTask, awaiting, mark, table>>
        BY DEF GotFrame
    <1>2. PICK n \in 0..(BatchSize - 1) :
            /\ Takes(n)
            /\ hand' = [hand EXCEPT ![w] = @ \o SubSeq(queue, 1, n)]
            /\ IF n < BatchSize - 1 /\ n < Len(queue)
               THEN /\ queue' = SubSeq(queue, n + 2, Len(queue))
                    /\ stopped' = TRUE
               ELSE /\ queue' = SubSeq(queue, n + 1, Len(queue))
                    /\ UNCHANGED stopped
        BY DEF GotFrame
    <1> DEFINE front == SubSeq(queue, 1, n)
    <1> DEFINE m == IF n < BatchSize - 1 /\ n < Len(queue) THEN n + 1 ELSE n
    <1>3. /\ n \in 0..Len(queue) /\ m \in n..Len(queue)
          /\ \A i \in 1..n : queue[i] # STOP
          /\ queue' = SubSeq(queue, m + 1, Len(queue))
          /\ m = n => stopped' = stopped
          /\ m # n => stopped' = TRUE /\ queue[m] = STOP
        <2>1. BatchSize \in Nat \ {0} /\ Len(queue) \in Nat
            BY IngestionConstants, IInvFacts
        <2>2. n <= Len(queue) /\ \A i \in 1..n : queue[i] # STOP
            BY <1>2 DEF Takes
        <2>3. CASE n < BatchSize - 1 /\ n < Len(queue)
            <3>1. m = n + 1 /\ m + 1 = n + 2 /\ m \in n..Len(queue)
                BY <2>1, <2>3
            <3>2. queue[m] = STOP
                BY <2>3, <1>2, <3>1 DEF Takes
            <3>3. queue' = SubSeq(queue, m + 1, Len(queue)) /\ stopped' = TRUE
                BY <2>3, <1>2, <3>1
            <3> HIDE DEF m
            <3>4. n \in 0..Len(queue)
                BY <2>1, <2>2
            <3>5. m # n
                BY <3>1
            <3>6. QED BY <2>2, <3>1, <3>2, <3>3, <3>4, <3>5
        <2>4. CASE ~(n < BatchSize - 1 /\ n < Len(queue))
            BY <2>1, <2>2, <2>4, <1>2
        <2>5. QED BY <2>3, <2>4
    <1> HIDE DEF m
    <1>4. /\ front \in Seq(Nat) /\ Len(front) = n
          /\ \A i \in 1..n : front[i] = queue[i] /\ i \in 1..Len(queue)
        <2>1. \A i \in 1..n : i \in 1..Len(queue)
            BY <1>3, IInvFacts
        <2>2. queue \in Seq(Nat) /\ n <= Len(queue) /\ n \in Nat
            BY <1>3, IInvFacts
        <2>3. QED BY <2>1, <2>2, SubSeqProperties
    <1> HIDE DEF front
    <1>5. queue' \in Seq(Nat) /\ Suffix(queue', queue, m)
        <2>1. queue \in Seq(Nat) /\ m \in 0..Len(queue)
            BY <1>3, IInvFacts
        <2>2. queue' = SubSeq(queue, m + 1, Len(queue))
            BY <1>3
        <2>3. QED BY ONLY <2>1, <2>2, RestIsSuffix
    <1>6. /\ Ascending(queue') /\ OneStop(queue') /\ Range(queue') \subseteq Range(queue)
          /\ \A k : Beyond(queue, k) => Beyond(queue', k)
          /\ m # n => STOP \in Range(queue) /\ STOP \notin Range(queue')
        <2>1. m # n => m \in 1..m /\ m \in 1..Len(queue)
            BY <1>3
        <2>2. OneStop(queue) /\ Ascending(queue) /\ queue \in Seq(Nat)
            BY IInvFacts DEF StopOnce, OrderOK
        <2>3. /\ Ascending(queue') /\ OneStop(queue') /\ Range(queue') \subseteq Range(queue)
              /\ \A k : Beyond(queue, k) => Beyond(queue', k)
              /\ \A i \in 1..m : queue[i] = STOP => STOP \notin Range(queue')
            BY <1>5, <2>2, SuffixKeeps
        <2>4. m # n => STOP \in Range(queue)
            BY <1>3, <2>1, <2>2, InRange
        <2>5. QED BY <1>3, <2>1, <2>3, <2>4
    <1>7. workerTask = w /\ w # NoTask
        BY <1>1, IInvFacts DEF CurrentOK, LiveWorkerIsCurrent, Live
    <1>8. STOP \notin Range(hand'[w])
        <2>1. IInv'
            BY GotFrameIInv
        <2>2. pc'[w] = "flush"
            BY <1>1, IInvFacts
        <2>3. QED BY <2>1, <2>2 DEF IInv, HandOK
    <1>9. /\ hand'[w] = hand[w] \o front /\ hand[w] \in Seq(Nat)
          /\ \A v \in Tasks : v # w => hand'[v] = hand[v] /\ STOP \notin Range(hand[v])
                                       /\ Hands[v] = {}
        BY <1>2, <1>7, IInvFacts, NothingAtHand DEF front
    <1>10. Range(hand'[w]) = Range(hand[w]) \cup Range(front)
        BY <1>4, <1>9, RangeConcatenation
    <1>11. STOP \notin Range(queue') => NoStop'
        BY <1>8, <1>9 DEF NoStop
    <1>12. (NoStop => NoStop' /\ m = n) /\ (stopped => stopped')
        BY <1>3, <1>6, <1>11 DEF NoStop
    <1>13. StopOnce'
        <2>1. stopped' => NoStop'
            BY <1>3, <1>6, <1>11, <1>12 DEF StopOnce
        <2>2. \A v \in Tasks : STOP \in Range(hand'[v]) => STOP \notin Range(queue')
            BY <1>8, <1>9
        <2>3. (\A c \in Callers : awaiting'[c] = NoTask) => NoStop' /\ (Running' => ~stopped')
            <3> SUFFICES ASSUME \A c \in Callers : awaiting'[c] = NoTask
                         PROVE  NoStop' /\ ~stopped'
                OBVIOUS
            <3>1. NoStop /\ (Running => ~stopped)
                BY <1>1 DEF StopOnce
            <3>2. Running
                BY <1>1, <1>7 DEF Running
            <3>3. QED BY <1>3, <1>12, <3>1, <3>2
        <2>4. pc'[workerTask'] # "done"
            BY <1>1, <1>7, IInvFacts
        <2>5. QED BY <1>6, <2>1, <2>2, <2>3, <2>4 DEF StopOnce
    <1>14. CurrentOK'
        BY <1>1, <1>7, IInvFacts DEF CurrentOK, LiveWorkerIsCurrent, Live
    <1>15. MarkOK'
        BY <1>1, <1>6 DEF MarkOK
    <1>16. OrderOK'
        <2>1. Range(front) \subseteq Queued
            <3> SUFFICES ASSUME NEW f \in Range(front) PROVE f \in Range(queue) /\ f # STOP
                BY PlacesOf
            <3>1. PICK i \in 1..n : front[i] = f
                BY <1>4, InRange
            <3>2. QED BY <1>3, <1>4, <3>1, IInvFacts, InRange
        <2>2. Queued' \subseteq Queued
            BY <1>6, PlacesOf
        <2>3. Hands'[w] = Hands[w] \cup Range(front)
            BY <1>8, <1>10, PlacesOf
        <2>4. \A v \in Tasks : v # w => Hands'[v] = {}
            <3>1. \A v \in Tasks : v # w => Hands'[v] = Hands[v]
                BY <1>9, PlacesOf
            <3>2. QED BY <1>9, <3>1
        <2>5. Below(Range(front), Queued')
            <3> SUFFICES ASSUME NEW f \in Range(front), NEW g \in Range(queue'), g # STOP
                         PROVE  f < g
                BY PlacesOf DEF Below
            <3>1. PICK i \in 1..n : front[i] = f
                BY <1>4, InRange
            <3>2. PICK j \in 1..Len(queue') : queue'[j] = g
                BY <1>5, InRange
            <3>3. queue[m + j] = g /\ m + j \in 1..Len(queue) /\ i < m + j
                BY <1>3, <1>5, <3>2, IInvFacts DEF Suffix
            <3>4. queue[i] = f /\ i \in 1..Len(queue) /\ f # STOP
                BY <1>3, <1>4, <3>1
            <3>5. QED BY <3>3, <3>4 DEF OrderOK, Ascending
        <2>6. Ascending(hand'[w])
            <3>1. STOP \notin Range(front) /\ STOP \notin Range(hand[w])
                BY <1>8, <1>10
            <3>2. Ascending(front)
                BY <1>3, <1>4 DEF Ascending, OrderOK
            <3>3. Below(Range(hand[w]) \ {STOP}, Range(front))
                BY <2>1, PlacesOf DEF OrderOK, Below
            <3>4. Ascending(hand[w])
                BY DEF OrderOK
            <3>5. QED BY <1>4, <1>9, <3>1, <3>2, <3>3, <3>4, JoinKeeps
        <2>7. \A v \in Tasks : Ascending(hand'[v])
            BY <1>9, <2>6 DEF OrderOK
        <2>8. \A v \in Tasks : Below(Range(table), Hands'[v]) /\ Below(Hands'[v], Queued')
            BY <2>1, <2>2, <2>3, <2>4, <2>5 DEF OrderOK, Below
        <2>9. Below(Range(table), Queued')
            BY <2>2 DEF OrderOK, Below
        <2>10. QED BY <1>1, <1>6, <2>7, <2>8, <2>9 DEF OrderOK
    <1>17. QED BY <1>13, <1>14, <1>15, <1>16

LEMMA FlushLInv ==
    ASSUME LInv, NEW w \in Tasks, FlushOk(w) \/ FlushFails(w)
    PROVE  StopOnce' /\ CurrentOK' /\ MarkOK' /\ OrderOK'
    <1> USE DEF LInv, callerVars
    <1>1. /\ pc[w] = "flush" /\ pc' = [pc EXCEPT ![w] = LoopHead(stopped)]
          /\ hand' = [hand EXCEPT ![w] = << >>]
          /\ table' = table \/ table' = table \o hand[w]
          /\ UNCHANGED <<queue, workerTask, stopped, awaiting, mark>>
        BY DEF FlushOk, FlushFails
    <1>2. workerTask = w /\ w # NoTask /\ Live(w)
        BY <1>1, IInvFacts DEF CurrentOK, LiveWorkerIsCurrent, Live
    <1>3. /\ hand'[w] = << >> /\ Range(hand'[w]) = {} /\ hand[w] \in Seq(Nat)
          /\ STOP \notin Range(hand[w])
          /\ \A v \in Tasks : v # w => hand'[v] = hand[v] /\ STOP \notin Range(hand[v])
                                       /\ Hands[v] = {}
        BY <1>1, <1>2, IInvFacts, NothingAtHand, EmptyRange DEF IInv, HandOK
    <1>4. NoStop => NoStop'
        BY <1>1, <1>3 DEF NoStop
    <1>5. StopOnce'
        BY <1>1, <1>2, <1>3, <1>4, IInvFacts DEF StopOnce, Running, Live, LoopHead
    <1>6. CurrentOK'
        BY <1>1, <1>2, IInvFacts DEF CurrentOK, LiveWorkerIsCurrent, Live, LoopHead
    <1>7. MarkOK'
        BY <1>1 DEF MarkOK
    <1>8. OrderOK'
        <2>1. \A v \in Tasks : Hands'[v] = {} /\ Ascending(hand'[v])
            <3>1. \A v \in Tasks : v # w => Hands'[v] = Hands[v]
                BY <1>3, PlacesOf
            <3>2. Hands'[w] = {} /\ Ascending(hand'[w])
                BY <1>3, PlacesOf DEF Ascending
            <3>3. QED BY <1>3, <3>1, <3>2 DEF OrderOK
        <2>2. Queued' = Queued /\ Hands[w] = Range(hand[w])
            <3>1. Queued' = Queued
                BY <1>1 DEF Queued
            <3>2. Hands[w] = Range(hand[w]) \ {STOP}
                BY PlacesOf
            <3>3. QED BY <1>3, <3>1, <3>2
        <2>3. Ascending(table')
            <3>1. Below(Range(table) \ {STOP}, Range(hand[w])) /\ Ascending(hand[w])
                BY <2>2 DEF OrderOK, Below
            <3>2. Ascending(table) /\ table \in Seq(Nat)
                BY IInvFacts DEF OrderOK
            <3>3. Ascending(table \o hand[w])
                BY <1>3, <3>1, <3>2, JoinKeeps
            <3>4. QED BY <1>1, <3>2, <3>3
        <2>4. Range(table') \subseteq Range(table) \cup Hands[w]
            <3>1. Range(table \o hand[w]) = Range(table) \cup Range(hand[w])
                BY <1>3, IInvFacts, RangeConcatenation
            <3>2. table' = table \/ table' = table \o hand[w]
                BY <1>1
            <3>3. QED BY <2>2, <3>1, <3>2, Zenon
        <2>5. Below(Range(table'), Queued')
            BY <2>2, <2>4 DEF OrderOK, Below
        <2>6. QED BY <1>1, <2>1, <2>3, <2>5 DEF OrderOK, Below
    <1>9. QED BY <1>5, <1>6, <1>7, <1>8
-----------------------------------------------------------------------------
LEMMA InitLInv == Init => LInv
    <1> SUFFICES ASSUME Init PROVE LInv
        OBVIOUS
    <1>1. IInv
        BY InitIInv
    <1>2. /\ queue = << >> /\ table = << >> /\ workerTask = NoTask
          /\ \A w \in Tasks : hand[w] = << >> /\ pc[w] = "unborn"
          /\ \A c \in Callers : awaiting[c] = NoTask
        BY DEF Init
    <1>3. NoStop /\ Ascending(<< >>) /\ OneStop(<< >>)
        BY <1>2, EmptyRange DEF NoStop, Ascending, OneStop
    <1>4. StopOnce
        BY <1>2, <1>3 DEF StopOnce, NoStop, Running
    <1>5. CurrentOK
        BY <1>1, <1>2, IInvFacts DEF CurrentOK, LiveWorkerIsCurrent, Live
    <1>6. MarkOK
        BY <1>2 DEF MarkOK
    <1>7. OrderOK
        <2>1. Queued = {} /\ Range(table) = {} /\ \A w \in Tasks : Hands[w] = {}
            BY <1>2, EmptyRange, PlacesOf
        <2>2. QED BY <1>2, <1>3, <2>1 DEF OrderOK, Below
    <1>8. QED BY <1>1, <1>4, <1>5, <1>6, <1>7 DEF LInv

LEMMA StepLInv == OneCaller /\ LInv /\ [Next]_vars => LInv'
    <1> SUFFICES ASSUME OneCaller, LInv, [Next]_vars PROVE LInv'
        OBVIOUS
    <1> DEFINE Rest == StopOnce' /\ CurrentOK' /\ MarkOK' /\ OrderOK'
    <1>1. ASSUME NEW n \in 1..MaxPost, Enqueue(n) PROVE Rest
        BY <1>1, EnqueueLInv
    <1>2. ASSUME NEW c \in Callers,
                 Start(c) \/ StopRequest(c) \/ StopNoWorker(c) \/ StopReturn(c)
          PROVE  Rest
        BY <1>2, StartLInv, StopRequestLInv, StopNoWorkerLInv, StopReturnLInv
    <1>3. ASSUME NEW w \in Tasks, Worker(w) PROVE Rest
        BY <1>3, RetryLInv, DequeueLInv, GotStopLInv, GotFrameLInv, FlushLInv DEF Worker
    <1>4. ASSUME UNCHANGED vars PROVE Rest
        <2> USE <1>4 DEF vars, workerVars, callerVars, deliveryVars, LInv
        <2>1. StopOnce'
            BY DEF StopOnce, NoStop, Running
        <2>2. CurrentOK'
            BY DEF CurrentOK, LiveWorkerIsCurrent, Live
        <2>3. MarkOK'
            BY DEF MarkOK
        <2>4. UNCHANGED <<queue, hand, table>>
            OBVIOUS
        <2>5. QED BY <2>1, <2>2, <2>3, <2>4, OrderStays
    <1> HIDE DEF Rest
    <1>5. Rest
        BY <1>1, <1>2, <1>3, <1>4 DEF Next
    <1>6. IInv'
        BY StepIInv DEF LInv
    <1>7. QED BY <1>5, <1>6 DEF LInv, Rest

LEMMA LifespanInductive ==
    ASSUME OneCaller
    PROVE  Spec => []LInv
    <1>1. LInv /\ [Next]_vars => LInv'
        BY StepLInv
    <1>2. QED BY InitLInv, <1>1, PTL DEF Spec

(* With one caller of start_worker and stop_worker, rows are written in    *)
(* the order in which their frames were accepted: across restarts of the   *)
(* worker, failed batches and a _STOP read in the middle of a batch.       *)
THEOREM RowsInOrder ==
    ASSUME OneCaller
    PROVE  Spec => []StoredInOrder
    <1>1. ASSUME LInv PROVE StoredInOrder
        <2>1. /\ table \in Seq(Nat) /\ Ascending(table)
              /\ \A i \in 1..Len(table) : table[i] # STOP
            <3>1. STOP \notin Range(table)
                BY <1>1, PartitionIff DEF LInv, IInv, Partition, STOP
            <3>2. QED BY <1>1, <3>1, IInvFacts, InRange DEF LInv, OrderOK
        <2>2. DOMAIN table = 1..Len(table)
            BY <2>1
        <2>3. QED BY <2>1, <2>2 DEF StoredInOrder, Ascending
    <1>2. QED BY LifespanInductive, <1>1, PTL

(* With one caller, is_running never calls a worker gone that still runs,  *)
(* so start_worker never starts a second one beside it.                    *)
THEOREM OneWorkerAtATime ==
    ASSUME OneCaller
    PROVE  Spec => []LiveWorkerIsCurrent
    <1>1. LInv => LiveWorkerIsCurrent
        BY DEF LInv, CurrentOK
    <1>2. QED BY LifespanInductive, <1>1, PTL

(* With one caller, when stop_worker returns, every frame accepted before  *)
(* it was called is written or was in a batch that failed.                 *)
THEOREM StopLeavesNothingBehind ==
    ASSUME OneCaller
    PROVE  Spec => []StopFlushesEarlierFrames
    <1>1. ASSUME LInv PROVE StopFlushesEarlierFrames
        <2> SUFFICES ASSUME NEW c \in Callers, awaiting[c] # NoTask,
                            pc[awaiting[c]] = "done", NEW f \in 1..mark[c]
                     PROVE  f \in Range(table) \cup discarded
            BY DEF StopFlushesEarlierFrames
        <2> USE <1>1 DEF LInv
        <2>1. awaiting[c] = workerTask /\ NoStop /\ Beyond(queue, mark[c])
            BY DEF CurrentOK, StopOnce, MarkOK
        <2>2. \A w \in Tasks : Hands[w] = {}
            BY <2>1, NothingAtHand DEF Live
        <2>3. f \notin Range(queue)
            <3> SUFFICES ASSUME f \in Range(queue) PROVE FALSE
                OBVIOUS
            <3>1. PICK i \in 1..Len(queue) : queue[i] = f
                BY IInvFacts, InRange
            <3>2. \A j \in 1..Len(queue) : queue[j] # STOP
                BY <2>1, IInvFacts, InRange, SMTT(30) DEF NoStop
            <3>3. \A j \in i..Len(queue) : j \in 1..Len(queue)
                BY <3>1, IInvFacts
            <3>4. f > mark[c]
                BY <2>1, <3>1, <3>2, <3>3 DEF Beyond
            <3>5. QED BY <3>4, IInvFacts
        <2>4. f \in 1..accepted
            BY IInvFacts
        <2>5. Partition(accepted, Queued, Hands, Range(table), discarded)
            BY PartitionIff DEF IInv
        <2>6. QED BY <2>2, <2>3, <2>4, <2>5, PlacesOf DEF Partition
    <1>2. QED BY LifespanInductive, <1>1, PTL
=============================================================================
