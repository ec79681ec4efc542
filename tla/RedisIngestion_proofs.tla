----------------------- MODULE RedisIngestion_proofs -----------------------
(***************************************************************************)
(* Proofs about RedisIngestion, for any number of processes, batch size    *)
(* and number of faults and resets.                                        *)
(***************************************************************************)
EXTENDS RedisIngestion, SequenceTheorems, TLAPS

-----------------------------------------------------------------------------
(* The last entry that was delivered, or lost in a reset.                  *)
Delivered == IF group = NoGroup THEN base ELSE group.last

(* A group starts behind the entries lost before it; the first one, before *)
(* any process serves and so at the beginning of the stream.               *)
GroupOK ==
    /\ resets \in Nat
    /\ group # NoGroup => base <= group.start /\ group.start <= group.last
    /\ resets = 0 =>
        /\ base = 0
        /\ group = NoGroup => accepted = 0 /\ \A p \in Procs : pc[p] = "down"
        /\ group # NoGroup => group.start = 0

Once(s) == \A i, j \in DOMAIN s : s[i] = s[j] => i = j

(* What a worker task holds: nothing outside _flush and what leads to it;  *)
(* entries not stored, then stored ones; nothing that another one holds.   *)
HandOK ==
    /\ \A p \in Procs :
        /\ pc[p] \notin {"got", "ack"} => hand[p] = << >>
        /\ pc[p] = "got" => Range(hand[p]) \cap Stored = {}
        /\ pc[p] = "ack" => Range(hand[p]) \subseteq Stored
        /\ Once(hand[p])
        /\ \A f \in Range(hand[p]) : f <= Delivered
    /\ \A p, q \in Procs : p # q => Range(hand[p]) \cap Range(hand[q]) = {}
    /\ \A f \in Stored : f <= Delivered

IInv == TypeOK /\ GroupOK /\ HandOK /\ AckedIsStored
-----------------------------------------------------------------------------
(* Sequences of frames, and their items as sets.                           *)
LEMMA RangeOf ==
  ASSUME NEW S, NEW s \in Seq(S)
  PROVE  /\ Len(s) \in Nat /\ DOMAIN s = 1..Len(s) /\ Range(s) \subseteq S
         /\ \A x : x \in Range(s) <=> \E i \in 1..Len(s) : s[i] = x
BY DEF Range

LEMMA RangeOfEmpty == Range(<< >>) = {} /\ Once(<< >>)
BY DEF Range, Once

LEMMA RangeOfJoined ==
  ASSUME NEW S, NEW s \in Seq(S), NEW t \in Seq(S)
  PROVE  s \o t \in Seq(S) /\ Range(s \o t) = Range(s) \cup Range(t)
<1>1. s \o t \in Seq(S) /\ Len(s \o t) = Len(s) + Len(t)
  OBVIOUS
<1>2. \A i \in 1..(Len(s) + Len(t)) :
         (s \o t)[i] = IF i <= Len(s) THEN s[i] ELSE t[i - Len(s)]
  OBVIOUS
<1>3. Len(s) \in Nat /\ Len(t) \in Nat
  OBVIOUS
<1>4. ASSUME NEW x \in Range(s \o t) PROVE x \in Range(s) \cup Range(t)
  <2>1. PICK i \in 1..(Len(s) + Len(t)) : (s \o t)[i] = x
    BY <1>1, <1>4, RangeOf
  <2>2. CASE i <= Len(s)
    BY <2>1, <2>2, <1>2, <1>3, RangeOf
  <2>3. CASE ~(i <= Len(s))
    <3>1. i - Len(s) \in 1..Len(t) /\ t[i - Len(s)] = x
      BY <2>1, <2>3, <1>2, <1>3
    <3> QED
      BY <3>1, RangeOf
  <2> QED
    BY <2>2, <2>3
<1>5. ASSUME NEW x \in Range(s) PROVE x \in Range(s \o t)
  <2>1. PICK i \in 1..Len(s) : s[i] = x
    BY <1>5, RangeOf
  <2>2. i \in 1..Len(s \o t) /\ (s \o t)[i] = x
    BY <2>1, <1>1, <1>2, <1>3
  <2> QED
    BY <2>2, <1>1, RangeOf
<1>6. ASSUME NEW x \in Range(t) PROVE x \in Range(s \o t)
  <2>1. PICK i \in 1..Len(t) : t[i] = x
    BY <1>6, RangeOf
  <2>2. i + Len(s) \in 1..Len(s \o t) /\ (s \o t)[i + Len(s)] = x
    BY <2>1, <1>1, <1>2, <1>3
  <2> QED
    BY <2>2, <1>1, RangeOf
<1> QED
  BY <1>1, <1>4, <1>5, <1>6

LEMMA Behind ==
  ASSUME NEW n \in Nat, NEW i \in Nat, i <= n
  PROVE  /\ (IF i + 1 <= n THEN n - (i + 1) + 1 ELSE 0) = n - i
         /\ n - (i + 1) + 1 = n - i
OBVIOUS

(* One item fewer.                                                         *)
LEMMA RangeWithout ==
  ASSUME NEW S, NEW s \in Seq(S), NEW i \in 1..Len(s), Once(s)
  PROVE  /\ RemoveAt(s, i) \in Seq(S) /\ Once(RemoveAt(s, i))
         /\ Range(RemoveAt(s, i)) = Range(s) \ {s[i]}
<1> DEFINE front == SubSeq(s, 1, i - 1)
           back  == SubSeq(s, i + 1, Len(s))
           r     == front \o back
<1>1. Len(s) \in Nat \ {0} /\ i \in Nat \ {0} /\ i <= Len(s) /\ DOMAIN s = 1..Len(s)
  OBVIOUS
<1>2. front \in Seq(S) /\ Len(front) = i - 1 /\ \A k \in 1..(i - 1) : front[k] = s[k]
  <2>1. 1 \in 1..(Len(s) + 1) /\ i - 1 \in (1 - 1)..Len(s)
    BY <1>1, SMTT(30)
  <2> QED
    BY <2>1, <1>1, SubSeqProperties
<1>3. back \in Seq(S) /\ Len(back) = Len(s) - i /\ \A k \in 1..(Len(s) - i) : back[k] = s[k + i]
  <2>1. i + 1 \in 1..(Len(s) + 1) /\ Len(s) \in ((i + 1) - 1)..Len(s)
    BY <1>1
  <2>2. \A k \in (i + 1)..Len(s) : s[k] \in S
    BY <1>1
  <2>3. /\ back \in Seq(S)
        /\ Len(back) = IF i + 1 <= Len(s) THEN Len(s) - (i + 1) + 1 ELSE 0
        /\ \A k \in 1..(Len(s) - (i + 1) + 1) : back[k] = s[(i + 1) + k - 1]
    BY <2>1, <2>2, SubSeqProperties, SMTT(30)
  <2>4. /\ (IF i + 1 <= Len(s) THEN Len(s) - (i + 1) + 1 ELSE 0) = Len(s) - i
        /\ Len(s) - (i + 1) + 1 = Len(s) - i
    BY <1>1, Behind
  <2> HIDE DEF back
  <2>5. \A k \in 1..(Len(s) - i) : (i + 1) + k - 1 = k + i
    BY <1>1
  <2> QED
    BY <2>3, <2>4, <2>5
<1> HIDE DEF front, back
<1>4. r \in Seq(S) /\ Len(r) = Len(s) - 1 /\ DOMAIN r = 1..(Len(s) - 1)
  <2>1. r \in Seq(S) /\ Len(r) = Len(front) + Len(back)
    BY <1>2, <1>3, ConcatProperties
  <2>2. Len(r) = Len(s) - 1
    BY <2>1, <1>1, <1>2, <1>3
  <2> HIDE DEF r
  <2> QED
    BY <2>1, <2>2
<1>5. \A k \in 1..(Len(s) - 1) : r[k] = IF k < i THEN s[k] ELSE s[k + 1]
  <2> SUFFICES ASSUME NEW k \in 1..(Len(s) - 1)
               PROVE  r[k] = IF k < i THEN s[k] ELSE s[k + 1]
    OBVIOUS
  <2>1. CASE k < i
    BY <2>1, <1>1, <1>2, <1>3
  <2>2. CASE ~(k < i)
    <3>1. r[k] = back[k - (i - 1)]
      BY <2>2, <1>1, <1>2, <1>3
    <3>2. k - (i - 1) \in 1..(Len(s) - i) /\ (k - (i - 1)) + i = k + 1
      BY <2>2, <1>1
    <3> QED
      BY <2>2, <3>1, <3>2, <1>3
  <2> QED
    BY <2>1, <2>2
<1> HIDE DEF r
<1>6. Once(r)
  <2> SUFFICES ASSUME NEW j \in 1..(Len(s) - 1), NEW k \in 1..(Len(s) - 1), r[j] = r[k]
               PROVE  j = k
    BY <1>4 DEF Once
  <2> DEFINE At(n) == IF n < i THEN n ELSE n + 1
  <2>1. r[j] = s[At(j)] /\ r[k] = s[At(k)] /\ At(j) \in DOMAIN s /\ At(k) \in DOMAIN s
    BY <1>1, <1>5
  <2>2. At(j) = At(k)
    BY <2>1 DEF Once
  <2> QED
    BY <2>2, <1>1
<1>7. ASSUME NEW x \in Range(r) PROVE x \in Range(s) \ {s[i]}
  <2>1. PICK k \in 1..(Len(s) - 1) : r[k] = x
    BY <1>4, <1>7 DEF Range
  <2> DEFINE n == IF k < i THEN k ELSE k + 1
  <2>2. x = s[n] /\ n \in DOMAIN s /\ n # i
    BY <2>1, <1>1, <1>5
  <2> QED
    BY <2>2, <1>1 DEF Once, Range
<1>8. ASSUME NEW x \in Range(s), x # s[i] PROVE x \in Range(r)
  <2>1. PICK n \in 1..Len(s) : s[n] = x
    BY <1>1 DEF Range
  <2>2. n # i
    BY <2>1, <1>8
  <2> DEFINE k == IF n < i THEN n ELSE n - 1
  <2>3. k \in 1..(Len(s) - 1) /\ r[k] = s[n]
    BY <2>2, <1>1, <1>5
  <2> QED
    BY <2>1, <2>3, <1>4 DEF Range
<1> QED
  BY <1>4, <1>6, <1>7, <1>8 DEF r, front, back, RemoveAt

LEMMA SeqGrows ==
  ASSUME NEW S, NEW T, S \subseteq T, NEW s \in Seq(S)
  PROVE  s \in Seq(T)
OBVIOUS

(* The rows of the table and what a worker holds, as sets.                 *)
LEMMA Sets ==
  ASSUME TypeOK
  PROVE  /\ Stored \subseteq Frames
         /\ \A p \in Procs : hand[p] \in Seq(Frames) /\ Range(hand[p]) \subseteq Frames
         /\ accepted \in Nat /\ Frames \subseteq Nat
         /\ group # NoGroup => group.start \in 0..accepted /\ group.last \in 0..accepted
         /\ Delivered \in 0..accepted
<1>1. accepted \in Nat /\ Frames \subseteq Nat
  BY RedisConstants DEF TypeOK, Frames
<1>2. Stored \subseteq Frames
  BY RangeOf DEF TypeOK, Stored
<1>3. \A p \in Procs : hand[p] \in Seq(Frames)
  BY DEF TypeOK
<1>4. \A p \in Procs : Range(hand[p]) \subseteq Frames
  BY <1>3, RangeOf
<1>5. group # NoGroup => group.start \in 0..accepted /\ group.last \in 0..accepted
  BY DEF TypeOK
<1>6. Delivered \in 0..accepted
  BY <1>5 DEF TypeOK, Delivered
<1> QED
  BY <1>1, <1>2, <1>3, <1>4, <1>5, <1>6

-----------------------------------------------------------------------------
(* What becomes of HandOK.                                                 *)

LEMMA AtMost ==
  ASSUME NEW a \in Int, NEW b \in Int, NEW c \in Int, a <= b, b <= c
  PROVE  a <= c
OBVIOUS

LEMMA DeliveredNext ==
  ASSUME TypeOK'
  PROVE  Delivered' \in Int /\ Delivered' <= accepted'
<1>1. base' \in 0..accepted' /\ accepted' \in Int
  BY RedisConstants DEF TypeOK
<1>2. group' # NoGroup => group'.last \in 0..accepted'
  BY DEF TypeOK
<1> QED
  BY <1>1, <1>2 DEF Delivered, NoGroup

(* Hands and rows stay as they are, and so do the places that hold.        *)
LEMMA QuietHand ==
  ASSUME TypeOK, TypeOK', HandOK, UNCHANGED <<hand, table>>, Delivered <= Delivered',
         \A p \in Procs :
           /\ pc'[p] \in {"got", "ack"} => pc'[p] = pc[p]
           /\ pc'[p] # pc[p] => hand[p] = << >>
  PROVE  HandOK'
<1>1. Delivered \in Int /\ Delivered' \in Int /\ Frames \subseteq Int
  BY Sets, DeliveredNext
<1>2. Stored' = Stored /\ Stored \subseteq Frames
  BY Sets DEF Stored
<1>3. \A p \in Procs : Range(hand[p]) \subseteq Frames
  BY Sets
<1>4. \A f \in Frames : f <= Delivered => f <= Delivered'
  <2> SUFFICES ASSUME NEW f \in Frames, f <= Delivered PROVE f <= Delivered'
    OBVIOUS
  <2>1. f \in Int
    BY <1>1
  <2> QED
    BY <1>1, <2>1, AtMost
<1>5. \A p \in Procs :
        /\ pc'[p] \notin {"got", "ack"} => hand[p] = << >>
        /\ pc'[p] = "got" => Range(hand[p]) \cap Stored = {}
        /\ pc'[p] = "ack" => Range(hand[p]) \subseteq Stored
  BY DEF HandOK
<1>6. /\ \A p \in Procs : Once(hand[p]) /\ \A f \in Range(hand[p]) : f <= Delivered'
      /\ \A p, q \in Procs : p # q => Range(hand[p]) \cap Range(hand[q]) = {}
      /\ \A f \in Stored : f <= Delivered'
  BY <1>2, <1>3, <1>4 DEF HandOK
<1> QED
  BY <1>2, <1>5, <1>6 DEF HandOK, Once

(* A worker drops what it holds and is elsewhere.                          *)
LEMMA DropHand ==
  ASSUME TypeOK, HandOK, NEW p \in Procs, NEW x, x \notin {"got", "ack"},
         hand' = [hand EXCEPT ![p] = << >>], pc' = [pc EXCEPT ![p] = x],
         UNCHANGED <<table, base, group>>
  PROVE  HandOK'
<1>1. Stored' = Stored /\ Delivered' = Delivered
  BY DEF Stored, Delivered
<1>2. hand'[p] = << >> /\ pc'[p] = x
      /\ \A q \in Procs \ {p} : hand'[q] = hand[q] /\ pc'[q] = pc[q]
  BY DEF TypeOK
<1>3. \A q \in Procs : Once(hand'[q]) /\ Range(hand'[q]) \subseteq Range(hand[q])
  BY <1>2, RangeOfEmpty DEF HandOK
<1>4. \A q \in Procs :
        /\ pc'[q] \notin {"got", "ack"} => hand'[q] = << >>
        /\ pc'[q] = "got" => Range(hand'[q]) \cap Stored = {}
        /\ pc'[q] = "ack" => Range(hand'[q]) \subseteq Stored
  BY <1>2 DEF HandOK
<1>5. /\ \A q \in Procs : \A f \in Range(hand'[q]) : f <= Delivered
      /\ \A q, r \in Procs : q # r => Range(hand'[q]) \cap Range(hand'[r]) = {}
      /\ \A f \in Stored : f <= Delivered
  BY <1>3 DEF HandOK
<1> QED
  BY <1>1, <1>3, <1>4, <1>5 DEF HandOK, Once

(* A batch is committed; the worker goes on to acknowledge it, or drops it. *)
LEMMA StoreHand ==
  ASSUME TypeOK, HandOK, NEW p \in Procs, NEW x, pc[p] = "got",
         table' = table \o hand[p], pc' = [pc EXCEPT ![p] = x], UNCHANGED <<base, group>>,
         \/ hand' = hand /\ x = "ack"
         \/ hand' = [hand EXCEPT ![p] = << >>] /\ x \notin {"got", "ack"}
  PROVE  /\ Stored' = Stored \cup Range(hand[p])
         /\ table' \in Seq(Frames)
         /\ HandOK'
<1>1. Stored' = Stored \cup Range(hand[p]) /\ table' \in Seq(Frames)
  BY RangeOfJoined, Sets DEF Stored, TypeOK
<1>2. Delivered' = Delivered
  BY DEF Delivered
<1>3. pc'[p] = x /\ \A q \in Procs \ {p} : hand'[q] = hand[q] /\ pc'[q] = pc[q]
  BY DEF TypeOK
<1>4. \/ hand'[p] = hand[p] /\ x = "ack"
      \/ hand'[p] = << >> /\ x \notin {"got", "ack"}
  <2>1. hand \in [Procs -> Seq(Frames)]
    BY DEF TypeOK
  <2> QED
    BY <2>1
<1>5. \A q \in Procs : Once(hand'[q]) /\ Range(hand'[q]) \subseteq Range(hand[q])
  BY <1>3, <1>4, RangeOfEmpty DEF HandOK
<1>6. \A q \in Procs :
        /\ pc'[q] \notin {"got", "ack"} => hand'[q] = << >>
        /\ pc'[q] = "got" => Range(hand'[q]) \cap Stored' = {}
        /\ pc'[q] = "ack" => Range(hand'[q]) \subseteq Stored'
  <2> TAKE q \in Procs
  <2>1. CASE q = p
    BY <2>1, <1>1, <1>3, <1>4
  <2>2. CASE q # p
    BY <2>2, <1>1, <1>3 DEF HandOK
  <2> QED
    BY <2>1, <2>2
<1>7. /\ \A q \in Procs : \A f \in Range(hand'[q]) : f <= Delivered
      /\ \A q, r \in Procs : q # r => Range(hand'[q]) \cap Range(hand'[r]) = {}
      /\ \A f \in Stored' : f <= Delivered
  BY <1>1, <1>5 DEF HandOK
<1>8. HandOK'
  BY <1>2, <1>5, <1>6, <1>7 DEF HandOK, Once
<1> QED
  BY <1>1, <1>8

(* XACK, and whatever else leaves the group alone, for good reason.        *)
LEMMA AckForReason ==
  ASSUME AckedIsStored, UNCHANGED group, Stored \subseteq Stored',
         undecodable \subseteq undecodable', pel \ pel' \subseteq Stored \cup undecodable
  PROVE  AckedIsStored'
BY DEF AckedIsStored

(* A step of a process that is up, and does not change the group.          *)
LEMMA GroupStays ==
  ASSUME GroupOK, NEW p \in Procs, pc[p] # "down",
         UNCHANGED <<base, group, accepted, resets>>
  PROVE  GroupOK'
BY DEF GroupOK
-----------------------------------------------------------------------------
(* The steps, by what they do.                                             *)
Places == {"down", "head", "read", "got", "ack", "ended", "dead"}

(* A worker moves between places where it holds nothing.                   *)
LEMMA MoveStep ==
  ASSUME IInv, NEW p \in Procs, NEW x \in Places \ {"got", "ack"}, pc[p] # "down",
         hand[p] = << >>, pc' = [pc EXCEPT ![p] = x], stopped' \in [Procs -> BOOLEAN],
         UNCHANGED <<hand, redisVars, entryVars, table, resets>>
  PROVE  IInv'
<1> USE DEF IInv, redisVars, entryVars
<1>1. TypeOK'
  BY DEF TypeOK, Frames, Places
<1>2. GroupOK'
  BY GroupStays
<1>3. \A q \in Procs :
        /\ pc'[q] \in {"got", "ack"} => pc'[q] = pc[q]
        /\ pc'[q] # pc[q] => hand[q] = << >>
  BY DEF TypeOK
<1>4. Delivered' = Delivered /\ Delivered \in Int
  BY Sets DEF Delivered
<1>5. HandOK'
  <2>1. Delivered <= Delivered'
    BY <1>4
  <2> QED
    BY <1>1, <1>3, <2>1, QuietHand
<1>6. AckedIsStored'
  BY AckForReason DEF Stored
<1> QED
  BY <1>1, <1>2, <1>5, <1>6

(* A worker drops its batch, acknowledged for good reason or not.          *)
LEMMA DropStep ==
  ASSUME IInv, NEW p \in Procs, NEW x \in Places \ {"got", "ack"}, pc[p] # "down",
         hand' = [hand EXCEPT ![p] = << >>], pc' = [pc EXCEPT ![p] = x],
         pel' \subseteq pel, pel \ pel' \subseteq Stored \cup undecodable,
         UNCHANGED <<stopped, base, group, entryVars, table, resets>>
  PROVE  IInv'
<1> USE DEF IInv, entryVars
<1>1. TypeOK'
  BY DEF TypeOK, Frames, Places
<1>2. GroupOK'
  BY GroupStays
<1>3. HandOK'
  BY DropHand
<1>4. AckedIsStored'
  BY AckForReason DEF Stored
<1> QED
  BY <1>1, <1>2, <1>3, <1>4

(* A batch is committed.                                                   *)
LEMMA StoreStep ==
  ASSUME IInv, NEW p \in Procs, NEW x \in Places, pc[p] = "got",
         table' = table \o hand[p], pc' = [pc EXCEPT ![p] = x],
         \/ hand' = hand /\ x = "ack"
         \/ hand' = [hand EXCEPT ![p] = << >>] /\ x \notin {"got", "ack"},
         UNCHANGED <<stopped, redisVars, entryVars, resets>>
  PROVE  IInv'
<1> USE DEF IInv, entryVars, redisVars
<1>1. Stored' = Stored \cup Range(hand[p]) /\ table' \in Seq(Frames) /\ HandOK'
  BY StoreHand
<1>2. hand' \in [Procs -> Seq(Frames)]
  <2>1. hand \in [Procs -> Seq(Frames)] /\ << >> \in Seq(Frames)
    BY DEF TypeOK
  <2> QED
    BY <2>1
<1>3. TypeOK'
  BY <1>1, <1>2 DEF TypeOK, Frames, Places
<1>4. GroupOK'
  BY GroupStays
<1>5. AckedIsStored'
  BY <1>1, AckForReason
<1> QED
  BY <1>1, <1>3, <1>4, <1>5

(* What XREADGROUP delivers: the next entries, one at least.               *)
LEMMA NextBatchIs ==
  ASSUME TypeOK, group # NoGroup, Unread # {}
  PROVE  /\ NextBatch \in Seq(Frames) /\ Once(NextBatch)
         /\ Len(NextBatch) \in Nat \ {0} /\ group.last + Len(NextBatch) <= accepted
         /\ Range(NextBatch) = (group.last + 1)..(group.last + Len(NextBatch))
<1> DEFINE unread == accepted - group.last
           n      == IF unread < BatchSize THEN unread ELSE BatchSize
<1>1. group.last \in 0..accepted /\ accepted \in Nat
  BY Sets
<1>2. group.last + 1 <= accepted
  BY <1>1 DEF Unread
<1>3. n \in Nat \ {0} /\ group.last + n <= accepted
  BY <1>1, <1>2, RedisConstants
<1>4. NextBatch = [i \in 1..n |-> group.last + i]
  BY DEF NextBatch
<1> HIDE DEF n
<1>5. \A i \in 1..n : group.last + i \in Frames
  BY <1>1, <1>3 DEF Frames
<1>6. NextBatch \in Seq(Frames) /\ Len(NextBatch) = n /\ DOMAIN NextBatch = 1..n
  BY <1>3, <1>4, <1>5
<1>7. Once(NextBatch)
  BY <1>1, <1>3, <1>4, <1>6 DEF Once
<1>8. Range(NextBatch) = (group.last + 1)..(group.last + n)
  <2>1. ASSUME NEW f \in (group.last + 1)..(group.last + n) PROVE f \in Range(NextBatch)
    <3>1. f - group.last \in 1..n /\ group.last + (f - group.last) = f
      BY <1>1, <1>3
    <3> QED
      BY <3>1, <1>4, <1>6 DEF Range
  <2>2. ASSUME NEW f \in Range(NextBatch) PROVE f \in (group.last + 1)..(group.last + n)
    <3>1. PICK i \in 1..n : f = group.last + i
      BY <1>4, <1>6 DEF Range
    <3> QED
      BY <3>1, <1>1, <1>3
  <2> QED
    BY <2>1, <2>2
<1> QED
  BY <1>3, <1>6, <1>7, <1>8

(* What is delivered is pending, and was neither stored nor held before.   *)
LEMMA DeliverIs ==
  ASSUME IInv, Deliver, UNCHANGED <<entryVars, table, resets>>
  PROVE  /\ base' \in 0..accepted'
         /\ group' \in [start : 0..accepted', last : 0..accepted']
         /\ group'.start = group.start /\ group.last <= group'.last
         /\ pel' \subseteq Frames'
         /\ Delivered \in Int /\ Delivered' \in Int /\ Delivered <= Delivered'
         /\ \A f \in Range(NextBatch) : f > Delivered /\ f <= Delivered'
         /\ AckedIsStored'
<1> USE DEF IInv, entryVars
<1>1. /\ NextBatch \in Seq(Frames) /\ Once(NextBatch)
      /\ Len(NextBatch) \in Nat \ {0} /\ group.last + Len(NextBatch) <= accepted
      /\ Range(NextBatch) = (group.last + 1)..(group.last + Len(NextBatch))
  BY NextBatchIs DEF Deliver
<1>2. group \in [start : 0..accepted, last : 0..accepted] /\ accepted \in Nat
  BY Sets DEF TypeOK, Deliver
<1>3. group' = [start |-> group.start, last |-> group.last + Len(NextBatch)]
  BY <1>2 DEF Deliver
<1>4. group' \in [start : 0..accepted', last : 0..accepted'] /\ group' # NoGroup
  BY <1>1, <1>2, <1>3 DEF NoGroup
<1>5. Delivered = group.last /\ Delivered' = group.last + Len(NextBatch)
  BY <1>3, <1>4 DEF Delivered, Deliver
<1>6. \A f \in Range(NextBatch) : f > Delivered /\ f <= Delivered'
  BY <1>1, <1>2, <1>5
<1>7. pel' \subseteq Frames'
  BY <1>1, RangeOf DEF Deliver, TypeOK, Frames
<1>8. AckedIsStored'
  <2> SUFFICES ASSUME NEW f \in (group.start + 1)..(group.last + Len(NextBatch))
               PROVE  f \in pel' \cup Stored' \cup undecodable'
    BY <1>3 DEF AckedIsStored
  <2>1. CASE f <= group.last
    <3>1. f \in (group.start + 1)..group.last
      BY <2>1, <1>1, <1>2
    <3> QED
      BY <3>1 DEF AckedIsStored, Deliver, Stored
  <2>2. CASE ~(f <= group.last)
    <3>1. f \in Range(NextBatch)
      BY <2>2, <1>1, <1>2
    <3> QED
      BY <3>1 DEF Deliver
  <2> QED
    BY <2>1, <2>2
<1>9. base' \in 0..accepted'
  BY DEF Deliver, TypeOK
<1>10. /\ Delivered \in Int /\ Delivered' \in Int
       /\ Delivered <= Delivered' /\ group.last <= group'.last
  BY <1>1, <1>2, <1>3, <1>5
<1> QED
  BY <1>3, <1>4, <1>6, <1>7, <1>8, <1>9, <1>10

LEMMA ReadStep ==
  ASSUME IInv, NEW p \in Procs, Read(p)
  PROVE  IInv'
<1> USE DEF IInv, Read
<1>1. /\ base' \in 0..accepted' /\ group' \in [start : 0..accepted', last : 0..accepted']
      /\ group'.start = group.start /\ group.last <= group'.last
      /\ pel' \subseteq Frames'
      /\ Delivered \in Int /\ Delivered' \in Int /\ Delivered <= Delivered'
      /\ \A f \in Range(NextBatch) : f > Delivered /\ f <= Delivered'
      /\ AckedIsStored'
  BY DeliverIs DEF NoFault, boundVars
<1>2. NextBatch \in Seq(Frames) /\ Once(NextBatch)
  BY NextBatchIs DEF Deliver
<1>3. Frames' = Frames /\ Stored' = Stored
  BY DEF entryVars, Frames, Stored
<1>4. hand' \in [Procs -> Seq(Frames)]
  <2>1. hand \in [Procs -> Seq(Frames)]
    BY DEF TypeOK
  <2> QED
    BY <2>1, <1>2
<1>5. TypeOK'
  BY <1>1, <1>3, <1>4 DEF TypeOK, entryVars
<1>6. GroupOK'
  <2>1. group # NoGroup /\ base' = base /\ resets' = resets
    BY DEF Deliver, NoFault, boundVars
  <2>2. group' # NoGroup
    BY <1>1, Sets DEF NoGroup
  <2>3. group.start \in Int /\ group.last \in Int /\ group'.last \in Int /\ base \in Int
    BY <1>1, <2>1, Sets DEF TypeOK
  <2>4. group'.start <= group'.last
    BY <1>1, <2>1, <2>3 DEF GroupOK
  <2> QED
    BY <1>1, <2>1, <2>2, <2>4 DEF GroupOK
<1>7. pc'[p] = "got" /\ hand'[p] = NextBatch
      /\ \A q \in Procs \ {p} : hand'[q] = hand[q] /\ pc'[q] = pc[q]
  BY DEF TypeOK
<1>8. \A f \in Int : f <= Delivered => f <= Delivered' /\ f \notin Range(NextBatch)
  BY <1>1
<1>9. Stored \subseteq Int /\ \A q \in Procs : Range(hand[q]) \subseteq Int
  BY Sets
<1>10. HandOK'
  <2>1. \A q \in Procs :
          /\ pc'[q] \notin {"got", "ack"} => hand'[q] = << >>
          /\ pc'[q] = "got" => Range(hand'[q]) \cap Stored = {}
          /\ pc'[q] = "ack" => Range(hand'[q]) \subseteq Stored
          /\ Once(hand'[q])
          /\ \A f \in Range(hand'[q]) : f <= Delivered'
    <3> TAKE q \in Procs
    <3>1. CASE q = p
      BY <3>1, <1>1, <1>2, <1>7, <1>8, <1>9 DEF HandOK
    <3>2. CASE q # p
      BY <3>2, <1>7, <1>8, <1>9 DEF HandOK
    <3> QED
      BY <3>1, <3>2
  <2>2. \A q \in Procs : Range(hand[q]) \cap Range(NextBatch) = {}
    BY <1>8, <1>9 DEF HandOK
  <2>3. \A q, r \in Procs : q # r => Range(hand'[q]) \cap Range(hand'[r]) = {}
    BY <2>2, <1>7 DEF HandOK
  <2>4. \A f \in Stored : f <= Delivered'
    BY <1>8, <1>9 DEF HandOK
  <2> QED
    BY <2>1, <2>3, <2>4, <1>3 DEF HandOK, Once
<1> QED
  BY <1>1, <1>5, <1>6, <1>10

(* The reply of the call is lost, or the call.                             *)
LEMMA ReadFailsStep ==
  ASSUME IInv, NEW p \in Procs, ReadFails(p)
  PROVE  IInv'
<1> USE DEF IInv, ReadFails, Fault
<1>1. hand[p] = << >>
  BY DEF HandOK
<1>2. CASE UNCHANGED redisVars
  BY <1>1, <1>2, MoveStep DEF Places, TypeOK
<1>3. CASE Deliver
  <2>1. /\ base' \in 0..accepted' /\ group' \in [start : 0..accepted', last : 0..accepted']
        /\ group'.start = group.start /\ group.last <= group'.last
        /\ pel' \subseteq Frames'
        /\ Delivered <= Delivered'
        /\ AckedIsStored'
    BY <1>3, DeliverIs
  <2>2. TypeOK'
    BY <2>1 DEF TypeOK, entryVars, Frames
  <2>3. GroupOK'
    <3>1. group # NoGroup /\ base' = base /\ resets' = resets
      BY <1>3 DEF Deliver
    <3>2. group' # NoGroup
      BY <2>1, Sets DEF NoGroup
    <3>3. group.start \in Int /\ group.last \in Int /\ group'.last \in Int /\ base \in Int
      BY <2>1, <3>1, Sets DEF TypeOK
    <3>4. group'.start <= group'.last
      BY <2>1, <3>1, <3>3 DEF GroupOK
    <3> QED
      BY <2>1, <3>1, <3>2, <3>4 DEF GroupOK
  <2>4. \A q \in Procs :
          /\ pc'[q] \in {"got", "ack"} => pc'[q] = pc[q]
          /\ pc'[q] # pc[q] => hand[q] = << >>
    BY <1>1 DEF TypeOK
  <2>5. HandOK'
    BY <2>1, <2>2, <2>4, QuietHand
  <2> QED
    BY <2>1, <2>2, <2>3, <2>5
<1> QED
  BY <1>2, <1>3

(* An entry without a frame is acknowledged and dropped.                   *)
LEMMA SkipStep ==
  ASSUME IInv, NEW p \in Procs, SkipUndecodable(p)
  PROVE  IInv'
<1> USE DEF IInv, SkipUndecodable, NoFault, boundVars
<1>1. PICK i \in DOMAIN hand[p] :
        /\ hand[p][i] \in undecodable
        /\ pel' = pel \ {hand[p][i]}
        /\ hand' = [hand EXCEPT ![p] = RemoveAt(@, i)]
  OBVIOUS
<1> DEFINE r == RemoveAt(hand[p], i)
<1>2. r \in Seq(Frames) /\ Once(r) /\ Range(r) \subseteq Range(hand[p])
  <2>1. hand[p] \in Seq(Frames) /\ Once(hand[p])
    BY Sets DEF HandOK
  <2>2. i \in 1..Len(hand[p])
    BY <1>1, <2>1
  <2> QED
    BY <2>1, <2>2, RangeWithout
<1>3. hand' = [hand EXCEPT ![p] = r]
  BY <1>1
<1> HIDE DEF r
<1>4. Frames' = Frames /\ Stored' = Stored /\ Delivered' = Delivered
  BY DEF entryVars, Frames, Stored, Delivered
<1>5. TypeOK'
  <2>1. hand' \in [Procs -> Seq(Frames)]
    <3>1. hand \in [Procs -> Seq(Frames)]
      BY DEF TypeOK
    <3> QED
      BY <3>1, <1>2, <1>3
  <2>2. pel' \subseteq Frames
    BY <1>1 DEF TypeOK
  <2> QED
    BY <2>1, <2>2, <1>4 DEF TypeOK, entryVars
<1>6. GroupOK'
  BY GroupStays DEF entryVars
<1>7. AckedIsStored'
  BY <1>1, <1>4, AckForReason DEF entryVars
<1>8. hand'[p] = r /\ \A q \in Procs \ {p} : hand'[q] = hand[q]
  BY <1>3 DEF TypeOK
<1>9. \A q \in Procs : Once(hand'[q]) /\ Range(hand'[q]) \subseteq Range(hand[q])
  BY <1>2, <1>8 DEF HandOK
<1>10. \A q \in Procs :
        /\ pc[q] \notin {"got", "ack"} => hand'[q] = << >>
        /\ pc[q] = "got" => Range(hand'[q]) \cap Stored = {}
        /\ pc[q] = "ack" => Range(hand'[q]) \subseteq Stored
  <2> TAKE q \in Procs
  <2>1. CASE q = p
    BY <2>1, <1>9 DEF HandOK
  <2>2. CASE q # p
    BY <2>2, <1>8 DEF HandOK
  <2> QED
    BY <2>1, <2>2
<1>11. /\ \A q \in Procs : \A f \in Range(hand'[q]) : f <= Delivered
       /\ \A q, s \in Procs : q # s => Range(hand'[q]) \cap Range(hand'[s]) = {}
       /\ \A f \in Stored : f <= Delivered
  BY <1>9 DEF HandOK
<1>12. HandOK'
  BY <1>4, <1>9, <1>10, <1>11 DEF HandOK, Once
<1> QED
  BY <1>5, <1>6, <1>7, <1>12

(* New frames: none of them was delivered, stored or held.                 *)
LEMMA EnqueueStep ==
  ASSUME IInv, NEW n \in 1..MaxPost, Enqueue(n)
  PROVE  IInv'
<1> USE DEF IInv, Enqueue, NoFault, boundVars, procVars, redisVars
<1>1. n \in Nat \ {0} /\ accepted \in Nat /\ accepted' = accepted + n /\ accepted' \in 0..MaxFrames
  BY Sets, RedisConstants
<1>2. Frames \subseteq Frames' /\ undecodable \subseteq undecodable' /\ undecodable' \subseteq Frames'
  <2>1. Frames \subseteq Frames' /\ (accepted + 1)..(accepted + n) \subseteq Frames'
    BY <1>1 DEF Frames
  <2>2. PICK bad \in SUBSET ((accepted + 1)..(accepted + n)) : undecodable' = undecodable \cup bad
    OBVIOUS
  <2> QED
    BY <2>1, <2>2 DEF TypeOK
<1>3. TypeOK'
  <2>1. hand' \in [Procs -> Seq(Frames')] /\ table' \in Seq(Frames') /\ pel' \subseteq Frames'
    <3>1. \A s \in Seq(Frames) : s \in Seq(Frames')
      BY <1>2, SeqGrows
    <3> QED
      BY <3>1, <1>2 DEF TypeOK
  <2>2. base' \in 0..accepted' /\ group' \in [start : 0..accepted', last : 0..accepted'] \cup {NoGroup}
    <3>1. 0..accepted \subseteq 0..accepted'
      BY <1>1
    <3> QED
      BY <3>1 DEF TypeOK
  <2> QED
    BY <1>1, <1>2, <2>1, <2>2 DEF TypeOK
<1>4. GroupOK'
  BY DEF GroupOK, Serving
<1>5. HandOK'
  <2>1. Delivered' = Delivered /\ Delivered \in Int
    BY Sets DEF Delivered
  <2>2. Delivered <= Delivered'
    BY <2>1
  <2> QED
    BY <1>3, <2>2, QuietHand
<1>6. AckedIsStored'
  BY <1>2, AckForReason DEF Stored
<1> QED
  BY <1>3, <1>4, <1>5, <1>6

(* XGROUP CREATE: a new group starts where nothing is left to be delivered. *)
LEMMA GroupCreated ==
  ASSUME IInv, EnsureConsumerGroup, UNCHANGED <<hand, base, pel, entryVars, table, resets>>,
         pc' \in [Procs -> Places], stopped' \in [Procs -> BOOLEAN],
         \A p \in Procs :
           /\ pc'[p] \in {"got", "ack"} => pc'[p] = pc[p]
           /\ pc'[p] # pc[p] => hand[p] = << >>
  PROVE  IInv'
<1> USE DEF IInv, EnsureConsumerGroup, entryVars
<1>1. accepted \in Nat /\ base \in 0..accepted /\ base \in Int
  BY Sets DEF TypeOK
<1>2. group' # NoGroup
  BY <1>1 DEF NoGroup
<1>3. TypeOK'
  <2>1. group' \in [start : 0..accepted, last : 0..accepted]
    BY <1>1 DEF TypeOK
  <2> QED
    BY <2>1 DEF TypeOK, Frames, Places
<1>4. GroupOK'
  BY <1>1, <1>2 DEF GroupOK
<1>5. HandOK'
  <2>1. Delivered <= Delivered'
    <3>1. CASE group = NoGroup
      <4>1. Delivered = base /\ Delivered' = accepted
        BY <3>1, <1>2 DEF Delivered
      <4> QED
        BY <4>1, <1>1
    <3>2. CASE group # NoGroup
      <4>1. Delivered' = Delivered /\ Delivered \in Int
        BY <3>2, Sets DEF Delivered
      <4> QED
        BY <4>1
    <3> QED
      BY <3>1, <3>2
  <2> QED
    BY <1>3, <2>1, QuietHand
<1>6. AckedIsStored'
  <2>1. CASE group = NoGroup
    <3>1. (group'.start + 1)..group'.last = {}
      BY <2>1, <1>1
    <3> QED
      BY <3>1 DEF AckedIsStored
  <2>2. CASE group # NoGroup
    BY <2>2, AckForReason DEF Stored
  <2> QED
    BY <2>1, <2>2
<1> QED
  BY <1>3, <1>4, <1>5, <1>6

LEMMA StartStep ==
  ASSUME IInv, NEW p \in Procs, Start(p) \/ StartFails(p)
  PROVE  IInv'
<1>1. hand[p] = << >> /\ pc \in [Procs -> Places] /\ stopped \in [Procs -> BOOLEAN]
  BY DEF IInv, HandOK, TypeOK, Places, Start, StartFails
<1>2. CASE Start(p)
  <2>1. \A q \in Procs :
          /\ pc'[q] \in {"got", "ack"} => pc'[q] = pc[q]
          /\ pc'[q] # pc[q] => hand[q] = << >>
    BY <1>1, <1>2 DEF Start
  <2>2. pc' \in [Procs -> Places] /\ stopped' \in [Procs -> BOOLEAN]
    BY <1>1, <1>2 DEF Start, Places
  <2> QED
    BY <1>2, <2>1, <2>2, GroupCreated DEF Start, NoFault, boundVars
<1>3. CASE StartFails(p) /\ EnsureConsumerGroup
  BY <1>1, <1>3, GroupCreated DEF StartFails, Fault, procVars
<1>4. CASE StartFails(p) /\ UNCHANGED group
  <2>1. UNCHANGED <<procVars, redisVars, entryVars, table, resets>>
    BY <1>4 DEF StartFails, Fault, redisVars
  <2> QED
    BY <2>1 DEF IInv, TypeOK, GroupOK, HandOK, AckedIsStored, Once, Delivered, Stored, Frames,
                procVars, redisVars, entryVars
<1> QED
  BY <1>2, <1>3, <1>4 DEF StartFails

LEMMA ResetStep ==
  ASSUME IInv, Reset
  PROVE  IInv'
<1> USE DEF IInv, Reset, procVars, entryVars
<1>1. accepted \in Nat /\ Delivered \in 0..accepted /\ resets \in Nat
  BY Sets DEF GroupOK
<1>2. TypeOK'
  BY <1>1 DEF TypeOK, Frames
<1>3. GroupOK'
  BY <1>1 DEF GroupOK
<1>4. HandOK'
  <2>1. Delivered' = accepted
    BY DEF Delivered
  <2>2. Delivered <= Delivered'
    BY <1>1, <2>1
  <2> QED
    BY <1>2, <2>2, QuietHand
<1>5. AckedIsStored'
  BY DEF AckedIsStored
<1> QED
  BY <1>2, <1>3, <1>4, <1>5

(* The steps of a worker task and what can go wrong with them.             *)
LEMMA WorkerStep ==
  ASSUME IInv, NEW p \in Procs, Worker(p)
  PROVE  IInv'
<1> USE DEF NoFault, boundVars
<1>1. stopped \in [Procs -> BOOLEAN] /\ pc[p] # "down"
  BY DEF IInv, TypeOK, Worker, LoopHead, Read, ReadNothing, SkipUndecodable, NothingToFlush,
         FlushOk, Ack
<1>2. CASE LoopHead(p)
  <2>1. hand[p] = << >>
    BY <1>2 DEF LoopHead, IInv, HandOK
  <2>2. CASE stopped[p]
    BY <1>1, <1>2, <2>1, <2>2, MoveStep DEF LoopHead, Places
  <2>3. CASE ~stopped[p]
    BY <1>1, <1>2, <2>1, <2>3, MoveStep DEF LoopHead, Places
  <2> QED
    BY <2>2, <2>3
<1>3. CASE Read(p)
  BY <1>3, ReadStep
<1>4. CASE ReadNothing(p)
  <2>1. hand[p] = << >>
    BY <1>4 DEF ReadNothing, IInv, HandOK
  <2> QED
    BY <1>1, <1>4, <2>1, MoveStep DEF ReadNothing, Places
<1>5. CASE SkipUndecodable(p)
  BY <1>5, SkipStep
<1>6. CASE NothingToFlush(p)
  BY <1>1, <1>6, MoveStep DEF NothingToFlush, Places
<1>7. CASE FlushOk(p)
  BY <1>7, StoreStep DEF FlushOk, Places
<1>8. CASE Ack(p)
  <2>1. Range(hand[p]) \subseteq Stored
    BY <1>8 DEF Ack, IInv, HandOK
  <2> QED
    BY <1>8, <2>1, DropStep DEF Ack, Places
<1> QED
  BY <1>2, <1>3, <1>4, <1>5, <1>6, <1>7, <1>8 DEF Worker

LEMMA FailureStep ==
  ASSUME IInv, NEW p \in Procs, Failure(p)
  PROVE  IInv'
<1> USE DEF Fault
<1>1. CASE StartFails(p)
  BY <1>1, StartStep
<1>2. CASE ReadFails(p)
  BY <1>2, ReadFailsStep
<1>3. CASE SkipFails(p)
  <2>1. pel' \subseteq pel /\ pel \ pel' \subseteq Stored \cup undecodable
    BY <1>3 DEF SkipFails
  <2> QED
    BY <1>3, <2>1, DropStep DEF SkipFails, Places
<1>4. CASE FlushFails(p)
  <2>1. CASE table' = table
    BY <1>4, <2>1, DropStep DEF FlushFails, Places, redisVars
  <2>2. CASE table' = table \o hand[p]
    BY <1>4, <2>2, StoreStep DEF FlushFails, Places
  <2> QED
    BY <1>4, <2>1, <2>2 DEF FlushFails
<1>5. CASE AckFails(p)
  <2>1. Range(hand[p]) \subseteq Stored
    BY <1>5 DEF AckFails, IInv, HandOK
  <2>2. pel' \subseteq pel /\ pel \ pel' \subseteq Stored \cup undecodable
    BY <1>5, <2>1 DEF AckFails
  <2> QED
    BY <1>5, <2>2, DropStep DEF AckFails, Places
<1>6. CASE Crash(p)
  <2>1. CASE UNCHANGED table
    BY <1>6, <2>1, DropStep DEF Crash, Places, redisVars
  <2>2. CASE pc[p] = "got" /\ table' = table \o hand[p]
    BY <1>6, <2>2, StoreStep DEF Crash, Places
  <2> QED
    BY <1>6, <2>1, <2>2 DEF Crash
<1> QED
  BY <1>1, <1>2, <1>3, <1>4, <1>5, <1>6 DEF Failure
-----------------------------------------------------------------------------
LEMMA InitIInv == Init => IInv
<1> SUFFICES ASSUME Init PROVE IInv
  OBVIOUS
<1> USE DEF Init
<1>1. TypeOK
  BY RedisConstants DEF TypeOK, Frames
<1>2. Stored = {} /\ \A p \in Procs : hand[p] = << >> /\ pc[p] = "down"
  BY RangeOfEmpty DEF Stored
<1>3. HandOK
  BY <1>2, RangeOfEmpty DEF HandOK
<1> QED
  BY <1>1, <1>3 DEF IInv, GroupOK, AckedIsStored

LEMMA NextIInv == IInv /\ [Next]_vars => IInv'
<1> SUFFICES ASSUME IInv, [Next]_vars PROVE IInv'
  OBVIOUS
<1>1. CASE UNCHANGED vars
  BY <1>1 DEF vars, procVars, redisVars, entryVars, boundVars, IInv, TypeOK, GroupOK, HandOK,
              AckedIsStored, Once, Delivered, Stored, Frames
<1>2. ASSUME NEW p \in Procs, StopRequest(p) PROVE IInv'
  <2>1. /\ stopped' \in [Procs -> BOOLEAN] /\ pc' = pc
        /\ UNCHANGED <<hand, redisVars, entryVars, table, resets>>
    BY <1>2 DEF StopRequest, NoFault, boundVars, IInv, TypeOK
  <2> QED
    BY <2>1 DEF IInv, TypeOK, GroupOK, HandOK, AckedIsStored, Once, Delivered, Stored, Frames,
                redisVars, entryVars
<1>3. ASSUME NEW p \in Procs, StopReturn(p) PROVE IInv'
  <2>1. hand[p] = << >> /\ pc[p] # "down" /\ stopped' \in [Procs -> BOOLEAN]
    BY <1>3 DEF StopReturn, IInv, HandOK, TypeOK
  <2> QED
    BY <1>3, <2>1, MoveStep DEF StopReturn, NoFault, boundVars, Places
<1> QED
  BY <1>1, <1>2, <1>3, EnqueueStep, StartStep, WorkerStep, FailureStep, ResetStep DEF Next

LEMMA Inductive == Spec => []IInv
BY InitIInv, NextIInv, PTL DEF Spec

(* Every variable of the buffer, of Redis and of the table keeps the       *)
(* values its counterpart can have; only accepted entries are held,        *)
(* pending or stored.                                                      *)
THEOREM TypeCorrect == Spec => []TypeOK
<1>1. IInv => TypeOK
  BY DEF IInv
<1> QED
  BY Inductive, <1>1, PTL

(* _run and _flush acknowledge nothing but what is stored or has no frame, *)
(* whatever fails, crashes, overlaps or is reset in between.               *)
THEOREM AckedIsStoredHolds == Spec => []AckedIsStored
<1>1. IInv => AckedIsStored
  BY DEF IInv
<1> QED
  BY Inductive, <1>1, PTL

(* While Redis keeps its data, an entry that can be decoded and is not     *)
(* stored is still to be read or pending in the group: _run leaves it      *)
(* where a reader of pending entries would find it.                        *)
THEOREM RecoverableHolds == Spec => []Recoverable
<1>1. ASSUME IInv PROVE Recoverable
  <2> SUFFICES ASSUME resets = 0, NEW f \in Frames
               PROVE  f \in Unread \cup pel \cup Stored \cup undecodable
    BY DEF Recoverable
  <2>1. accepted \in Nat /\ f \in 1..accepted /\ group # NoGroup /\ group.start = 0
    BY <1>1, Sets DEF IInv, GroupOK, Frames
  <2>2. group.last \in 0..accepted
    BY <1>1, <2>1, Sets DEF IInv
  <2>3. CASE f <= group.last
    BY <1>1, <2>1, <2>2, <2>3 DEF IInv, AckedIsStored
  <2>4. CASE ~(f <= group.last)
    BY <2>1, <2>2, <2>4 DEF Unread
  <2> QED
    BY <2>3, <2>4
<1> QED
  BY Inductive, <1>1, PTL
-----------------------------------------------------------------------------
(* The implementation of FrameDelivery.                                    *)

(* A step that leaves the table alone and makes no frame available again   *)
(* gives up some frames, or none.                                          *)
LEMMA DiscardRefines ==
  ASSUME UNCHANGED <<accepted, table>>, Unread' \subseteq Unread \cup InHand \cup Stored,
         InHand' \subseteq Unread \cup InHand \cup Stored
  PROVE  Delivery!Next
<1>1. Frames' = Frames /\ Stored' = Stored
  BY DEF Frames, Stored
<1>2. Abandoned \subseteq Abandoned' /\ Abandoned' \subseteq Frames \ Stored
  BY <1>1 DEF Abandoned
<1>3. Delivery!Outstanding = Frames \ (Stored \cup Abandoned)
  BY DEF Delivery!Outstanding, Delivery!Range, Range, Frames, Stored
<1> QED
  BY <1>2, <1>3 DEF Delivery!Next, Delivery!Discard

(* The batch of a worker is committed, and held on to or dropped.          *)
LEMMA PersistRefines ==
  ASSUME IInv, NEW p \in Procs, pc[p] = "got", hand[p] # << >>, table' = table \o hand[p],
         UNCHANGED <<accepted, group, base>>,
         InHand' \subseteq InHand, InHand \subseteq InHand' \cup Range(hand[p])
  PROVE  Delivery!Next
<1>1. /\ table \in Seq(Nat) /\ hand[p] \in Seq(Nat)
      /\ Len(table) \in Nat /\ Len(hand[p]) \in Nat /\ Len(hand[p]) > 0
      /\ DOMAIN hand[p] = 1..Len(hand[p])
  <2>1. table \in Seq(Frames) /\ hand[p] \in Seq(Frames) /\ Frames \subseteq Nat
    BY Sets DEF IInv, TypeOK
  <2>2. table \in Seq(Nat) /\ hand[p] \in Seq(Nat)
    BY <2>1, SeqGrows
  <2> QED
    BY <2>2, EmptySeq
<1>2. /\ table' \in Seq(Nat) /\ Len(table') = Len(table) + Len(hand[p])
      /\ \A i \in 1..(Len(table) + Len(hand[p])) : table'[i] =
            IF i <= Len(table) THEN table[i] ELSE hand[p][i - Len(table)]
  BY <1>1, ConcatProperties
<1>3. Stored' = Stored \cup Range(hand[p])
  BY <1>1, RangeOfJoined DEF Stored
<1>4. Frames' = Frames /\ Unread' = Unread
  BY DEF Frames, Unread
<1>5. Range(hand[p]) \subseteq Frames /\ Range(hand[p]) \subseteq InHand
  BY Sets DEF IInv, InHand
<1>6. Abandoned' = Abandoned
  BY <1>3, <1>4, <1>5 DEF Abandoned
<1>7. Range(hand[p]) \subseteq Delivery!Outstanding
  <2>1. Delivery!Outstanding = Frames \ (Stored \cup Abandoned)
    BY DEF Delivery!Outstanding, Delivery!Range, Range, Frames, Stored
  <2>2. Range(hand[p]) \cap Stored = {}
    BY DEF IInv, HandOK
  <2> QED
    BY <2>1, <2>2, <1>5 DEF Abandoned
<1>8. \A i \in (Len(table) + 1)..Len(table') :
        /\ i - Len(table) \in 1..Len(hand[p])
        /\ table'[i] = hand[p][i - Len(table)]
  BY <1>1, <1>2
<1>9. \A i \in (Len(table) + 1)..Len(table') : table'[i] \in Delivery!Outstanding
  BY <1>1, <1>7, <1>8, RangeOf
<1>10. ASSUME NEW i \in (Len(table) + 1)..Len(table'),
              NEW j \in (Len(table) + 1)..Len(table'), table'[i] = table'[j]
       PROVE  i = j
  <2> DEFINE n == Len(table)
             k == i - n
             l == j - n
  <2>1. /\ k \in DOMAIN hand[p] /\ l \in DOMAIN hand[p]
        /\ hand[p][k] = hand[p][l]
    BY <1>1, <1>8, <1>10
  <2>2. Once(hand[p])
    BY DEF IInv, HandOK
  <2>3. n \in Nat /\ i \in Int /\ j \in Int
    BY <1>1, <1>2
  <2> HIDE DEF k, l
  <2>4. k = l
    BY ONLY <2>1, <2>2 DEF Once
  <2> HIDE DEF n
  <2> QED
    BY ONLY <2>3, <2>4 DEF k, l
<1>11. \A i \in 1..Len(table) : table'[i] = table[i]
  BY <1>1, <1>2
<1>12. Len(table') > Len(table)
  BY <1>1, <1>2
<1> QED
  BY <1>2, <1>6, <1>9, <1>10, <1>11, <1>12, Zenon DEF Delivery!Next, Delivery!Persist

LEMMA AcceptRefines ==
  ASSUME IInv, NEW n \in 1..MaxPost, Enqueue(n)
  PROVE  Delivery!Next
<1> USE DEF Enqueue, procVars, redisVars
<1>1. accepted \in Nat /\ n \in Nat \ {0} /\ accepted' = accepted + n
  BY Sets, RedisConstants DEF IInv
<1>2. base \in 0..accepted /\ (group # NoGroup => group.last \in 0..accepted)
  BY Sets DEF IInv, TypeOK
<1> DEFINE new == (accepted + 1)..(accepted + n)
<1>3. Frames' = Frames \cup new /\ Frames \cap new = {} /\ Unread' = Unread \cup new
  BY <1>1, <1>2 DEF Frames, Unread
<1>4. Stored' = Stored /\ InHand' = InHand
  BY DEF Stored, InHand
<1>5. Abandoned' = Abandoned
  BY <1>3, <1>4 DEF Abandoned
<1> QED
  BY <1>1, <1>5 DEF Delivery!Next, Delivery!Accept

(* What is held after a step of one worker.                                *)
LEMMA HandIs ==
  ASSUME TypeOK, NEW p \in Procs, NEW s \in Seq(Frames), hand' = [hand EXCEPT ![p] = s]
  PROVE  /\ InHand' \subseteq InHand \cup Range(s)
         /\ InHand \subseteq InHand' \cup Range(hand[p])
         /\ Range(s) \subseteq Range(hand[p]) => InHand' \subseteq InHand
<1>1. hand'[p] = s /\ \A q \in Procs \ {p} : hand'[q] = hand[q]
  BY DEF TypeOK
<1> QED
  BY <1>1 DEF InHand

LEMMA DroppedIs ==
  ASSUME TypeOK, NEW p \in Procs, hand' = [hand EXCEPT ![p] = << >>]
  PROVE  InHand' \subseteq InHand /\ InHand \subseteq InHand' \cup Range(hand[p])
<1> DEFINE none == << >>
<1>1. none \in Seq(Frames) /\ Range(none) \subseteq Range(hand[p])
  BY RangeOfEmpty
<1>2. hand' = [hand EXCEPT ![p] = none]
  OBVIOUS
<1> HIDE DEF none
<1> QED
  BY <1>1, <1>2, HandIs

LEMMA WorkerRefines ==
  ASSUME IInv, NEW p \in Procs, Worker(p)
  PROVE  Delivery!Next
<1> USE DEF IInv, entryVars, redisVars
<1>1. CASE LoopHead(p) \/ ReadNothing(p) \/ NothingToFlush(p)
  <2>1. UNCHANGED <<accepted, table>> /\ Unread' = Unread /\ InHand' = InHand
    BY <1>1 DEF LoopHead, ReadNothing, NothingToFlush, Unread, InHand
  <2> QED
    BY <2>1, DiscardRefines
<1>2. CASE Read(p)
  <2>1. /\ NextBatch \in Seq(Frames) /\ Len(NextBatch) \in Nat
        /\ group.last + Len(NextBatch) <= accepted
        /\ Range(NextBatch) = (group.last + 1)..(group.last + Len(NextBatch))
    BY <1>2, NextBatchIs DEF Read, Deliver
  <2>2. /\ group \in [start : 0..accepted, last : 0..accepted]
        /\ group.last \in Nat /\ accepted \in Nat /\ group # NoGroup
    BY <1>2, Sets DEF Read, Deliver, TypeOK
  <2>3. group' # NoGroup /\ group'.last = group.last + Len(NextBatch)
    BY <1>2, <2>1, <2>2 DEF Read, Deliver, NoGroup
  <2>4. Unread' \subseteq Unread /\ Range(NextBatch) \subseteq Unread
    BY <1>2, <2>1, <2>2, <2>3 DEF Read, Unread
  <2>5. InHand' \subseteq InHand \cup Range(NextBatch)
    BY <1>2, <2>1, HandIs DEF Read
  <2> QED
    BY <1>2, <2>4, <2>5, DiscardRefines DEF Read
<1>3. CASE SkipUndecodable(p)
  <2>1. PICK i \in DOMAIN hand[p] : hand' = [hand EXCEPT ![p] = RemoveAt(@, i)]
    BY <1>3 DEF SkipUndecodable
  <2> DEFINE r == RemoveAt(hand[p], i)
  <2>2. hand[p] \in Seq(Frames) /\ Once(hand[p])
    BY Sets DEF HandOK
  <2>3. i \in 1..Len(hand[p])
    BY <2>1, <2>2
  <2>4. r \in Seq(Frames) /\ Range(r) \subseteq Range(hand[p])
    BY <2>2, <2>3, RangeWithout
  <2>5. hand' = [hand EXCEPT ![p] = r]
    BY <2>1
  <2> HIDE DEF r
  <2>6. InHand' \subseteq InHand
    BY <2>4, <2>5, HandIs
  <2>7. UNCHANGED <<accepted, table>> /\ Unread' = Unread
    BY <1>3 DEF SkipUndecodable, Unread
  <2> QED
    BY <2>6, <2>7, DiscardRefines
<1>4. CASE FlushOk(p)
  <2>1. InHand' = InHand
    BY <1>4 DEF FlushOk, InHand
  <2> QED
    BY <1>4, <2>1, PersistRefines DEF FlushOk
<1>5. CASE Ack(p)
  <2>1. InHand' \subseteq InHand
    BY <1>5, DroppedIs DEF Ack
  <2>2. UNCHANGED <<accepted, table>> /\ Unread' = Unread
    BY <1>5 DEF Ack, Unread
  <2> QED
    BY <2>1, <2>2, DiscardRefines
<1> QED
  BY <1>1, <1>2, <1>3, <1>4, <1>5 DEF Worker

LEMMA FailureRefines ==
  ASSUME IInv, NEW p \in Procs, Failure(p)
  PROVE  Delivery!Next
<1> USE DEF IInv, entryVars, redisVars, procVars
<1>1. CASE StartFails(p)
  <2>1. base \in 0..accepted /\ accepted \in Nat
    BY Sets DEF TypeOK
  <2>2. UNCHANGED <<accepted, base, table, hand>> /\ (EnsureConsumerGroup \/ UNCHANGED group)
    BY <1>1 DEF StartFails
  <2>3. Unread' \subseteq Unread
    BY <2>1, <2>2 DEF EnsureConsumerGroup, Unread, NoGroup
  <2>4. InHand' = InHand
    BY <2>2 DEF InHand
  <2> QED
    BY <2>2, <2>3, <2>4, DiscardRefines
<1>2. CASE ReadFails(p)
  <2>1. UNCHANGED <<accepted, table>> /\ InHand' = InHand
    BY <1>2 DEF ReadFails, InHand
  <2>2. CASE UNCHANGED redisVars
    <3>1. Unread' = Unread
      BY <2>1, <2>2 DEF Unread
    <3> QED
      BY <2>1, <3>1, DiscardRefines
  <2>3. CASE Deliver
    <3>1. Len(NextBatch) \in Nat /\ group.last + Len(NextBatch) <= accepted
      BY <2>3, NextBatchIs DEF Deliver
    <3>2. /\ group \in [start : 0..accepted, last : 0..accepted]
          /\ group.last \in Nat /\ accepted \in Nat /\ group # NoGroup
      BY <2>3, Sets DEF Deliver, TypeOK
    <3>3. group' # NoGroup /\ group'.last = group.last + Len(NextBatch)
      BY <2>3, <3>1, <3>2 DEF Deliver, NoGroup
    <3>4. Unread' \subseteq Unread
      BY <2>1, <3>1, <3>2, <3>3 DEF Unread
    <3> QED
      BY <2>1, <3>4, DiscardRefines
  <2> QED
    BY <1>2, <2>2, <2>3 DEF ReadFails
<1>3. CASE SkipFails(p) \/ AckFails(p)
  <2>1. UNCHANGED <<accepted, table>> /\ Unread' = Unread /\ hand' = [hand EXCEPT ![p] = << >>]
    BY <1>3 DEF SkipFails, AckFails, Unread
  <2> QED
    BY <2>1, DroppedIs, DiscardRefines
<1>4. CASE FlushFails(p) \/ Crash(p)
  <2>1. UNCHANGED <<accepted, group, base>> /\ hand' = [hand EXCEPT ![p] = << >>]
    BY <1>4 DEF FlushFails, Crash
  <2>2. CASE table' = table
    <3>1. Unread' = Unread
      BY <2>1 DEF Unread
    <3> QED
      BY <2>1, <2>2, <3>1, DroppedIs, DiscardRefines
  <2>3. CASE pc[p] = "got" /\ hand[p] # << >> /\ table' = table \o hand[p]
    BY <2>1, <2>3, DroppedIs, PersistRefines
  <2> QED
    BY <1>4, <2>2, <2>3 DEF FlushFails, Crash
<1> QED
  BY <1>1, <1>2, <1>3, <1>4 DEF Failure

LEMMA StepRefines == IInv /\ [Next]_vars => [Delivery!Next]_(Delivery!vars)
<1> SUFFICES ASSUME IInv, [Next]_vars PROVE [Delivery!Next]_(Delivery!vars)
  OBVIOUS
<1> USE DEF IInv, entryVars, redisVars, procVars
<1>1. ASSUME NEW p \in Procs, Start(p) PROVE Delivery!Next
  <2>1. base \in 0..accepted /\ accepted \in Nat
    BY Sets DEF TypeOK
  <2>2. UNCHANGED <<accepted, base, table, hand>> /\ EnsureConsumerGroup
    BY <1>1 DEF Start
  <2>3. Unread' \subseteq Unread
    BY <2>1, <2>2 DEF EnsureConsumerGroup, Unread, NoGroup
  <2>4. InHand' = InHand
    BY <2>2 DEF InHand
  <2> QED
    BY <2>2, <2>3, <2>4, DiscardRefines
<1>2. ASSUME NEW p \in Procs, StopRequest(p) \/ StopReturn(p) PROVE Delivery!Next
  <2>1. UNCHANGED <<accepted, table>> /\ Unread' = Unread /\ InHand' = InHand
    BY <1>2 DEF StopRequest, StopReturn, Unread, InHand
  <2> QED
    BY <2>1, DiscardRefines
<1>3. ASSUME Reset PROVE Delivery!Next
  <2>1. accepted \in Nat
    BY Sets
  <2>2. UNCHANGED <<accepted, table>> /\ InHand' = InHand
    BY <1>3 DEF Reset, InHand
  <2>3. Unread' = {}
    BY <1>3, <2>1 DEF Reset, Unread
  <2> QED
    BY <2>2, <2>3, DiscardRefines
<1>4. CASE UNCHANGED vars
  <2>1. UNCHANGED <<accepted, table, group, base, hand>>
    BY <1>4 DEF vars
  <2>2. Abandoned' = Abandoned
    BY <2>1 DEF Abandoned, Frames, Stored, Unread, InHand
  <2> QED
    BY <2>1, <2>2 DEF Delivery!vars
<1> QED
  BY <1>1, <1>2, <1>3, <1>4, AcceptRefines, WorkerRefines, FailureRefines DEF Next

(* RedisStreamBuffer implements FrameDelivery: whatever crashes, fails,    *)
(* overlaps or is reset, an entry gets at most one row, and none after no  *)
(* worker was left that could store it.                                    *)
THEOREM ImplementsDelivery == Spec => DeliverySpec
<1>1. Init => Delivery!Init
  BY DEF Init, Delivery!Init, Abandoned, Frames
<1> QED
  BY <1>1, StepRefines, Inductive, PTL DEF Spec, DeliverySpec, Delivery!Spec
=============================================================================
