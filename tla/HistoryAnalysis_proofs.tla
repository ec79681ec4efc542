---------------------- MODULE HistoryAnalysis_proofs ----------------------
(* Theorems about HistoryAnalysis, for every set of deployments, threshold *)
(* and length of the history.  First the operators the module is built     *)
(* from: the induction they all need, sums, the stable sort, the kept part *)
(* of a sequence, a record's deployment, what the store and the detector   *)
(* answer.  Then the invariants of the state, HistoryInv, RequestInv,      *)
(* ScenarioInv and EarlyInv, and the properties that follow from them.     *)
EXTENDS HistoryAnalysis, FiniteSetTheorems, WellFoundedInduction, TLAPS

(* Induction over Nat, on a set.                                           *)
LEMMA SetInduction ==
  ASSUME NEW G, 0 \in G, \A n \in Nat : n \in G => n + 1 \in G
  PROVE  Nat \subseteq G
<1> DEFINE Bad == {n \in Nat : n \notin G}
<1>1. Bad \subseteq Nat
  OBVIOUS
<1>2. ASSUME Bad # {} PROVE FALSE
  <2>1. PICK x \in Bad : \A y \in Bad : ~(<<y, x>> \in OpToRel(<, Nat))
    <3> HIDE DEF Bad
    <3> QED
      BY <1>1, <1>2, NatLessThanWellFounded, WFMin
  <2>2. \A y \in Bad : ~(y < x)
    BY <2>1 DEF OpToRel
  <2>3. x # 0 /\ x - 1 \in Nat /\ x - 1 < x
    OBVIOUS
  <2>4. x - 1 \in G
    BY <2>2, <2>3
  <2> QED
    BY <2>3, <2>4
<1> QED
  BY <1>2

-----------------------------------------------------------------------------
(* Places have integer keys.                                               *)
Keyed(places, key) ==
    /\ places \subseteq Nat /\ IsFiniteSet(places)
    /\ \A i \in places : key[i] \in Int

Before(key, i, j) == key[i] < key[j] \/ (key[i] = key[j] /\ i < j)

UpTo(places, key, i) == {j \in places : key[j] < key[i] \/ (key[j] = key[i] /\ j <= i)}

LEMMA BeforeIsTotal ==
  ASSUME NEW places, NEW key, Keyed(places, key), NEW i \in places, NEW j \in places
  PROVE  i = j \/ Before(key, i, j) \/ Before(key, j, i)
<1>1. key[i] \in Int /\ key[j] \in Int /\ i \in Int /\ j \in Int
  BY DEF Keyed
<1> QED
  BY <1>1 DEF Before

LEMMA RankType ==
  ASSUME NEW places, NEW key, Keyed(places, key), NEW i \in places
  PROVE  /\ Rank(places, key, i) \in 1..Cardinality(places)
         /\ Cardinality(places) \in Nat
<1>1. UpTo(places, key, i) \subseteq places /\ IsFiniteSet(places)
  BY DEF UpTo, Keyed
<1>2. i \in UpTo(places, key, i)
  BY DEF UpTo, Keyed
<1>3. /\ IsFiniteSet(UpTo(places, key, i))
      /\ Cardinality(UpTo(places, key, i)) <= Cardinality(places)
  BY <1>1, FS_Subset
<1>4. Cardinality(UpTo(places, key, i)) \in Nat /\ Cardinality(places) \in Nat
  BY <1>1, <1>3, FS_CardinalityType
<1>5. Cardinality(UpTo(places, key, i)) # 0
  BY <1>2, <1>3, FS_EmptySet
<1>6. Rank(places, key, i) = Cardinality(UpTo(places, key, i))
  BY DEF Rank, UpTo
<1> QED
  BY <1>3, <1>4, <1>5, <1>6

LEMMA RankMonotone ==
  ASSUME NEW places, NEW key, Keyed(places, key), NEW i \in places, NEW j \in places,
         Before(key, i, j)
  PROVE  Rank(places, key, i) < Rank(places, key, j)
<1> DEFINE I == UpTo(places, key, i)
           J == UpTo(places, key, j)
<1>1. \A k \in places : k \in Int /\ key[k] \in Int
  BY DEF Keyed
<1>2. I \subseteq J /\ j \in J /\ j \notin I
  BY <1>1 DEF UpTo, Before
<1>3. J \subseteq places /\ IsFiniteSet(places)
  BY DEF UpTo, Keyed
<1> HIDE DEF I, J
<1>4. IsFiniteSet(J)
  BY <1>3, FS_Subset
<1>5. IsFiniteSet(I) /\ Cardinality(I) <= Cardinality(J) /\ Cardinality(I) # Cardinality(J)
  BY <1>2, <1>4, FS_Subset
<1>6. Cardinality(I) \in Nat /\ Cardinality(J) \in Nat
  BY <1>4, <1>5, FS_CardinalityType
<1>7. Rank(places, key, i) = Cardinality(I) /\ Rank(places, key, j) = Cardinality(J)
  BY DEF Rank, UpTo, I, J
<1> QED
  BY <1>5, <1>6, <1>7

LEMMA RankInjective ==
  ASSUME NEW places, NEW key, Keyed(places, key), NEW i \in places, NEW j \in places,
         Rank(places, key, i) = Rank(places, key, j)
  PROVE  i = j
<1>1. Rank(places, key, i) \in Int
  BY RankType
<1>2. Before(key, i, j) => Rank(places, key, i) < Rank(places, key, j)
  BY RankMonotone
<1>3. Before(key, j, i) => Rank(places, key, j) < Rank(places, key, i)
  BY RankMonotone
<1> QED
  BY <1>1, <1>2, <1>3, BeforeIsTotal

(* The arrangement of places lists each of them once, at its rank.         *)
LEMMA Arranging ==
  ASSUME NEW places, NEW key, Keyed(places, key)
  PROVE  /\ Cardinality(places) \in Nat
         /\ Arranged(places, key) \in [1..Cardinality(places) -> places]
         /\ \A k \in 1..Cardinality(places) : Rank(places, key, Arranged(places, key)[k]) = k
         /\ \A i \in places : Rank(places, key, i) \in 1..Cardinality(places)
                              /\ Arranged(places, key)[Rank(places, key, i)] = i
<1> DEFINE n == Cardinality(places)
           f == [i \in places |-> Rank(places, key, i)]
<1>1. n \in Nat /\ IsFiniteSet(places)
  BY FS_CardinalityType DEF Keyed
<1>2. \A i \in places : Rank(places, key, i) \in 1..n
  BY RankType
<1>3. f \in Injection(places, 1..n)
  <2>1. f \in [places -> 1..n]
    BY <1>2
  <2>2. \A i, j \in places : f[i] = f[j] => i = j
    BY RankInjective
  <2> QED
    BY <2>1, <2>2 DEF Injection, IsInjective
<1>4. IsFiniteSet(1..n) /\ Cardinality(1..n) = n
  BY <1>1, FS_Interval
<1>5. f \in Surjection(places, 1..n)
  <2> HIDE DEF f
  <2> QED
    BY <1>3, <1>4, FS_Injection
<1>6. \A k \in 1..n : \E i \in places : Rank(places, key, i) = k
  BY <1>5 DEF Surjection
<1>7. \A k \in 1..n : Arranged(places, key)[k] \in places
                      /\ Rank(places, key, Arranged(places, key)[k]) = k
  <2> TAKE k \in 1..n
  <2>1. Arranged(places, key)[k] = CHOOSE i \in places : Rank(places, key, i) = k
    BY DEF Arranged
  <2> QED
    BY <2>1, <1>6
<1>8. Arranged(places, key) \in [1..n -> places]
  BY <1>7 DEF Arranged
<1>9. \A i \in places : Arranged(places, key)[Rank(places, key, i)] = i
  <2> TAKE i \in places
  <2> DEFINE j == Arranged(places, key)[Rank(places, key, i)]
  <2>1. j \in places /\ Rank(places, key, j) = Rank(places, key, i)
    BY <1>2, <1>7
  <2> QED
    BY <2>1, RankInjective
<1> QED
  BY <1>1, <1>2, <1>7, <1>8, <1>9

(* It is the only list of them in this order.                              *)
LEMMA ArrangedIsUnique ==
  ASSUME NEW places, NEW key, Keyed(places, key), NEW m \in Nat, NEW p \in [1..m -> places],
         \A i \in places : \E k \in 1..m : p[k] = i,
         \A k, l \in 1..m : k < l => Before(key, p[k], p[l])
  PROVE  Cardinality(places) = m /\ Arranged(places, key) = p
<1>1. \A i \in places : i \in Int /\ key[i] \in Int
  BY DEF Keyed
<1>2. \A k, l \in 1..m : p[k] = p[l] => k = l
  <2> SUFFICES ASSUME NEW k \in 1..m, NEW l \in 1..m, p[k] = p[l], k < l PROVE FALSE
    OBVIOUS
  <2> QED
    BY <1>1 DEF Before
<1>3. Cardinality(places) = m
  <2>1. p \in Bijection(1..m, places)
    BY <1>2 DEF Bijection, Injection, Surjection, IsInjective
  <2>2. IsFiniteSet(1..m) /\ Cardinality(1..m) = m
    BY FS_Interval
  <2> QED
    BY <2>1, <2>2, FS_Bijection DEF ExistsBijection
<1>4. ASSUME NEW k \in 1..m PROVE Rank(places, key, p[k]) = k
  <2> DEFINE g == [j \in 1..k |-> p[j]]
             U == UpTo(places, key, p[k])
  <2>1. \A j \in 1..m : p[j] \in U <=> j <= k
    <3> TAKE j \in 1..m
    <3>1. CASE j < k
      BY <3>1, <1>1 DEF UpTo, Before
    <3>2. CASE j = k
      BY <3>2, <1>1 DEF UpTo
    <3>3. CASE k < j
      <4>1. Before(key, p[k], p[j])
        BY <3>3
      <4> QED
        BY <4>1, <3>3, <1>1 DEF UpTo, Before
    <3> QED
      BY <3>1, <3>2, <3>3
  <2>2. U \subseteq places
    BY DEF UpTo
  <2> HIDE DEF U
  <2>3. g \in [1..k -> U]
    BY <2>1
  <2>4. \A j, l \in 1..k : g[j] = g[l] => j = l
    BY <1>2
  <2>5. \A i \in U : \E j \in 1..k : g[j] = i
    <3> TAKE i \in U
    <3>1. PICK j \in 1..m : p[j] = i
      BY <2>2
    <3> QED
      BY <3>1, <2>1
  <2>6. g \in Bijection(1..k, U)
    <3> HIDE DEF g
    <3> QED
      BY <2>3, <2>4, <2>5 DEF Bijection, Injection, Surjection, IsInjective
  <2>7. IsFiniteSet(1..k) /\ Cardinality(1..k) = k
    BY FS_Interval
  <2>8. Cardinality(U) = k
    BY <2>6, <2>7, FS_Bijection DEF ExistsBijection
  <2> QED
    BY <2>8 DEF U, UpTo, Rank
<1>5. ASSUME NEW k \in 1..m PROVE Arranged(places, key)[k] = p[k]
  <2>0. k \in 1..Cardinality(places)
    BY <1>3
  <2> DEFINE a == Arranged(places, key)
             c == Cardinality(places)
  <2>1. a \in [1..c -> places]
    BY Arranging
  <2>2. \A l \in 1..c : Rank(places, key, a[l]) = l
    BY Arranging
  <2> HIDE DEF a, c
  <2>3. a[k] \in places /\ Rank(places, key, a[k]) = k
    BY <2>0, <2>1, <2>2 DEF c
  <2> QED
    BY <2>3, <1>4, RankInjective DEF a
<1>6. Arranged(places, key) = [k \in 1..m |-> Arranged(places, key)[k]]
  BY <1>3, Arranging
<1> QED
  BY <1>3, <1>5, <1>6

(* Its places are in the order of their keys.                              *)
LEMMA ArrangedInOrder ==
  ASSUME NEW places, NEW key, Keyed(places, key),
         NEW k \in 1..Cardinality(places), NEW l \in 1..Cardinality(places), k < l
  PROVE  Before(key, Arranged(places, key)[k], Arranged(places, key)[l])
<1> DEFINE i == Arranged(places, key)[k]
           j == Arranged(places, key)[l]
<1>1. i \in places /\ j \in places /\ Rank(places, key, i) = k /\ Rank(places, key, j) = l
  BY Arranging
<1> HIDE DEF i, j
<1>2. k \in Int /\ l \in Int
  BY Arranging
<1>3. i # j /\ ~Before(key, j, i)
  BY <1>1, <1>2, RankMonotone
<1>4. Before(key, i, j)
  BY <1>1, <1>3, BeforeIsTotal
<1> QED
  BY <1>4 DEF i, j

-----------------------------------------------------------------------------
(* The places of a sequence of n elements.                                 *)
LEMMA Places ==
  ASSUME NEW n \in Nat, NEW key, \A i \in 1..n : key[i] \in Int
  PROVE  /\ Keyed(1..n, key) /\ Cardinality(1..n) = n
         /\ Arranged(1..n, key) \in [1..n -> 1..n]
         /\ \A i \in 1..n : \E k \in 1..n : Arranged(1..n, key)[k] = i
         /\ \A k, l \in 1..n : k < l =>
                Before(key, Arranged(1..n, key)[k], Arranged(1..n, key)[l])
<1> DEFINE o == Arranged(1..n, key)
<1>2. IsFiniteSet(1..n) /\ Cardinality(1..n) = n
  BY FS_Interval
<1>3. Keyed(1..n, key)
  BY <1>2 DEF Keyed
<1>4. o \in [1..n -> 1..n] /\ \A i \in 1..n : \E k \in 1..n : o[k] = i
  <2>1. /\ o \in [1..Cardinality(1..n) -> 1..n]
        /\ \A i \in 1..n : /\ Rank(1..n, key, i) \in 1..Cardinality(1..n)
                          /\ o[Rank(1..n, key, i)] = i
    BY <1>3, Arranging
  <2> QED
    BY <2>1, <1>2
<1>5. \A k, l \in 1..n : k < l => Before(key, o[k], o[l])
  BY <1>2, <1>3, ArrangedInOrder
<1> QED
  BY <1>2, <1>3, <1>4, <1>5

(* Sorting rearranges the elements of a sequence.                          *)
LEMMA Sorting ==
  ASSUME NEW S, NEW s \in Seq(S), NEW key, \A i \in 1..Len(s) : key[i] \in Int
  PROVE  /\ StableSort(s, key) \in Seq(S)
         /\ Len(StableSort(s, key)) = Len(s)
         /\ \A k \in 1..Len(s) : StableSort(s, key)[k] = s[Arranged(1..Len(s), key)[k]]
<1> DEFINE n == Len(s)
           o == Arranged(1..n, key)
<1>1. n \in Nat /\ DOMAIN s = 1..n /\ \A i \in 1..n : s[i] \in S
  OBVIOUS
<1>2. StableSort(s, key) = [k \in 1..n |-> s[o[k]]]
  BY <1>1 DEF StableSort
<1>3. o \in [1..n -> 1..n]
  BY <1>1, Places
<1> HIDE DEF o, n
<1>4. StableSort(s, key) \in Seq(S) /\ Len(StableSort(s, key)) = n
      /\ \A k \in 1..n : StableSort(s, key)[k] = s[o[k]]
  BY <1>1, <1>2, <1>3
<1> QED
  BY <1>4 DEF o, n

LEMMA SortOfSorted ==
  ASSUME NEW S, NEW s \in Seq(S), NEW key, \A i \in 1..Len(s) : key[i] \in Int,
         \A k, l \in 1..Len(s) : k < l => key[k] <= key[l]
  PROVE  StableSort(s, key) = s
<1> DEFINE n == Len(s)
           p == [k \in 1..n |-> k]
<1>1. n \in Nat /\ Keyed(1..n, key)
  BY Places
<1>2. p \in [1..n -> 1..n] /\ \A i \in 1..n : \E k \in 1..n : p[k] = i
  OBVIOUS
<1>3. \A k, l \in 1..n : k < l => Before(key, p[k], p[l])
  BY DEF Before
<1>4. Arranged(1..n, key) = p
  <2> HIDE DEF p, n
  <2> DEFINE all == 1..n
  <2>1. Keyed(all, key) /\ p \in [1..n -> all] /\ \A i \in all : \E k \in 1..n : p[k] = i
    BY <1>1, <1>2
  <2> HIDE DEF all
  <2>2. Arranged(all, key) = p
    BY <2>1, <1>1, <1>3, ArrangedIsUnique
  <2> QED
    BY <2>2 DEF all
<1>5. StableSort(s, key) = [k \in 1..n |-> s[k]]
  BY <1>4 DEF StableSort
<1> QED
  BY <1>5

(* An element with a key no less than the others' goes to the end.         *)
LEMMA SortAppend ==
  ASSUME NEW S, NEW s \in Seq(S), NEW x \in S, NEW key, NEW more,
         \A i \in 1..Len(s) : key[i] \in Int /\ more[i] = key[i] /\ key[i] <= more[Len(s) + 1],
         more[Len(s) + 1] \in Int
  PROVE  StableSort(Append(s, x), more) = Append(StableSort(s, key), x)
<1> DEFINE n == Len(s)
           o == Arranged(1..n, key)
           p == [k \in 1..(n + 1) |-> IF k = n + 1 THEN n + 1 ELSE o[k]]
           t == Append(s, x)
<1>1. n \in Nat /\ t \in Seq(S) /\ Len(t) = n + 1 /\ t[n + 1] = x
      /\ \A i \in 1..n : t[i] = s[i]
  OBVIOUS
<1>2. /\ o \in [1..n -> 1..n]
      /\ \A i \in 1..n : \E k \in 1..n : o[k] = i
      /\ \A k, l \in 1..n : k < l => Before(key, o[k], o[l])
  BY Places
<1>3. Len(StableSort(s, key)) = n /\ StableSort(s, key) \in Seq(S)
      /\ \A k \in 1..n : StableSort(s, key)[k] = s[o[k]]
  BY Sorting
<1> HIDE DEF o
<1>4. \A i \in 1..(n + 1) : more[i] \in Int
  BY <1>1
<1>5. Keyed(1..(n + 1), more)
  BY <1>1, <1>4, Places
<1>6. p \in [1..(n + 1) -> 1..(n + 1)]
  BY <1>1, <1>2
<1>7. \A i \in 1..(n + 1) : \E k \in 1..(n + 1) : p[k] = i
  <2> TAKE i \in 1..(n + 1)
  <2>1. CASE i = n + 1
    BY <2>1, <1>1
  <2>2. CASE i # n + 1
    <3>0. i \in 1..n
      BY <2>2, <1>1
    <3>1. PICK k \in 1..n : o[k] = i
      BY <3>0, <1>2
    <3>2. k \in 1..(n + 1) /\ k # n + 1
      BY <1>1
    <3> QED
      BY <3>1, <3>2
  <2> QED
    BY <2>1, <2>2
<1>8. \A k, l \in 1..(n + 1) : k < l => Before(more, p[k], p[l])
  <2> SUFFICES ASSUME NEW k \in 1..(n + 1), NEW l \in 1..(n + 1), k < l
               PROVE  Before(more, p[k], p[l])
    OBVIOUS
  <2>1. k \in 1..n /\ p[k] = o[k] /\ o[k] \in 1..n
    <3>1. n \in Nat
      BY <1>1
    <3>2. k \in 1..n /\ k # n + 1
      <4> HIDE DEF p, n
      <4> QED
        BY ONLY <3>1, k \in 1..(n + 1), l \in 1..(n + 1), k < l
    <3>3. o[k] \in 1..n
      BY ONLY <3>2, <1>2
    <3>4. p[k] = o[k]
      BY ONLY <3>2, k \in 1..(n + 1)
    <3> QED
      BY ONLY <3>2, <3>3, <3>4
  <2>2. CASE l = n + 1
    <3>1. more[o[k]] <= more[n + 1] /\ o[k] < n + 1 /\ more[o[k]] \in Int
      BY <2>1, <1>1
    <3> QED
      BY <2>1, <2>2, <3>1, <1>4 DEF Before
  <2>3. CASE l # n + 1
    <3>1. l \in 1..n /\ p[l] = o[l] /\ o[l] \in 1..n
      BY <2>3, <1>1, <1>2
    <3>2. Before(key, o[k], o[l])
      BY <2>1, <3>1, <1>2
    <3> QED
      BY <2>1, <3>1, <3>2 DEF Before
  <2> QED
    BY <2>2, <2>3
<1>9. Arranged(1..(n + 1), more) = p
  <2> HIDE DEF p, n
  <2> DEFINE m == n + 1
             all == 1..(n + 1)
  <2>0. m \in Nat
    BY <1>1
  <2>1. Keyed(all, more) /\ p \in [1..m -> all] /\ \A i \in all : \E k \in 1..m : p[k] = i
    BY <1>5, <1>6, <1>7
  <2>2. \A k, l \in 1..m : k < l => Before(more, p[k], p[l])
    BY <1>8
  <2> HIDE DEF all, m
  <2>3. Arranged(all, more) = p
    BY <2>0, <2>1, <2>2, ArrangedIsUnique, SMTT(30)
  <2> QED
    BY <2>3 DEF all
<1>10. Len(StableSort(t, more)) = n + 1 /\ StableSort(t, more) \in Seq(S)
       /\ \A k \in 1..(n + 1) : StableSort(t, more)[k] = t[p[k]]
  <2> HIDE DEF t, p
  <2>0. \A i \in 1..Len(t) : more[i] \in Int
    BY <1>1, <1>4
  <2>1. /\ StableSort(t, more) \in Seq(S)
        /\ Len(StableSort(t, more)) = Len(t)
        /\ \A k \in 1..Len(t) : StableSort(t, more)[k] = t[Arranged(1..Len(t), more)[k]]
    BY <2>0, <1>1, Sorting
  <2> QED
    BY <2>1, <1>1, <1>9
<1> DEFINE u == StableSort(t, more)
           v == Append(StableSort(s, key), x)
<1>11. Len(v) = n + 1 /\ v \in Seq(S) /\ v[n + 1] = x
       /\ \A k \in 1..n : v[k] = s[o[k]]
  BY <1>3
<1>12. \A k \in 1..(n + 1) : u[k] = v[k]
  <2> TAKE k \in 1..(n + 1)
  <2>1. CASE k = n + 1
    BY <2>1, <1>1, <1>10, <1>11
  <2>2. CASE k # n + 1
    <3>0. k \in 1..n
      BY <2>2, <1>1
    <3>1. p[k] = o[k] /\ o[k] \in 1..n
      BY <3>0, <2>2, <1>2
    <3>2. u[k] = t[o[k]] /\ t[o[k]] = s[o[k]] /\ v[k] = s[o[k]]
      BY <3>0, <3>1, <1>1, <1>10, <1>11
    <3> QED
      BY <3>2
  <2> QED
    BY <2>1, <2>2
<1> HIDE DEF u, v
<1>13. u \in Seq(S) /\ v \in Seq(S) /\ Len(u) = Len(v) /\ \A k \in 1..Len(u) : u[k] = v[k]
  BY <1>10, <1>11, <1>12 DEF u
<1>14. u = v
  BY <1>13
<1> QED
  BY <1>14 DEF u, v

-----------------------------------------------------------------------------
(* What is kept of f are its values at the places, in their order.         *)
Order(places) == Arranged(places, [i \in places |-> i])

Into(f, places, S) == \A i \in places : f[i] \in S

LEMMA KeptOrder ==
  ASSUME NEW places, places \subseteq Nat, IsFiniteSet(places)
  PROVE  /\ Keyed(places, [i \in places |-> i])
         /\ Cardinality(places) \in Nat
         /\ Order(places) \in [1..Cardinality(places) -> places]
         /\ \A i \in places : \E k \in 1..Cardinality(places) : Order(places)[k] = i
         /\ \A k, l \in 1..Cardinality(places) : k < l => Order(places)[k] < Order(places)[l]
<1> DEFINE n == Cardinality(places)
           key == [i \in places |-> i]
           o == Order(places)
<1>1. Keyed(places, key)
  BY DEF Keyed
<1>2. o = Arranged(places, key)
  BY DEF Order
<1> HIDE DEF key, o
<1>3. n \in Nat /\ o \in [1..n -> places] /\ \A i \in places : \E k \in 1..n : o[k] = i
  BY <1>1, <1>2, Arranging
<1>4. \A k, l \in 1..n : k < l => Before(key, o[k], o[l])
  BY <1>1, <1>2, ArrangedInOrder
<1>5. \A k, l \in 1..n : k < l => o[k] < o[l]
  <2> SUFFICES ASSUME NEW k \in 1..n, NEW l \in 1..n, k < l PROVE o[k] < o[l]
    OBVIOUS
  <2>1. Before(key, o[k], o[l]) /\ o[k] \in places /\ o[l] \in places
    BY <1>3, <1>4
  <2>2. key[o[k]] = o[k] /\ key[o[l]] = o[l] /\ o[k] \in Nat /\ o[l] \in Nat
    BY <2>1 DEF key
  <2> QED
    BY <2>1, <2>2 DEF Before
<1> QED
  BY <1>1, <1>3, <1>5 DEF key, o

(* What is kept is found at its places, in their order.                    *)
KeptInPlace(f, places) ==
  \A k \in 1..Cardinality(places) : Kept(f, places)[k] = f[Order(places)[k]]

LEMMA Keeping ==
  ASSUME NEW places, places \subseteq Nat, IsFiniteSet(places),
         NEW S, NEW f, Into(f, places, S)
  PROVE  /\ Kept(f, places) \in Seq(S)
         /\ Len(Kept(f, places)) = Cardinality(places)
         /\ KeptInPlace(f, places)
<1> DEFINE n == Cardinality(places)
           o == Order(places)
<1>1. n \in Nat /\ o \in [1..n -> places]
  BY KeptOrder
<1>2. Kept(f, places) = [k \in 1..n |-> f[o[k]]]
  BY <1>1 DEF Kept, Order
<1> HIDE DEF n, o
<1>3. \A k \in 1..n : f[o[k]] \in S
  BY <1>1 DEF Into
<1>4. Kept(f, places) \in Seq(S) /\ Len(Kept(f, places)) = n
      /\ \A k \in 1..n : Kept(f, places)[k] = f[o[k]]
  BY <1>1, <1>2, <1>3
<1> QED
  BY <1>4 DEF KeptInPlace, n, o

(* Places beyond the others add to what is kept at the end.                *)
LEMMA KeptPrefix ==
  ASSUME NEW m \in Nat, NEW keep, keep \subseteq 1..m, NEW more, keep \subseteq more,
         more \subseteq Nat, IsFiniteSet(more), \A i \in more : i \in keep <=> i <= m,
         NEW S, NEW f, NEW g, \A i \in keep : f[i] = g[i], Into(g, more, S)
  PROVE  IsPrefix(Kept(f, keep), Kept(g, more))
<1> DEFINE id == [i \in keep |-> i]
           ident == [i \in more |-> i]
           c == Cardinality(keep)
           d == Cardinality(more)
<1>1. /\ IsFiniteSet(keep) /\ keep \subseteq Nat /\ keep \subseteq more
      /\ \A i \in keep : f[i] \in S
  BY FS_Subset DEF Into
<1>2. c \in Nat /\ d \in Nat /\ c <= d
  BY <1>1, FS_Subset, FS_CardinalityType
<1>3. Keyed(keep, id) /\ Keyed(more, ident)
  BY <1>1, KeptOrder
<1>4. \A i \in keep : Rank(more, ident, i) = Rank(keep, id, i)
  <2> TAKE i \in keep
  <2>1. UpTo(more, ident, i) = UpTo(keep, id, i)
    <3>1. \A j \in more : j \in UpTo(more, ident, i) <=> j <= i
      BY <1>1 DEF UpTo
    <3>2. \A j \in keep : j \in UpTo(keep, id, i) <=> j <= i
      BY <1>1 DEF UpTo
    <3>3. \A j \in more : j <= i => j \in keep
      BY <1>1
    <3>4. UpTo(more, ident, i) \subseteq more /\ UpTo(keep, id, i) \subseteq keep
      BY DEF UpTo
    <3> QED
      BY <3>1, <3>2, <3>3, <3>4, <1>1
  <2> QED
    BY <2>1 DEF UpTo, Rank
<1>5. \A k \in 1..c : /\ Order(keep)[k] \in keep
                      /\ Rank(keep, id, Order(keep)[k]) = k
  <2>1. Order(keep) = Arranged(keep, id)
    BY DEF Order
  <2> HIDE DEF id
  <2>2. \A k \in 1..Cardinality(keep) : /\ Arranged(keep, id)[k] \in keep
                                     /\ Rank(keep, id, Arranged(keep, id)[k]) = k
    BY ONLY <1>3, Arranging
  <2> QED
    BY <2>1, <2>2
<1>6. \A k \in 1..d : /\ Order(more)[k] \in more
                      /\ Rank(more, ident, Order(more)[k]) = k
  <2>1. Order(more) = Arranged(more, ident)
    BY DEF Order
  <2> HIDE DEF ident
  <2>2. \A k \in 1..Cardinality(more) : /\ Arranged(more, ident)[k] \in more
                                     /\ Rank(more, ident, Arranged(more, ident)[k]) = k
    BY ONLY <1>3, Arranging
  <2> QED
    BY <2>1, <2>2
<1> HIDE DEF id, ident
<1>7. \A k \in 1..c : Order(more)[k] = Order(keep)[k]
  <2> TAKE k \in 1..c
  <2>1. k \in 1..d
    BY <1>2
  <2>2. Order(keep)[k] \in keep /\ Order(keep)[k] \in more /\ Order(more)[k] \in more
    BY <2>1, <1>1, <1>5, <1>6
  <2>3. Rank(more, ident, Order(keep)[k]) = k /\ Rank(more, ident, Order(more)[k]) = k
    BY <2>1, <2>2, <1>4, <1>5, <1>6
  <2> QED
    BY <2>2, <2>3, <1>3, RankInjective
<1> DEFINE a == Kept(f, keep)
           b == Kept(g, more)
<1>8. a \in Seq(S) /\ Len(a) = c /\ \A k \in 1..c : a[k] = f[Order(keep)[k]]
  <2>1. keep \subseteq Nat /\ IsFiniteSet(keep) /\ Into(f, keep, S)
    BY <1>1 DEF Into
  <2>2. /\ Kept(f, keep) \in Seq(S)
        /\ Len(Kept(f, keep)) = Cardinality(keep)
        /\ KeptInPlace(f, keep)
    BY ONLY <2>1, Keeping
  <2> QED
    BY ONLY <2>2 DEF KeptInPlace
<1>9. b \in Seq(S) /\ Len(b) = d /\ \A k \in 1..d : b[k] = g[Order(more)[k]]
  <2>1. more \subseteq Nat /\ IsFiniteSet(more) /\ Into(g, more, S)
    BY DEF Into
  <2>2. /\ Kept(g, more) \in Seq(S)
        /\ Len(Kept(g, more)) = Cardinality(more)
        /\ KeptInPlace(g, more)
    BY ONLY <2>1, Keeping
  <2> QED
    BY ONLY <2>2 DEF KeptInPlace
<1> HIDE DEF a, b, c, d
<1>10. \A k \in 1..c : a[k] = b[k]
  <2> TAKE k \in 1..c
  <2>1. k \in 1..d
    BY ONLY <1>2
  <2>2. Order(keep)[k] \in keep
    BY ONLY <1>5
  <2>3. f[Order(keep)[k]] = g[Order(keep)[k]]
    BY <2>2
  <2>4. a[k] = f[Order(keep)[k]] /\ b[k] = g[Order(more)[k]]
    BY ONLY <2>1, <1>8, <1>9
  <2>5. Order(more)[k] = Order(keep)[k]
    BY ONLY <1>7
  <2> QED
    BY ONLY <2>3, <2>4, <2>5
<1>11. SubSeq(a, 1, c) = [k \in 1..c |-> a[k]] /\ SubSeq(b, 1, c) = [k \in 1..c |-> b[k]]
  BY <1>2, <1>8, <1>9
<1>12. IsPrefix(a, b)
  BY <1>2, <1>8, <1>9, <1>10, <1>11 DEF IsPrefix
<1> QED
  BY <1>12 DEF a, b

-----------------------------------------------------------------------------
(* Records of the history and of its modified copies.                      *)
Names == {"run", "time", "value"} \cup Fields

FieldValues ==
    (UNION {{d[f] : f \in Fields} : d \in Deployments}) \cup {ABSENT, EMPTY, NONE}

Records ==
    {r \in [Names -> Int \cup FieldValues] :
        /\ r.run \in Nat /\ r.time \in Int /\ r.value \in Nat
        /\ \A f \in Fields : r[f] \in FieldValues}

Times(s) == [i \in DOMAIN s |-> s[i].time]

InTime(s) == \A k, l \in 1..Len(s) : k < l => s[k].time <= s[l].time

LEMMA TimesAreKeys ==
  ASSUME NEW s \in Seq(Records)
  PROVE  \A i \in 1..Len(s) : Times(s)[i] = s[i].time /\ Times(s)[i] \in Int
<1>1. \A i \in 1..Len(s) : s[i] \in Records
  OBVIOUS
<1> QED
  BY <1>1 DEF Times, Records

(* The records in the order of time are the same records.                  *)
LEMMA InOrderOfTime ==
  ASSUME NEW s \in Seq(Records)
  PROVE  LET o == Arranged(1..Len(s), Times(s)) IN
         /\ Chronological(s) \in Seq(Records)
         /\ Len(Chronological(s)) = Len(s)
         /\ o \in [1..Len(s) -> 1..Len(s)]
         /\ \A i \in 1..Len(s) : \E k \in 1..Len(s) : o[k] = i
         /\ \A k, l \in 1..Len(s) : o[k] = o[l] => k = l
         /\ \A k \in 1..Len(s) : Chronological(s)[k] = s[o[k]]
         /\ InTime(Chronological(s))
<1> DEFINE o == Arranged(1..Len(s), Times(s))
           c == Chronological(s)
<1>1. Len(s) \in Nat /\ \A i \in 1..Len(s) : Times(s)[i] \in Int
  BY TimesAreKeys
<1>2. Chronological(s) = StableSort(s, Times(s))
  BY DEF Chronological, Times
<1>3. /\ c \in Seq(Records) /\ Len(c) = Len(s)
      /\ \A k \in 1..Len(s) : c[k] = s[o[k]]
  BY <1>1, <1>2, Sorting
<1>4. /\ o \in [1..Len(s) -> 1..Len(s)]
      /\ \A i \in 1..Len(s) : \E k \in 1..Len(s) : o[k] = i
      /\ \A k, l \in 1..Len(s) : k < l => Before(Times(s), o[k], o[l])
  BY <1>1, Places
<1> HIDE DEF o, c
<1>5. ASSUME NEW k \in 1..Len(s), NEW l \in 1..Len(s), k < l
      PROVE  c[k].time <= c[l].time /\ o[k] # o[l]
  <2>1. Before(Times(s), o[k], o[l]) /\ o[k] \in 1..Len(s) /\ o[l] \in 1..Len(s)
    BY <1>4, <1>5
  <2>2. Times(s)[o[k]] = c[k].time /\ Times(s)[o[l]] = c[l].time
    BY <2>1, <1>3, TimesAreKeys
  <2>3. Times(s)[o[k]] \in Int /\ Times(s)[o[l]] \in Int
    BY <2>1, <1>1
  <2> QED
    BY <2>1, <2>2, <2>3 DEF Before
<1>6. \A k, l \in 1..Len(s) : o[k] = o[l] => k = l
  BY <1>1, <1>5
<1>7. InTime(c)
  BY <1>3, <1>5 DEF InTime
<1> QED
  BY <1>3, <1>4, <1>6, <1>7 DEF o, c

LEMMA AlreadyInOrder ==
  ASSUME NEW s \in Seq(Records), InTime(s)
  PROVE  Chronological(s) = s
<1>1. \A i \in 1..Len(s) : Times(s)[i] \in Int
  BY TimesAreKeys
<1>2. \A k, l \in 1..Len(s) : k < l => Times(s)[k] <= Times(s)[l]
  BY TimesAreKeys DEF InTime
<1>3. StableSort(s, Times(s)) = s
  BY <1>1, <1>2, SortOfSorted
<1> QED
  BY <1>3 DEF Chronological, Times

(* A record that is not behind the others goes to the end.                 *)
LEMMA AppendedInOrder ==
  ASSUME NEW s \in Seq(Records), NEW r \in Records, \A i \in 1..Len(s) : s[i].time <= r.time
  PROVE  Chronological(Append(s, r)) = Append(Chronological(s), r)
<1> DEFINE t == Append(s, r)
<1>1. t \in Seq(Records) /\ Len(t) = Len(s) + 1 /\ t[Len(s) + 1] = r /\ Len(s) \in Nat
      /\ \A i \in 1..Len(s) : t[i] = s[i]
  OBVIOUS
<1> HIDE DEF t
<1>2. \A i \in 1..Len(s) : /\ Times(s)[i] \in Int
                          /\ Times(t)[i] = Times(s)[i]
                          /\ Times(s)[i] <= Times(t)[Len(s) + 1]
  <2> TAKE i \in 1..Len(s)
  <2>1. i \in 1..Len(t) /\ Len(s) + 1 \in 1..Len(t)
    BY <1>1
  <2>2. Times(t)[i] = t[i].time /\ Times(t)[Len(s) + 1] = t[Len(s) + 1].time
    BY <2>1, <1>1, TimesAreKeys
  <2>3. Times(s)[i] = s[i].time /\ Times(s)[i] \in Int
    BY TimesAreKeys
  <2> QED
    BY <2>2, <2>3, <1>1
<1>3. Times(t)[Len(s) + 1] \in Int
  <2>1. Len(s) + 1 \in 1..Len(t)
    BY <1>1
  <2> QED
    BY <2>1, <1>1, TimesAreKeys
<1>4. StableSort(t, Times(t)) = Append(StableSort(s, Times(s)), r)
  BY <1>2, <1>3, SortAppend DEF t
<1> QED
  BY <1>4 DEF Chronological, Times, t

-----------------------------------------------------------------------------
(* Sums of sequences: f holds the sums of the prefixes of s.               *)
IsSums(f, s) == f = [i \in 0..Len(s) |-> IF i = 0 THEN 0 ELSE f[i - 1] + s[i]]
Sums(s) == CHOOSE f : IsSums(f, s)

(* f does so up to the n-th.                                               *)
SumsTo(f, s, n) == \A i \in 0..n : f[i] = IF i = 0 THEN 0 ELSE f[i - 1] + s[i]

LEMMA SumsStep ==
  ASSUME NEW s \in Seq(Int), NEW n \in Nat, n + 1 <= Len(s),
         NEW f \in [0..n -> Int], SumsTo(f, s, n)
  PROVE  \E g \in [0..(n + 1) -> Int] : SumsTo(g, s, n + 1)
<1> DEFINE g == [i \in 0..(n + 1) |-> IF i = n + 1 THEN f[n] + s[n + 1] ELSE f[i]]
<1>1. g \in [0..(n + 1) -> Int]
  <2>1. f[n] + s[n + 1] \in Int
    OBVIOUS
  <2> QED
    BY <2>1
<1>2. g[n + 1] = f[n] + s[n + 1] /\ \A i \in 0..n : g[i] = f[i]
  OBVIOUS
<1>3. SumsTo(g, s, n + 1)
  <2> HIDE DEF g
  <2> SUFFICES ASSUME NEW i \in 0..(n + 1) PROVE g[i] = IF i = 0 THEN 0 ELSE g[i - 1] + s[i]
    BY DEF SumsTo
  <2>1. CASE i = n + 1
    BY <2>1, <1>2
  <2>2. CASE i # n + 1
    <3>1. i \in 0..n /\ (i # 0 => i - 1 \in 0..n)
      BY <2>2
    <3> QED
      BY <3>1, <1>2 DEF SumsTo
  <2> QED
    BY <2>1, <2>2
<1> QED
  BY <1>1, <1>3

LEMMA SumsExist == ASSUME NEW s \in Seq(Int) PROVE \E f : IsSums(f, s)
<1> DEFINE G == {n \in Nat : n <= Len(s) => \E f \in [0..n -> Int] : SumsTo(f, s, n)}
<1>1. 0 \in G
  <2>1. SumsTo([i \in 0..0 |-> 0], s, 0)
    BY DEF SumsTo
  <2>2. [i \in 0..0 |-> 0] \in [0..0 -> Int]
    OBVIOUS
  <2> QED
    BY <2>1, <2>2
<1>2. ASSUME NEW n \in Nat, n \in G PROVE n + 1 \in G
  <2>1. CASE n + 1 <= Len(s)
    <3>1. \E f \in [0..n -> Int] : SumsTo(f, s, n)
      BY <1>2, <2>1
    <3> QED
      BY <2>1, <3>1, SumsStep
  <2>2. CASE ~(n + 1 <= Len(s))
    BY <2>2
  <2> QED
    BY <2>1, <2>2
<1>3. Nat \subseteq G
  <2> HIDE DEF G
  <2> QED
    BY <1>1, <1>2, SetInduction
<1>4. \E f \in [0..Len(s) -> Int] : SumsTo(f, s, Len(s))
  <2>1. Len(s) \in G
    BY <1>3
  <2> QED
    BY <2>1
<1>5. PICK f \in [0..Len(s) -> Int] : SumsTo(f, s, Len(s))
  BY <1>4
<1>6. IsSums(f, s)
  BY <1>5 DEF IsSums, SumsTo
<1> QED
  BY <1>6

LEMMA SumsUnfold ==
  ASSUME NEW s \in Seq(Int)
  PROVE  /\ Sums(s)[0] = 0
         /\ \A i \in 1..Len(s) : Sums(s)[i] = Sums(s)[i - 1] + s[i]
         /\ SumOf(s) = Sums(s)[Len(s)]
<1>1. IsSums(Sums(s), s)
  BY SumsExist DEF Sums
<1>2. SumOf(s) = Sums(s)[Len(s)]
  BY DEF SumOf, Sums, IsSums
<1>3. Len(s) \in Nat
  OBVIOUS
<1> DEFINE f == Sums(s)
<1> HIDE DEF f
<1>4. f = [i \in 0..Len(s) |-> IF i = 0 THEN 0 ELSE f[i - 1] + s[i]]
  BY <1>1 DEF IsSums, f
<1>5. \A i \in 0..Len(s) : f[i] = IF i = 0 THEN 0 ELSE f[i - 1] + s[i]
  BY <1>4
<1>6. f[0] = 0 /\ \A i \in 1..Len(s) : f[i] = f[i - 1] + s[i]
  BY <1>3, <1>5
<1> QED
  BY <1>2, <1>6 DEF f

LEMMA SumType == ASSUME NEW s \in Seq(Int) PROVE SumOf(s) \in Int
<1> DEFINE f == Sums(s)
           G == {n \in Nat : n <= Len(s) => f[n] \in Int}
<1>1. Len(s) \in Nat /\ f[0] = 0 /\ SumOf(s) = f[Len(s)]
      /\ \A i \in 1..Len(s) : f[i] = f[i - 1] + s[i]
  BY SumsUnfold
<1> HIDE DEF f
<1>2. 0 \in G
  BY <1>1
<1>3. ASSUME NEW n \in Nat, n \in G PROVE n + 1 \in G
  <2> SUFFICES ASSUME n + 1 <= Len(s) PROVE f[n + 1] \in Int
    OBVIOUS
  <2>1. n + 1 \in 1..Len(s) /\ (n + 1) - 1 = n /\ f[n] \in Int /\ s[n + 1] \in Int
    BY <1>3
  <2> QED
    BY <2>1, <1>1
<1>4. Nat \subseteq G
  <2> HIDE DEF G
  <2> QED
    BY <1>2, <1>3, SetInduction
<1> QED
  BY <1>1, <1>4

(* A sum of naturals is no less than the first of them.                    *)
LEMMA SumBounds ==
  ASSUME NEW s \in Seq(Nat), Len(s) > 0
  PROVE  SumOf(s) \in Nat /\ s[1] <= SumOf(s)
<1> DEFINE f == Sums(s)
           G == {n \in Nat : n + 1 <= Len(s) => f[n + 1] \in Nat /\ s[1] <= f[n + 1]}
<1>0. s \in Seq(Int)
  <2>1. \A i \in 1..Len(s) : s[i] \in Int
    OBVIOUS
  <2> QED
    BY <2>1
<1>1. Len(s) \in Nat /\ f[0] = 0 /\ SumOf(s) = f[Len(s)]
      /\ \A i \in 1..Len(s) : f[i] = f[i - 1] + s[i]
  BY <1>0, SumsUnfold
<1> HIDE DEF f
<1>2. 0 \in G
  <2>1. 1 \in 1..Len(s) /\ s[1] \in Nat /\ 1 - 1 = 0
    OBVIOUS
  <2>2. f[1] = f[0] + s[1]
    BY <2>1, <1>1
  <2> QED
    BY <2>1, <2>2, <1>1
<1>3. ASSUME NEW n \in Nat, n \in G PROVE n + 1 \in G
  <2> SUFFICES ASSUME (n + 1) + 1 <= Len(s)
               PROVE  f[(n + 1) + 1] \in Nat /\ s[1] <= f[(n + 1) + 1]
    OBVIOUS
  <2>1. (n + 1) + 1 \in 1..Len(s) /\ ((n + 1) + 1) - 1 = n + 1
        /\ f[n + 1] \in Nat /\ s[1] <= f[n + 1]
    BY <1>3
  <2>2. s[(n + 1) + 1] \in Nat /\ s[1] \in Nat
    BY <2>1
  <2>3. f[(n + 1) + 1] = f[n + 1] + s[(n + 1) + 1]
    BY <2>1, <1>1
  <2> QED
    BY <2>1, <2>2, <2>3
<1>4. Nat \subseteq G
  <2> HIDE DEF G
  <2> QED
    BY <1>2, <1>3, SetInduction
<1>5. Len(s) - 1 \in G
  BY <1>4
<1> QED
  BY <1>1, <1>5

-----------------------------------------------------------------------------
(* Adjacent windows of a series.                                           *)
WindowPairs(series) == 1..(Len(series) \div Window - 1)

LEMMA WindowBounds ==
  ASSUME NEW n \in Nat, NEW k \in 1..(n \div Window - 1)
  PROVE  /\ Window \in Nat \ {0} /\ k \in Nat /\ k * Window \in Nat
         /\ k * Window >= Window /\ k * Window + Window <= n
<1>1. Window \in Nat \ {0}
  BY ExtractionConstants
<1> DEFINE q == n \div Window
<1>2. q \in Nat /\ Window * q <= n
  BY <1>1
<1>3. k \in Nat /\ k >= 1 /\ k + 1 <= q
  BY <1>2
<1> HIDE DEF q
<1>4. (k + 1) * Window <= q * Window /\ k * Window >= Window
  BY <1>1, <1>2, <1>3
<1>5. (k + 1) * Window = k * Window + Window /\ k * Window \in Nat
  BY <1>1, <1>3
<1> QED
  BY <1>1, <1>2, <1>3, <1>4, <1>5

Events == [start : Int, end : Int, shift : Int]

LEMMA WindowSum ==
  ASSUME NEW series \in Seq(Records), NEW i \in 1..Len(series), i + Window - 1 <= Len(series)
  PROVE  SumOf([j \in 1..Window |-> SubSeq(series, i, i + Window - 1)[j].value]) \in Int
<1> DEFINE after == SubSeq(series, i, i + Window - 1)
           s == [j \in 1..Window |-> after[j].value]
<1>1. Window \in Nat \ {0}
  BY ExtractionConstants
<1>2. \A j \in 1..Window : after[j] = series[i + j - 1] /\ i + j - 1 \in 1..Len(series)
  BY <1>1
<1> HIDE DEF after
<1>3. \A j \in 1..Len(series) : series[j].value \in Int
  <2> TAKE j \in 1..Len(series)
  <2>1. series[j] \in Records
    OBVIOUS
  <2> QED
    BY <2>1 DEF Records
<1>4. \A j \in 1..Window : after[j].value \in Int
  BY <1>2, <1>3
<1>5. s \in Seq(Int)
  BY <1>1, <1>4
<1> HIDE DEF s
<1>6. SumOf(s) \in Int
  BY <1>5, SumType
<1> QED
  BY <1>6 DEF s, after

LEMMA MeanShiftIs ==
  ASSUME NEW series \in Seq(Records), NEW k \in WindowPairs(series)
  PROVE  /\ MeanShift(series, k) \in Events
         /\ MeanShift(series, k).start = series[k * Window + 1].time
         /\ MeanShift(series, k).end = series[k * Window + Window].time
<1> DEFINE i == k * Window + 1
           before == SubSeq(series, i - Window, i - 1)
           after == SubSeq(series, i, i + Window - 1)
           a == SumOf([j \in 1..Window |-> after[j].value])
           b == SumOf([j \in 1..Window |-> before[j].value])
           e == MeanShift(series, k)
<1>1. Len(series) \in Nat
  OBVIOUS
<1>2. /\ Window \in Nat \ {0} /\ k \in Nat /\ k * Window \in Nat
      /\ k * Window >= Window /\ k * Window + Window <= Len(series)
  BY <1>1, WindowBounds DEF WindowPairs
<1>3. /\ i \in 1..Len(series) /\ i + Window - 1 <= Len(series)
      /\ i - Window \in 1..Len(series) /\ (i - Window) + Window - 1 = i - 1
      /\ i - 1 <= Len(series)
  BY <1>2
<1>4. a \in Int
  <2> HIDE DEF i
  <2> QED
    BY <1>3, WindowSum
<1>5. b \in Int
  <2> HIDE DEF i
  <2> DEFINE h == i - Window
  <2>1. h \in 1..Len(series) /\ h + Window - 1 = i - 1 /\ h + Window - 1 <= Len(series)
    BY <1>3
  <2> HIDE DEF h
  <2>2. SumOf([j \in 1..Window |-> SubSeq(series, h, h + Window - 1)[j].value]) \in Int
    BY <2>1, WindowSum
  <2> QED
    BY <2>1, <2>2 DEF h
<1>6. after[1] = series[i] /\ after[Window] = series[k * Window + Window]
  BY <1>2, <1>3
<1>7. e = [start |-> after[1].time, end |-> after[Window].time, shift |-> Size(a - b)]
  BY DEF MeanShift, WindowStart
<1> HIDE DEF after, before, a, b, e
<1>8. Size(a - b) \in Int
  BY <1>4, <1>5 DEF Size
<1>9. k * Window + Window \in 1..Len(series)
  BY <1>2
<1>10. series[i].time \in Int /\ series[k * Window + Window].time \in Int
  <2>1. series[i] \in Records /\ series[k * Window + Window] \in Records
    BY <1>3, <1>9
  <2> QED
    BY <2>1 DEF Records
<1>11. e \in Events /\ e.start = series[i].time /\ e.end = series[k * Window + Window].time
  BY <1>6, <1>7, <1>8, <1>10 DEF Events
<1> QED
  BY <1>11 DEF e

(* A part of a sequence depends on that part only.                         *)
LEMMA SamePart ==
  ASSUME NEW S, NEW s \in Seq(S), NEW t \in Seq(S), NEW a \in Nat \ {0}, NEW b \in Nat,
         b <= Len(s), b <= Len(t), \A i \in 1..b : s[i] = t[i]
  PROVE  SubSeq(s, a, b) = SubSeq(t, a, b)
<1>1. \A i \in 1..(b - a + 1) : i + a - 1 \in 1..b
  OBVIOUS
<1>2. \A i \in 1..(b - a + 1) : s[i + a - 1] = t[i + a - 1]
  BY <1>1
<1>3. /\ SubSeq(s, a, b) = [i \in 1..(b - a + 1) |-> s[i + a - 1]]
      /\ SubSeq(t, a, b) = [i \in 1..(b - a + 1) |-> t[i + a - 1]]
  OBVIOUS
<1> QED
  BY ONLY <1>2, <1>3

(* A window pair does not change when the series goes on.                  *)
LEMMA MeanShiftIsLocal ==
  ASSUME NEW series \in Seq(Records), NEW more \in Seq(Records), Len(series) <= Len(more),
         \A i \in 1..Len(series) : more[i] = series[i],
         NEW k \in WindowPairs(series)
  PROVE  MeanShift(more, k) = MeanShift(series, k) /\ k \in WindowPairs(more)
<1>1. Len(series) \in Nat /\ Len(more) \in Nat
  OBVIOUS
<1>2. /\ Window \in Nat \ {0} /\ k \in Nat /\ k * Window \in Nat
      /\ k * Window >= Window /\ k * Window + Window <= Len(series)
  BY <1>1, WindowBounds DEF WindowPairs
<1> DEFINE i == k * Window + 1
<1>a. /\ i \in Nat \ {0} /\ i + Window - 1 \in Nat /\ i + Window - 1 <= Len(series)
      /\ i - Window \in Nat \ {0} /\ i - 1 \in Nat /\ i - 1 <= Len(series)
  BY <1>1, <1>2, SMTT(30)
<1> HIDE DEF i
<1> DEFINE a == i - Window
           b == i + Window - 1
           z == i - 1
<1>b. /\ a \in Nat \ {0} /\ b \in Nat /\ b <= Len(series) /\ b <= Len(more)
      /\ z \in Nat /\ z <= Len(series) /\ z <= Len(more)
  BY <1>1, <1>a
<1>c. \A j \in 1..b : j \in 1..Len(series)
  BY <1>1, <1>b
<1>d. \A j \in 1..z : j \in 1..Len(series)
  BY <1>1, <1>b
<1> HIDE DEF a, b, z
<1>3. SubSeq(more, i, b) = SubSeq(series, i, b)
  BY <1>a, <1>b, <1>c, SamePart
<1>4. SubSeq(more, a, z) = SubSeq(series, a, z)
  BY <1>b, <1>d, SamePart
<1>5. MeanShift(more, k) = MeanShift(series, k)
  BY <1>3, <1>4 DEF MeanShift, WindowStart, i, a, b, z
<1>6. k \in WindowPairs(more)
  <2> DEFINE p == Len(series) \div Window
             q == Len(more) \div Window
  <2>1. p \in Nat /\ Window * p <= Len(series)
    BY <1>1, <1>2
  <2>2. q \in Nat /\ Len(more) < Window * q + Window
    BY <1>1, <1>2, SMTT(30)
  <2>3. k >= 1 /\ k <= p - 1
    BY DEF WindowPairs
  <2> HIDE DEF p, q
  <2>4. Window * p < Window * (q + 1)
    <3>1. Window * (q + 1) = Window * q + Window
      BY <2>2, <1>2
    <3>2. Window * q \in Int /\ Window * p \in Int
      BY <2>1, <2>2, <1>2
    <3>3. Len(series) <= Len(more)
      OBVIOUS
    <3> QED
      BY ONLY <3>1, <3>2, <3>3, <2>1, <2>2, <1>1, <1>2
  <2>5. p <= q
    <3> SUFFICES ASSUME p >= q + 1 PROVE FALSE
      BY <2>1, <2>2
    <3>1. Window * p >= Window * (q + 1)
      BY <2>1, <2>2, <1>2
    <3> QED
      BY <3>1, <2>1, <2>2, <2>4, <1>2
  <2>6. k \in 1..(q - 1)
    BY <2>1, <2>2, <2>3, <2>5, <1>2
  <2> QED
    BY <2>6 DEF q, WindowPairs
<1> QED
  BY <1>5, <1>6

Shifts(series) == {k \in WindowPairs(series) : MeanShift(series, k).shift > Threshold * Window}

Pairs(series) == [k \in WindowPairs(series) |-> MeanShift(series, k)]

(* Indices of pairs, also where there are none.                            *)
LEMMA PairIndices ==
  ASSUME NEW m \in Int, NEW keep, keep \subseteq 1..m
  PROVE  keep \subseteq Nat /\ IsFiniteSet(keep)
<1>1. IsFiniteSet(1..m)
  BY FS_Interval
<1>2. IsFiniteSet(keep)
  BY <1>1, FS_Subset
<1> QED
  BY <1>2

LEMMA EventsOfSeries ==
  ASSUME NEW s \in Seq(Records)
  PROVE  LET c == Chronological(s) IN
         /\ DriftEvents(s) = Kept(Pairs(c), Shifts(c))
         /\ Shifts(c) \subseteq Nat /\ IsFiniteSet(Shifts(c))
         /\ Into(Pairs(c), Shifts(c), Events)
<1> DEFINE c == Chronological(s)
<1>1. c \in Seq(Records)
  BY InOrderOfTime
<1>2. DriftEvents(s) = Kept(Pairs(c), Shifts(c))
  BY DEF DriftEvents, Pairs, Shifts, WindowPairs
<1> HIDE DEF c
<1>3. Len(c) \in Nat /\ Window \in Nat \ {0}
  BY <1>1, ExtractionConstants
<1>4. Len(c) \div Window - 1 \in Int
  BY <1>3
<1>5. Shifts(c) \subseteq 1..(Len(c) \div Window - 1)
  BY DEF Shifts, WindowPairs
<1>6. Shifts(c) \subseteq Nat /\ IsFiniteSet(Shifts(c))
  BY <1>4, <1>5, PairIndices
<1>7. Into(Pairs(c), Shifts(c), Events)
  BY <1>1, MeanShiftIs DEF Into, Pairs, Shifts
<1> QED
  BY <1>2, <1>6, <1>7 DEF c

(* An event is two windows of records in the order of time, the second     *)
(* after a whole window at least.                                          *)
LEMMA EventIs ==
  ASSUME NEW s \in Seq(Records), NEW i \in DOMAIN DriftEvents(s)
  PROVE  LET e == DriftEvents(s)[i]
             c == Chronological(s)
         IN  /\ e \in Events
             /\ e.shift > Threshold * Window
             /\ e.start <= e.end
             /\ \E j \in 1..Len(c) : j > Window /\ c[j].time = e.start
<1> DEFINE c == Chronological(s)
           places == Shifts(c)
           e == DriftEvents(s)[i]
<1>1. c \in Seq(Records) /\ InTime(c)
  BY InOrderOfTime
<1>2. /\ DriftEvents(s) = Kept(Pairs(c), places)
      /\ places \subseteq Nat /\ IsFiniteSet(places)
      /\ Into(Pairs(c), places, Events)
  BY EventsOfSeries
<1> HIDE DEF c, places
<1>3. /\ DriftEvents(s) \in Seq(Events) /\ Len(DriftEvents(s)) = Cardinality(places)
      /\ \A k \in 1..Cardinality(places) : DriftEvents(s)[k] = Pairs(c)[Order(places)[k]]
  <2> DEFINE f == Pairs(c)
  <2>1. Into(f, places, Events) /\ places \subseteq Nat /\ IsFiniteSet(places)
    BY <1>2
  <2> HIDE DEF f
  <2>2. /\ Kept(f, places) \in Seq(Events) /\ Len(Kept(f, places)) = Cardinality(places)
        /\ \A k \in 1..Cardinality(places) : Kept(f, places)[k] = f[Order(places)[k]]
    <3>1. Kept(f, places) \in Seq(Events)
      BY ONLY <2>1, Keeping
    <3>2. Len(Kept(f, places)) = Cardinality(places)
      BY ONLY <2>1, Keeping
    <3>3. \A k \in 1..Cardinality(places) : Kept(f, places)[k] = f[Order(places)[k]]
      <4>1. KeptInPlace(f, places)
        BY ONLY <2>1, Keeping
      <4> QED
        BY ONLY <4>1 DEF KeptInPlace
    <3> QED
      BY <3>1, <3>2, <3>3
  <2>3. DriftEvents(s) = Kept(f, places)
    BY <1>2 DEF f
  <2> QED
    BY <2>2, <2>3 DEF f
<1>4. i \in 1..Cardinality(places)
  BY <1>3
<1>5. PICK k \in places : e = Pairs(c)[k]
  <2>1. Order(places)[i] \in places
    BY <1>2, <1>4, KeptOrder
  <2> QED
    BY <2>1, <1>3, <1>4
<1>6. k \in WindowPairs(c) /\ e = MeanShift(c, k) /\ e.shift > Threshold * Window
  BY <1>5 DEF places, Shifts, Pairs
<1>7. e \in Events /\ e.start = c[k * Window + 1].time /\ e.end = c[k * Window + Window].time
  BY <1>1, <1>6, MeanShiftIs
<1>8. /\ Window \in Nat \ {0} /\ k \in Nat /\ k * Window \in Nat
      /\ k * Window >= Window /\ k * Window + Window <= Len(c) /\ Len(c) \in Nat
  BY <1>1, <1>6, WindowBounds DEF WindowPairs
<1>9. k * Window + 1 \in 1..Len(c) /\ k * Window + Window \in 1..Len(c)
      /\ k * Window + 1 > Window
  BY <1>8
<1>10. e.start <= e.end
  <2>1. CASE Window = 1
    <3>1. e.start = e.end /\ e.start \in Int
      BY <2>1, <1>7 DEF Events
    <3> QED
      BY <3>1
  <2>2. CASE Window # 1
    <3>1. k * Window + 1 < k * Window + Window
      BY <2>2, <1>8
    <3> QED
      BY <3>1, <1>1, <1>7, <1>9 DEF InTime
  <2> QED
    BY <2>1, <2>2
<1> HIDE DEF e
<1> QED
  BY <1>6, <1>7, <1>9, <1>10 DEF c, e

(* A record saved in order leaves the events where they are.               *)
LEMMA EventsGrow ==
  ASSUME NEW s \in Seq(Records), NEW r \in Records, \A i \in 1..Len(s) : s[i].time <= r.time
  PROVE  IsPrefix(DriftEvents(s), DriftEvents(Append(s, r)))
<1> DEFINE t == Append(s, r)
           c == Chronological(s)
           d == Chronological(t)
           m == Len(c) \div Window - 1
<1>1. t \in Seq(Records)
  OBVIOUS
<1>2. c \in Seq(Records) /\ d \in Seq(Records) /\ d = Append(c, r)
  BY <1>1, InOrderOfTime, AppendedInOrder
<1>3. /\ DriftEvents(s) = Kept(Pairs(c), Shifts(c))
      /\ Shifts(c) \subseteq Nat /\ IsFiniteSet(Shifts(c))
      /\ Into(Pairs(c), Shifts(c), Events)
  BY EventsOfSeries
<1>4. /\ DriftEvents(t) = Kept(Pairs(d), Shifts(d))
      /\ Shifts(d) \subseteq Nat /\ IsFiniteSet(Shifts(d))
      /\ Into(Pairs(d), Shifts(d), Events)
  <2> HIDE DEF t
  <2> QED
    BY <1>1, EventsOfSeries
<1> HIDE DEF t, c, d
<1>5. Len(c) \in Nat /\ Len(d) = Len(c) + 1 /\ \A i \in 1..Len(c) : d[i] = c[i]
  BY <1>2
<1>6. \A k \in WindowPairs(c) : k \in WindowPairs(d) /\ MeanShift(d, k) = MeanShift(c, k)
  <2> TAKE k \in WindowPairs(c)
  <2>1. Len(c) <= Len(d)
    BY <1>5
  <2> QED
    BY <2>1, <1>2, <1>5, MeanShiftIsLocal
<1>7. WindowPairs(c) = 1..m
  BY DEF WindowPairs
<1>8. m \in Int
  BY <1>5, ExtractionConstants
<1> HIDE DEF m
<1>9. \A k \in Shifts(c) : k \in Shifts(d) /\ Pairs(c)[k] = Pairs(d)[k]
  BY <1>6 DEF Shifts, Pairs
<1>10. \A k \in Shifts(d) : k \in Shifts(c) <=> k <= m
  <2> TAKE k \in Shifts(d)
  <2>1. k \in WindowPairs(d) /\ k \in Nat /\ k >= 1
    BY <1>4 DEF Shifts, WindowPairs
  <2>2. k \in WindowPairs(c) <=> k <= m
    BY <2>1, <1>7, <1>8
  <2> QED
    BY <2>1, <2>2, <1>6 DEF Shifts
<1>11. CASE m \in Nat
  <2>1. Shifts(c) \subseteq 1..m /\ Shifts(c) \subseteq Shifts(d)
    BY <1>7, <1>9 DEF Shifts
  <2> QED
    BY <2>1, <1>3, <1>4, <1>9, <1>10, <1>11, KeptPrefix DEF t
<1>12. CASE m \notin Nat
  <2>1. Shifts(c) \subseteq 1..0 /\ Shifts(c) \subseteq Shifts(d) /\ 0 \in Nat
    BY <1>7, <1>8, <1>12, <1>9 DEF Shifts
  <2>2. \A k \in Shifts(d) : k \in Shifts(c) <=> k <= 0
    <3>1. \A k \in Shifts(d) : k \in Nat /\ k >= 1
      BY <1>4 DEF Shifts, WindowPairs
    <3> QED
      BY <3>1, <2>1
  <2> QED
    BY <2>1, <2>2, <1>3, <1>4, <1>9, KeptPrefix DEF t
<1> QED
  BY <1>11, <1>12

-----------------------------------------------------------------------------
(* Extremes of sets of naturals and of finite families of integers.        *)
LEMMA Least ==
  ASSUME NEW G, G \subseteq Nat, G # {}
  PROVE  \E x \in G : \A y \in G : x <= y
<1>1. PICK x \in G : \A y \in G : ~(<<y, x>> \in OpToRel(<, Nat))
  BY NatLessThanWellFounded, WFMin
<1>2. \A y \in G : ~(y < x)
  BY <1>1 DEF OpToRel
<1>3. x \in Nat /\ \A y \in G : y \in Nat
  OBVIOUS
<1> QED
  BY <1>2, <1>3

AllInt(f, n) == \A i \in 1..n : f[i] \in Int

LEMMA Greatest ==
  ASSUME NEW n \in Nat, n > 0, NEW f, AllInt(f, n)
  PROVE  \E k \in 1..n : \A i \in 1..n : f[i] <= f[k]
<1> DEFINE G == {m \in Nat : m + 1 <= n =>
                    \E k \in 1..(m + 1) : \A i \in 1..(m + 1) : f[i] <= f[k]}
<1>1. 0 \in G
  <2>1. 1 \in 1..n /\ f[1] \in Int
    BY DEF AllInt
  <2>2. \A i \in 1..(0 + 1) : i = 1
    OBVIOUS
  <2> QED
    BY <2>1, <2>2
<1>2. ASSUME NEW m \in Nat, m \in G PROVE m + 1 \in G
  <2> SUFFICES ASSUME (m + 1) + 1 <= n
               PROVE  \E k \in 1..((m + 1) + 1) : \A i \in 1..((m + 1) + 1) : f[i] <= f[k]
    OBVIOUS
  <2>1. m + 1 <= n
    OBVIOUS
  <2>2. PICK k \in 1..(m + 1) : \A i \in 1..(m + 1) : f[i] <= f[k]
    BY <1>2, <2>1
  <2> DEFINE l == (m + 1) + 1
  <2>3. k \in 1..n /\ l \in 1..n /\ \A i \in 1..l : i = l \/ i \in 1..(m + 1)
    OBVIOUS
  <2>4. f[k] \in Int /\ f[l] \in Int /\ \A i \in 1..l : f[i] \in Int
    BY <2>3 DEF AllInt
  <2>5. k \in 1..l /\ l \in 1..l
    OBVIOUS
  <2> HIDE DEF l
  <2>6. CASE f[l] <= f[k]
    BY <2>2, <2>3, <2>4, <2>5, <2>6 DEF l
  <2>7. CASE ~(f[l] <= f[k])
    <3>1. \A i \in 1..l : f[i] <= f[l]
      BY <2>2, <2>3, <2>4, <2>7
    <3> QED
      BY <3>1, <2>5 DEF l
  <2> QED
    BY <2>6, <2>7
<1>3. Nat \subseteq G
  <2> HIDE DEF G
  <2> QED
    BY <1>1, <1>2, SetInduction
<1>4. n - 1 \in Nat /\ (n - 1) + 1 = n /\ (n - 1) + 1 <= n
  OBVIOUS
<1>5. n - 1 \in G
  <2> HIDE DEF G
  <2> QED
    BY <1>3, <1>4
<1> QED
  BY <1>4, <1>5

-----------------------------------------------------------------------------
(* What is saved is a record.                                              *)
DeploymentOf(r) == [f \in Fields |-> r[f]]

LEMMA NewRecordIs ==
  ASSUME NEW run \in Nat, NEW delay \in Int, NEW value \in Values, NEW d \in Deployments,
         history # << >> => Newest \in Int
  PROVE  LET r == NewRecord(run, delay, value, d) IN
         /\ r \in Records
         /\ r.run = run /\ r.value = value
         /\ history # << >> => r.time = Newest + delay
         /\ DeploymentOf(r) = d
<1> DEFINE r == NewRecord(run, delay, value, d)
<1>1. d = [f \in Fields |-> d[f]] /\ Values \subseteq Nat
  BY AnalysisConstants
<1>2. r = [f \in DOMAIN r |-> r[f]] /\ DOMAIN r = Names
  BY DEF Names, NewRecord
<1>3. r.run = run /\ r.value = value
      /\ r.time = IF history = << >> THEN 10 ELSE Newest + delay
  BY DEF Fields, NewRecord
<1>4. \A f \in Fields : r[f] = d[f]
  BY DEF Fields, NewRecord
<1> HIDE DEF r
<1>5. \A f \in Fields : r[f] \in FieldValues
  <2> TAKE f \in Fields
  <2>1. r[f] \in {d[g] : g \in Fields}
    BY <1>4
  <2>2. {d[g] : g \in Fields} \in {{e[g] : g \in Fields} : e \in Deployments}
    OBVIOUS
  <2> QED
    BY <2>1, <2>2 DEF FieldValues
<1>6. r.run \in Nat /\ r.time \in Int /\ r.value \in Nat
  BY <1>1, <1>3
<1>7. \A f \in Names : r[f] \in Int \cup FieldValues
  BY <1>5, <1>6 DEF Names
<1>8. r \in Records
  BY <1>2, <1>5, <1>6, <1>7 DEF Records
<1>9. DeploymentOf(r) = d
  BY <1>1, <1>4 DEF DeploymentOf
<1> QED
  BY <1>3, <1>8, <1>9 DEF r

LEMMA NewestIs ==
  ASSUME history \in Seq(Records), history # << >>
  PROVE  Newest \in Int /\ \A i \in 1..Len(history) : history[i].time <= Newest
<1> DEFINE f == Times(history)
           n == Len(history)
<1>1. n \in Nat /\ n > 0 /\ DOMAIN history = 1..n
  OBVIOUS
<1>2. \A i \in 1..n : f[i] = history[i].time /\ f[i] \in Int
  BY TimesAreKeys
<1> HIDE DEF f, n
<1>3. PICK k \in 1..n : \A i \in 1..n : f[i] <= f[k]
  BY <1>1, <1>2, Greatest DEF AllInt
<1>4. /\ Newest \in {history[i].time : i \in DOMAIN history}
      /\ \A i \in DOMAIN history : history[i].time <= Newest
  <2>1. history[k].time \in {history[i].time : i \in DOMAIN history}
    BY <1>1
  <2>2. \A i \in DOMAIN history : history[i].time <= history[k].time
    BY <1>1, <1>2, <1>3
  <2> QED
    BY <2>1, <2>2 DEF Newest
<1>5. Newest \in Int
  BY <1>1, <1>2, <1>4
<1> QED
  BY <1>1, <1>4, <1>5 DEF n

-----------------------------------------------------------------------------
(* The history: records, their runs numbered as they are evaluated.        *)
HistoryInv ==
    /\ history \in Seq(Records)
    /\ Len(history) <= MaxRecords
    /\ \A i \in 1..Len(history) :
           /\ history[i].run \in 1..i
           /\ history[i].value \in Values
           /\ DeploymentOf(history[i]) \in Deployments

InOrder(r) == \A i \in 1..Len(history) : history[i].time <= r.time

(* What Save appends: a record, in order unless delayed says otherwise.    *)
LEMMA Saved ==
  ASSUME HistoryInv, Save
  PROVE  \E r \in Records :
             /\ history' = Append(history, r)
             /\ Len(history) + 1 <= MaxRecords
             /\ r.run \in 1..(Len(history) + 1)
             /\ r.value \in Values
             /\ DeploymentOf(r) \in Deployments
             /\ step # "detect" /\ ~delayed' => InOrder(r)
<1>1. /\ history \in Seq(Records) /\ Len(history) \in Nat
      /\ Len(history) < MaxRecords /\ MaxRecords \in Nat
  BY AnalysisConstants DEF HistoryInv, Save
<1>2. PICK run \in Runs, delay \in Delays, value \in Values, d \in Deployments :
        /\ history' = Append(history, NewRecord(run, delay, value, d))
        /\ delayed' = (delayed \/ (step # "detect" /\ delay < 0))
  BY DEF Save
<1>3. run \in 1..(Len(history) + 1)
  <2>1. CASE history = << >>
    BY <2>1, <1>2, <1>1 DEF Runs
  <2>2. CASE history # << >>
    <3>1. run = Len(history) + 1 \/ run = history[Len(history)].run
      BY <2>2, <1>2 DEF Runs, Last
    <3>2. Len(history) \in 1..Len(history)
      BY <2>2, <1>1
    <3>3. history[Len(history)].run \in 1..Len(history)
      BY <3>2 DEF HistoryInv
    <3> QED
      BY <3>1, <3>3, <1>1
  <2> QED
    BY <2>1, <2>2
<1>4. delay \in Int /\ run \in Nat
  BY <1>1, <1>3, AnalysisConstants
<1>5. history # << >> => Newest \in Int /\ \A i \in 1..Len(history) : history[i].time <= Newest
  BY <1>1, NewestIs
<1> DEFINE r == NewRecord(run, delay, value, d)
<1>6. /\ r \in Records
      /\ r.run = run /\ r.value = value
      /\ history # << >> => r.time = Newest + delay
      /\ DeploymentOf(r) = d
  BY <1>4, <1>5, NewRecordIs
<1> HIDE DEF r
<1>7. ASSUME step # "detect", ~delayed' PROVE InOrder(r)
  <2>1. delay >= 0
    <3>1. ~(delay < 0)
      BY <1>2, <1>7, Zenon
    <3> QED
      BY <3>1, <1>4
  <2> SUFFICES ASSUME NEW i \in 1..Len(history) PROVE history[i].time <= r.time
    BY DEF InOrder
  <2>2. history # << >>
    BY <1>1
  <2>3. history[i] \in Records
    BY <1>1
  <2>4. history[i].time \in Int
    BY <2>3 DEF Records
  <2> QED
    BY <2>1, <2>2, <2>4, <1>4, <1>5, <1>6
<1> QED
  BY <1>1, <1>2, <1>3, <1>6, <1>7 DEF r

LEMMA HistoryStep ==
  ASSUME HistoryInv, [Next]_vars
  PROVE  HistoryInv'
<1>1. CASE Save
  <2>1. PICK r \in Records :
             /\ history' = Append(history, r)
             /\ Len(history) + 1 <= MaxRecords
             /\ r.run \in 1..(Len(history) + 1)
             /\ r.value \in Values
             /\ DeploymentOf(r) \in Deployments
    BY <1>1, Saved
  <2>2. history \in Seq(Records) /\ Len(history) \in Nat
    BY DEF HistoryInv
  <2>3. /\ history' \in Seq(Records) /\ Len(history') = Len(history) + 1
        /\ history'[Len(history) + 1] = r
        /\ \A i \in 1..Len(history) : history'[i] = history[i]
    BY <2>1, <2>2
  <2>4. ASSUME NEW i \in 1..Len(history')
        PROVE  /\ history'[i].run \in 1..i
               /\ history'[i].value \in Values
               /\ DeploymentOf(history'[i]) \in Deployments
    <3>1. i = Len(history) + 1 \/ i \in 1..Len(history)
      BY <2>2, <2>3
    <3> QED
      BY <3>1, <2>1, <2>3 DEF HistoryInv
  <2> QED
    BY <2>1, <2>3, <2>4 DEF HistoryInv
<1>2. CASE ~Save
  <2>1. history' = history
    BY <1>2 DEF Next, Detect, Attribute, Simulate, Plan, vars
  <2> QED
    BY <2>1 DEF HistoryInv
<1> QED
  BY <1>1, <1>2

LEMMA HistoryInvariant == Spec => []HistoryInv
<1>1. Init => HistoryInv
  BY AnalysisConstants DEF Init, HistoryInv
<1>2. HistoryInv /\ [Next]_vars => HistoryInv'
  BY HistoryStep
<1> QED
  BY <1>1, <1>2, PTL DEF Spec

(* Saving a record that is not behind the newest keeps every drift event   *)
(* that detect_drift_from_store found, in its place.                       *)
THEOREM EventsStayEvents == Spec => EventsPersist
<1>1. HistoryInv /\ [Next]_vars =>
          [InOrderSave => IsPrefix(DriftEvents(history), DriftEvents(history'))]_vars
  <2> SUFFICES ASSUME HistoryInv, [Next]_vars, InOrderSave
               PROVE  IsPrefix(DriftEvents(history), DriftEvents(history'))
    OBVIOUS
  <2>1. Save
    <3> SUFFICES ASSUME ~Save PROVE FALSE
      OBVIOUS
    <3>1. history' = history
      BY DEF Next, Detect, Attribute, Simulate, Plan, vars
    <3> QED
      BY <3>1 DEF InOrderSave, HistoryInv
  <2>2. PICK r \in Records : history' = Append(history, r)
    BY <2>1, Saved
  <2>3. history \in Seq(Records) /\ Last(history') = r
    BY <2>2 DEF HistoryInv, Last
  <2>4. \A i \in 1..Len(history) : history[i].time <= r.time
    BY <2>3 DEF InOrderSave
  <2> QED
    BY <2>2, <2>3, <2>4, EventsGrow
<1> QED
  BY <1>1, HistoryInvariant, PTL DEF Spec, EventsPersist

-----------------------------------------------------------------------------
(* Changes: each is a pair of adjacent records, in the order of time, that *)
(* differ in a field.                                                      *)
TypeNames == {"model_update", "version_change", "config_change", "unknown"}
ChangeIds == Nat \X Int \X TypeNames

OldValues == UNION {[D -> FieldValues] : D \in SUBSET Fields}

ChangeSet == [id : ChangeIds, run : Nat, time : Int, type : TypeNames, old : OldValues]

LEMMA DetailsAre ==
  ASSUME NEW p \in Records, NEW c \in Records
  PROVE  Details(p, c) \in OldValues /\ DOMAIN Details(p, c) = {g \in Fields : p[g] # c[g]}
<1> DEFINE D == {g \in Fields : p[g] # c[g]}
<1>1. \A f \in Fields : p[f] \in FieldValues
  BY DEF Records
<1>2. p.info \in FieldValues /\ NONE \in FieldValues /\ ABSENT \in FieldValues
  <2>1. p.info \in FieldValues
    BY <1>1 DEF Fields
  <2>2. NONE \in FieldValues /\ ABSENT \in FieldValues
    BY DEF FieldValues
  <2> QED
    BY <2>1, <2>2
<1>3. ModelOf(p) \in FieldValues
  BY <1>2 DEF ModelOf
<1>4. DOMAIN Details(p, c) = D
  BY DEF Details
<1>5. Details(p, c) \in [D -> FieldValues]
  BY <1>1, <1>2, <1>3 DEF Details
<1>6. D \in SUBSET Fields
  OBVIOUS
<1> QED
  BY <1>4, <1>5, <1>6 DEF OldValues

LEMMA ChangeIs ==
  ASSUME NEW p \in Records, NEW c \in Records
  PROVE  /\ Change(p, c) \in ChangeSet
         /\ Change(p, c).id = <<c.run, c.time, ChangeType(p, c)>>
         /\ Change(p, c).run = c.run /\ Change(p, c).time = c.time
         /\ Change(p, c).old = Details(p, c)
<1>1. ChangeType(p, c) \in TypeNames
  BY DEF ChangeType, TypeNames
<1>2. c.run \in Nat /\ c.time \in Int
  BY DEF Records
<1>3. <<c.run, c.time, ChangeType(p, c)>> \in ChangeIds
  BY <1>1, <1>2 DEF ChangeIds
<1>4. Details(p, c) \in OldValues
  BY DetailsAre
<1> QED
  BY <1>1, <1>2, <1>3, <1>4 DEF Change, ChangeSet

Gaps(c) == {i \in 1..(Len(c) - 1) : DOMAIN Change(c[i], c[i + 1]).old # {}}

ChangePairs(c) == [i \in 1..(Len(c) - 1) |-> Change(c[i], c[i + 1])]

LEMMA GapIs ==
  ASSUME NEW c \in Seq(Records), NEW k \in Gaps(c)
  PROVE  /\ k \in 1..Len(c) /\ k + 1 \in 1..Len(c)
         /\ c[k] \in Records /\ c[k + 1] \in Records
         /\ ChangePairs(c)[k] = Change(c[k], c[k + 1])
         /\ Change(c[k], c[k + 1]) \in ChangeSet
         /\ Change(c[k], c[k + 1]).id = <<c[k + 1].run, c[k + 1].time, ChangeType(c[k], c[k + 1])>>
<1>1. k \in 1..(Len(c) - 1) /\ Len(c) \in Nat
  BY DEF Gaps
<1>2. k \in 1..Len(c) /\ k + 1 \in 1..Len(c)
  BY <1>1
<1>3. c[k] \in Records /\ c[k + 1] \in Records
  BY <1>2
<1>4. ChangePairs(c)[k] = Change(c[k], c[k + 1])
  BY <1>1 DEF ChangePairs
<1> QED
  BY <1>2, <1>3, <1>4, ChangeIs

LEMMA ChangesOf ==
  ASSUME NEW s \in Seq(Records)
  PROVE  LET c == Chronological(s) IN
         /\ Changes(s) = Kept(ChangePairs(c), Gaps(c))
         /\ Gaps(c) \subseteq Nat /\ IsFiniteSet(Gaps(c))
         /\ Into(ChangePairs(c), Gaps(c), ChangeSet)
<1> DEFINE c == Chronological(s)
<1>1. c \in Seq(Records)
  BY InOrderOfTime
<1>2. {i \in DOMAIN ChangePairs(c) : DOMAIN ChangePairs(c)[i].old # {}} = Gaps(c)
  BY DEF ChangePairs, Gaps
<1>3. Changes(s) = Kept(ChangePairs(c), {i \in DOMAIN ChangePairs(c) : DOMAIN ChangePairs(c)[i].old # {}})
  BY DEF Changes, ChangePairs
<1> HIDE DEF c
<1>4. Len(c) - 1 \in Int /\ Gaps(c) \subseteq 1..(Len(c) - 1)
  BY <1>1 DEF Gaps
<1>5. Gaps(c) \subseteq Nat /\ IsFiniteSet(Gaps(c))
  BY <1>4, PairIndices
<1>6. Into(ChangePairs(c), Gaps(c), ChangeSet)
  BY <1>1, GapIs DEF Into
<1> QED
  BY <1>2, <1>3, <1>5, <1>6 DEF c

(* Where the i-th change of a store was seen.                              *)
ChangeAt(s, i) == Order(Gaps(Chronological(s)))[i]

LEMMA ChangesAre ==
  ASSUME NEW s \in Seq(Records)
  PROVE  LET c == Chronological(s)
             n == Len(Changes(s))
         IN
         /\ Changes(s) \in Seq(ChangeSet)
         /\ \A i \in 1..n : /\ ChangeAt(s, i) \in Gaps(c)
                            /\ Changes(s)[i] = Change(c[ChangeAt(s, i)], c[ChangeAt(s, i) + 1])
         /\ \A k \in Gaps(c) : \E i \in 1..n : ChangeAt(s, i) = k
         /\ \A i, j \in 1..n : ChangeAt(s, i) = ChangeAt(s, j) => i = j
<1> DEFINE c == Chronological(s)
           n == Len(Changes(s))
           places == Gaps(c)
           f == ChangePairs(c)
<1>1. c \in Seq(Records)
  BY InOrderOfTime
<1>2. /\ Changes(s) = Kept(f, places)
      /\ places \subseteq Nat /\ IsFiniteSet(places)
      /\ Into(f, places, ChangeSet)
  BY ChangesOf
<1>3. \A k \in places : f[k] = Change(c[k], c[k + 1])
  BY <1>1, GapIs
<1>4. \A i : ChangeAt(s, i) = Order(places)[i]
  BY DEF ChangeAt
<1> HIDE DEF c, places, f
<1>5. Kept(f, places) \in Seq(ChangeSet)
  BY ONLY <1>2, Keeping
<1>6. Len(Kept(f, places)) = Cardinality(places)
  BY ONLY <1>2, Keeping
<1>7. \A k \in 1..Cardinality(places) : Kept(f, places)[k] = f[Order(places)[k]]
  <2>1. KeptInPlace(f, places)
    BY ONLY <1>2, Keeping
  <2> QED
    BY ONLY <2>1 DEF KeptInPlace
<1>8. /\ Cardinality(places) \in Nat
      /\ Order(places) \in [1..Cardinality(places) -> places]
      /\ \A i \in places : \E k \in 1..Cardinality(places) : Order(places)[k] = i
      /\ \A k, l \in 1..Cardinality(places) : k < l => Order(places)[k] < Order(places)[l]
  BY <1>2, KeptOrder
<1>9. n = Cardinality(places)
  BY <1>2, <1>6
<1> HIDE DEF n
<1>10. \A i \in 1..n : /\ ChangeAt(s, i) \in places
                      /\ Changes(s)[i] = Change(c[ChangeAt(s, i)], c[ChangeAt(s, i) + 1])
  <2> TAKE i \in 1..n
  <2>1. i \in 1..Cardinality(places)
    BY <1>9
  <2>2. ChangeAt(s, i) = Order(places)[i] /\ Order(places)[i] \in places
    BY ONLY <1>4, <1>8, <2>1
  <2>3. Changes(s)[i] = f[ChangeAt(s, i)]
    BY ONLY <1>2, <1>7, <2>1, <2>2
  <2> QED
    BY ONLY <1>3, <2>2, <2>3
<1>11. \A k \in places : \E i \in 1..n : ChangeAt(s, i) = k
  BY <1>4, <1>8, <1>9
<1>12. \A i, j \in 1..n : ChangeAt(s, i) = ChangeAt(s, j) => i = j
  <2> SUFFICES ASSUME NEW i \in 1..n, NEW j \in 1..n, i < j PROVE ChangeAt(s, i) # ChangeAt(s, j)
    BY <1>8, <1>9
  <2>1. ChangeAt(s, i) < ChangeAt(s, j)
    BY <1>4, <1>8, <1>9
  <2>2. ChangeAt(s, i) \in Nat /\ ChangeAt(s, j) \in Nat
    BY <1>2, <1>10
  <2> QED
    BY <2>1, <2>2
<1> QED
  BY <1>2, <1>5, <1>10, <1>11, <1>12 DEF c, n, places

(* A change with this id is seen in a series.                              *)
SeenIn(c, id) == \E k \in Gaps(c) : Change(c[k], c[k + 1]).id = id

LEMMA SeenIsChange ==
  ASSUME NEW s \in Seq(Records), NEW id
  PROVE  IsChange(s, id) <=> SeenIn(Chronological(s), id)
<1> DEFINE c == Chronological(s)
           x == Changes(s)
<1>1. /\ x \in Seq(ChangeSet)
      /\ \A i \in 1..Len(x) : /\ ChangeAt(s, i) \in Gaps(c)
                              /\ x[i] = Change(c[ChangeAt(s, i)], c[ChangeAt(s, i) + 1])
      /\ \A k \in Gaps(c) : \E i \in 1..Len(x) : ChangeAt(s, i) = k
  BY ChangesAre
<1>2. IsChange(s, id) <=> \E i \in DOMAIN x : x[i].id = id
  BY DEF IsChange
<1> HIDE DEF x, c
<1>3. DOMAIN x = 1..Len(x)
  BY <1>1
<1>4. ASSUME IsChange(s, id) PROVE SeenIn(c, id)
  BY <1>1, <1>2, <1>3, <1>4 DEF SeenIn
<1>5. ASSUME SeenIn(c, id) PROVE IsChange(s, id)
  BY <1>1, <1>2, <1>3, <1>5 DEF SeenIn
<1> QED
  BY <1>4, <1>5 DEF c

-----------------------------------------------------------------------------
(* Sorting permutes.                                                       *)
Permutes(p, t, s) ==
    /\ p \in [1..Len(s) -> 1..Len(s)]
    /\ \A k, l \in 1..Len(s) : p[k] = p[l] => k = l
    /\ \A k \in 1..Len(s) : t[k] = s[p[k]]

LEMMA SortingPermutes ==
  ASSUME NEW S, NEW s \in Seq(S), NEW key, AllInt(key, Len(s))
  PROVE  /\ StableSort(s, key) \in Seq(S)
         /\ Len(StableSort(s, key)) = Len(s)
         /\ \E p : /\ Permutes(p, StableSort(s, key), s)
                   /\ \A k, l \in 1..Len(s) : k < l => key[p[k]] <= key[p[l]]
<1> DEFINE n == Len(s)
           o == Arranged(1..n, key)
           t == StableSort(s, key)
<1>1. n \in Nat /\ \A i \in 1..n : key[i] \in Int
  BY DEF AllInt
<1>2. t \in Seq(S) /\ Len(t) = n /\ \A k \in 1..n : t[k] = s[o[k]]
  BY <1>1, Sorting
<1>3. /\ o \in [1..n -> 1..n]
      /\ \A k, l \in 1..n : k < l => Before(key, o[k], o[l])
  BY <1>1, Places
<1> HIDE DEF n, o, t
<1>4. \A k \in 1..n : o[k] \in 1..n
  BY <1>3
<1>5. ASSUME NEW k \in 1..n, NEW l \in 1..n, k < l
      PROVE  key[o[k]] <= key[o[l]] /\ o[k] # o[l]
  <2>1. Before(key, o[k], o[l]) /\ key[o[k]] \in Int /\ key[o[l]] \in Int
        /\ o[k] \in Nat /\ o[l] \in Nat
    BY <1>1, <1>3, <1>4, <1>5
  <2> QED
    BY <2>1 DEF Before
<1>6. \A k, l \in 1..n : o[k] = o[l] => k = l
  BY <1>1, <1>5
<1>7. Permutes(o, t, s)
  BY <1>2, <1>3, <1>6 DEF Permutes, n
<1> QED
  BY <1>2, <1>5, <1>7 DEF n, t

-----------------------------------------------------------------------------
(* Scores are between 0.39 and 1, once rounded to units of 1/10000.        *)
LEMMA DeltaIsNat ==
  ASSUME NEW e \in Events, NEW x \in ChangeSet
  PROVE  TimeDelta(e, x) \in Nat
<1>1. e.start \in Int /\ e.end \in Int /\ x.time \in Int
  BY DEF Events, ChangeSet
<1>2. Size(x.time - e.start) \in Nat /\ Size(x.time - e.end) \in Nat
  BY <1>1 DEF Size
<1> QED
  BY <1>2 DEF TimeDelta, Lesser

Scores == 1..Unit

LEMMA ScoresAre == \A x \in Scores : x \in Int /\ 1 <= x /\ x <= Unit
  BY DEF Scores, Unit

AtMost(a, n, b) == a \in Nat /\ b \in Nat /\ b > 0 /\ a <= n * b

LEMMA RoundedRatio ==
  ASSUME NEW a, NEW b, NEW n \in Nat, AtMost(a, n, b)
  PROVE  Rounded(a, b) \in 0..n
<1>0. a \in Nat /\ b \in Nat /\ b > 0 /\ a <= n * b
  BY DEF AtMost
<1>1. 2 * a + b \in Nat /\ 2 * b \in Nat /\ 2 * b > 0 /\ 2 * a + b < (n + 1) * (2 * b)
  <2>1. (n + 1) * (2 * b) = 2 * (n * b) + 2 * b /\ n * b \in Nat
    BY <1>0
  <2> QED
    BY <2>1, <1>0
<1> DEFINE x == 2 * a + b
           y == 2 * b
           q == x \div y
<1>2. q \in Nat /\ q * y <= x
  BY <1>1
<1>3. q <= n
  <2> HIDE DEF x, y, q
  <2> SUFFICES ASSUME q >= n + 1 PROVE FALSE
    BY <1>2
  <2>1. x < (n + 1) * y /\ y \in Nat /\ x \in Nat
    BY <1>1 DEF x, y
  <2>2. q * y >= (n + 1) * y
    BY <1>2, <2>1
  <2> QED
    BY <1>2, <2>1, <2>2
<1> QED
  BY <1>2, <1>3 DEF Rounded

LEMMA ScoreBounds ==
  ASSUME NEW e \in Events, NEW x \in ChangeSet, NEW far \in Nat, TimeDelta(e, x) <= far
  PROVE  Score(e, x, far) \in Scores
<1> DEFINE w == TypeWeight(x.type)
           delta == TimeDelta(e, x)
           near == IF far = 0 THEN 4000 ELSE 4000 - Rounded(4000 * delta, far)
<1>1. w \in {10, 8, 6, 3}
  BY DEF TypeWeight
<1>2. Score(e, x, far) = 3000 + 300 * w + near
  BY DEF Score
<1>3. delta \in Nat /\ delta <= far
  BY DeltaIsNat, SMTT(30)
<1> HIDE DEF delta, w
<1>4. near \in 0..4000
  <2>1. CASE far = 0
    BY <2>1
  <2>2. CASE far # 0
    <3>1. Rounded(4000 * delta, far) \in 0..4000
      <4> DEFINE a == 4000 * delta
                 n == 4000
      <4>1. AtMost(a, n, far) /\ n \in Nat
        BY <2>2, <1>3 DEF AtMost
      <4> HIDE DEF a, n
      <4>2. Rounded(a, far) \in 0..n
        BY ONLY <4>1, RoundedRatio
      <4> QED
        BY <4>2 DEF a, n
    <3> DEFINE r == Rounded(4000 * delta, far)
    <3>2. r \in 0..4000 /\ near = 4000 - r
      BY <2>2, <3>1, SMTT(30)
    <3> HIDE DEF r, near
    <3> QED
      BY <3>2
  <2> QED
    BY <2>1, <2>2
<1> HIDE DEF near
<1>5. 3000 + 300 * w + near \in Scores
  BY <1>1, <1>4 DEF Scores, Unit
<1> QED
  BY <1>2, <1>5

(* The largest time_delta there is.                                        *)
LEMMA FarIs ==
  ASSUME NEW n \in Nat, NEW f, \A i \in 1..n : f[i] \in Nat
  PROVE  LET far == CHOOSE d \in {0} \cup {f[i] : i \in 1..n} : \A i \in 1..n : f[i] <= d
         IN  far \in Nat /\ \A i \in 1..n : f[i] <= far
<1> DEFINE D == {0} \cup {f[i] : i \in 1..n}
<1>1. \E d \in D : \A i \in 1..n : f[i] <= d
  <2>1. CASE n = 0
    BY <2>1
  <2>2. CASE n # 0
    <3>1. n > 0 /\ AllInt(f, n)
      BY <2>2 DEF AllInt
    <3>2. PICK k \in 1..n : \A i \in 1..n : f[i] <= f[k]
      BY <3>1, Greatest
    <3> QED
      BY <3>2
  <2> QED
    BY <2>1, <2>2
<1>2. D \subseteq Nat
  OBVIOUS
<1> HIDE DEF D
<1>3. /\ (CHOOSE d \in D : \A i \in 1..n : f[i] <= d) \in D
      /\ \A i \in 1..n : f[i] <= CHOOSE d \in D : \A j \in 1..n : f[j] <= d
  BY <1>1
<1> QED
  BY <1>2, <1>3 DEF D

-----------------------------------------------------------------------------
(* The factors of an attribution: one for each change of the history, and  *)
(* of different runs where no run was evaluated twice.                     *)
FactorSet == [id : ChangeIds, type : TypeNames, time : Int, score : Scores]

(* Every member of s has an id that is seen in c.                          *)
AllSeen(s, c) == \A i \in 1..Len(s) : SeenIn(c, s[i].id)

(* No two members are about the same run.                                  *)
Apart(s) == \A i, j \in 1..Len(s) : s[i].id[1] = s[j].id[1] => i = j

LEMMA SeenStays ==
  ASSUME NEW c \in Seq(Records), NEW d \in Seq(Records), Len(c) <= Len(d),
         \A i \in 1..Len(c) : d[i] = c[i], NEW id, SeenIn(c, id)
  PROVE  SeenIn(d, id)
<1>1. PICK k \in Gaps(c) : Change(c[k], c[k + 1]).id = id
  BY DEF SeenIn
<1>2. k \in 1..Len(c) /\ k + 1 \in 1..Len(c)
  BY <1>1, GapIs
<1>3. d[k] = c[k] /\ d[k + 1] = c[k + 1]
  BY <1>2
<1>4. k \in 1..(Len(d) - 1)
  BY <1>2
<1>5. k \in Gaps(d)
  BY <1>1, <1>3, <1>4 DEF Gaps
<1> QED
  BY <1>1, <1>3, <1>5 DEF SeenIn

LEMMA ChangesSeen ==
  ASSUME NEW s \in Seq(Records)
  PROVE  AllSeen(Changes(s), Chronological(s))
<1> DEFINE c == Chronological(s)
           x == Changes(s)
<1>1. \A i \in 1..Len(x) : /\ ChangeAt(s, i) \in Gaps(c)
                           /\ x[i] = Change(c[ChangeAt(s, i)], c[ChangeAt(s, i) + 1])
  BY ChangesAre
<1> HIDE DEF c, x
<1>2. AllSeen(x, c)
  BY <1>1 DEF AllSeen, SeenIn
<1> QED
  BY <1>2 DEF c, x

LEMMA ChronologicalRuns ==
  ASSUME NEW s \in Seq(Records), DistinctRuns(s)
  PROVE  DistinctRuns(Chronological(s))
<1> DEFINE c == Chronological(s)
           o == Arranged(1..Len(s), Times(s))
<1>1. /\ c \in Seq(Records) /\ Len(c) = Len(s)
      /\ o \in [1..Len(s) -> 1..Len(s)]
      /\ \A k, l \in 1..Len(s) : o[k] = o[l] => k = l
      /\ \A k \in 1..Len(s) : c[k] = s[o[k]]
  BY InOrderOfTime
<1> HIDE DEF c, o
<1>2. DOMAIN c = 1..Len(s) /\ DOMAIN s = 1..Len(s)
  BY <1>1
<1>3. ASSUME NEW i \in DOMAIN c, NEW j \in DOMAIN c, c[i].run = c[j].run
      PROVE  i = j
  <2>1. s[o[i]].run = s[o[j]].run /\ o[i] \in DOMAIN s /\ o[j] \in DOMAIN s
    BY <1>1, <1>2, <1>3
  <2>2. o[i] = o[j]
    BY <2>1 DEF DistinctRuns
  <2> QED
    BY <2>2, <1>1, <1>2
<1>4. DistinctRuns(c)
  BY <1>3 DEF DistinctRuns
<1> QED
  BY <1>4 DEF c

LEMMA ChangesApart ==
  ASSUME NEW s \in Seq(Records), DistinctRuns(s)
  PROVE  Apart(Changes(s))
<1> DEFINE c == Chronological(s)
           x == Changes(s)
<1>1. c \in Seq(Records) /\ DistinctRuns(c)
  BY InOrderOfTime, ChronologicalRuns
<1>2. /\ \A i \in 1..Len(x) : /\ ChangeAt(s, i) \in Gaps(c)
                              /\ x[i] = Change(c[ChangeAt(s, i)], c[ChangeAt(s, i) + 1])
      /\ \A i, j \in 1..Len(x) : ChangeAt(s, i) = ChangeAt(s, j) => i = j
  BY ChangesAre
<1> HIDE DEF c, x
<1>3. ASSUME NEW i \in 1..Len(x), NEW j \in 1..Len(x), x[i].id[1] = x[j].id[1]
      PROVE  i = j
  <2> DEFINE k == ChangeAt(s, i)
             l == ChangeAt(s, j)
  <2>1. k \in Gaps(c) /\ l \in Gaps(c) /\ x[i] = Change(c[k], c[k + 1]) /\ x[j] = Change(c[l], c[l + 1])
    BY <1>2
  <2> HIDE DEF k, l
  <2>2. x[i].id[1] = c[k + 1].run /\ x[j].id[1] = c[l + 1].run
    <3>1. x[i].id = <<c[k + 1].run, c[k + 1].time, ChangeType(c[k], c[k + 1])>>
      BY <2>1, <1>1, GapIs
    <3>2. x[j].id = <<c[l + 1].run, c[l + 1].time, ChangeType(c[l], c[l + 1])>>
      BY <2>1, <1>1, GapIs
    <3> QED
      BY <3>1, <3>2
  <2>3. k + 1 \in 1..Len(c) /\ l + 1 \in 1..Len(c) /\ k \in 1..Len(c) /\ l \in 1..Len(c)
    BY <2>1, <1>1, GapIs
  <2>4. k + 1 = l + 1
    <3>1. k + 1 \in DOMAIN c /\ l + 1 \in DOMAIN c
      BY <2>3, <1>1
    <3>2. c[k + 1].run = c[l + 1].run
      BY <2>2, <1>3
    <3> QED
      BY <3>1, <3>2, <1>1 DEF DistinctRuns
  <2>5. k = l
    BY <2>3, <2>4
  <2> QED
    BY <2>5, <1>2 DEF k, l
<1>4. Apart(x)
  BY <1>3 DEF Apart
<1> QED
  BY <1>4 DEF x

(* Members of t are members of s, each once, by their ids.                 *)
SameIds(t, s) ==
    /\ Len(t) = Len(s)
    /\ \E p \in [1..Len(s) -> 1..Len(s)] :
          /\ \A k, l \in 1..Len(s) : p[k] = p[l] => k = l
          /\ \A k \in 1..Len(s) : t[k].id = s[p[k]].id

LEMMA SameIdsPass ==
  ASSUME NEW t, NEW s, NEW c, SameIds(t, s)
  PROVE  (AllSeen(s, c) => AllSeen(t, c)) /\ (Apart(s) => Apart(t))
<1>1. PICK p \in [1..Len(s) -> 1..Len(s)] :
          /\ \A k, l \in 1..Len(s) : p[k] = p[l] => k = l
          /\ \A k \in 1..Len(s) : t[k].id = s[p[k]].id
  BY DEF SameIds
<1>2. Len(t) = Len(s) /\ \A k \in 1..Len(s) : p[k] \in 1..Len(s)
  BY DEF SameIds
<1>3. AllSeen(s, c) => AllSeen(t, c)
  BY <1>1, <1>2 DEF AllSeen
<1>4. ASSUME Apart(s) PROVE Apart(t)
  <2> SUFFICES ASSUME NEW i \in 1..Len(s), NEW j \in 1..Len(s), t[i].id[1] = t[j].id[1]
               PROVE  i = j
    BY <1>2 DEF Apart
  <2>1. s[p[i]].id[1] = s[p[j]].id[1] /\ p[i] \in 1..Len(s) /\ p[j] \in 1..Len(s)
    BY <1>1, <1>2
  <2>2. p[i] = p[j]
    BY <2>1, <1>4 DEF Apart
  <2> QED
    BY <2>2, <1>1
<1> QED
  BY <1>3, <1>4

LEMMA SameIdsTrans ==
  ASSUME NEW t, NEW s, NEW r, SameIds(t, s), SameIds(s, r)
  PROVE  SameIds(t, r)
<1>1. Len(t) = Len(r) /\ Len(s) = Len(r)
  BY DEF SameIds
<1>2. PICK p \in [1..Len(s) -> 1..Len(s)] :
          /\ \A k, l \in 1..Len(s) : p[k] = p[l] => k = l
          /\ \A k \in 1..Len(s) : t[k].id = s[p[k]].id
  BY DEF SameIds
<1>3. PICK q \in [1..Len(r) -> 1..Len(r)] :
          /\ \A k, l \in 1..Len(r) : q[k] = q[l] => k = l
          /\ \A k \in 1..Len(r) : s[k].id = r[q[k]].id
  BY DEF SameIds
<1> DEFINE pq == [k \in 1..Len(r) |-> q[p[k]]]
<1>4. pq \in [1..Len(r) -> 1..Len(r)]
  BY <1>1, <1>2, <1>3
<1>5. \A k, l \in 1..Len(r) : pq[k] = pq[l] => k = l
  BY <1>1, <1>2, <1>3
<1>6. \A k \in 1..Len(r) : t[k].id = r[pq[k]].id
  BY <1>1, <1>2, <1>3
<1> QED
  BY <1>1, <1>4, <1>5, <1>6 DEF SameIds

LEMMA SortedIds ==
  ASSUME NEW S, NEW s \in Seq(S), NEW key, AllInt(key, Len(s))
  PROVE  SameIds(StableSort(s, key), s)
<1>1. /\ Len(StableSort(s, key)) = Len(s)
      /\ \E p : Permutes(p, StableSort(s, key), s)
  BY SortingPermutes
<1> QED
  BY <1>1 DEF SameIds, Permutes

LEMMA FactorsAre ==
  ASSUME NEW s \in Seq(Records), NEW e \in Events
  PROVE  /\ Factors(e, s) \in Seq(FactorSet)
         /\ AllSeen(Factors(e, s), Chronological(s))
         /\ DistinctRuns(s) => Apart(Factors(e, s))
<1> DEFINE found == Changes(s)
           times == [i \in DOMAIN found |-> found[i].time]
           changes == StableSort(found, times)
           deltas == [i \in DOMAIN changes |-> TimeDelta(e, changes[i])]
           far == CHOOSE d \in {0} \cup {TimeDelta(e, changes[i]) : i \in DOMAIN changes} :
                      \A i \in DOMAIN changes : TimeDelta(e, changes[i]) <= d
           scored == [i \in DOMAIN changes |->
                      [id |-> changes[i].id, type |-> changes[i].type,
                       time |-> changes[i].time,
                       score |-> Score(e, changes[i], far)]]
           scores == [i \in DOMAIN scored |-> 0 - scored[i].score]
<1>1. found \in Seq(ChangeSet) /\ AllSeen(found, Chronological(s))
      /\ (DistinctRuns(s) => Apart(found))
  BY ChangesAre, ChangesSeen, ChangesApart
<1>2. Factors(e, s) = StableSort(scored, scores)
  BY DEF Factors
<1> HIDE DEF found
<1>3. AllInt(times, Len(found))
  <2>1. DOMAIN found = 1..Len(found) /\ \A i \in 1..Len(found) : found[i] \in ChangeSet
    BY <1>1
  <2> QED
    BY <2>1 DEF AllInt, ChangeSet
<1> HIDE DEF times
<1>4. changes \in Seq(ChangeSet) /\ SameIds(changes, found)
  BY <1>1, <1>3, SortingPermutes, SortedIds
<1> HIDE DEF changes
<1> DEFINE n == Len(changes)
<1>5. n \in Nat /\ DOMAIN changes = 1..n /\ \A i \in 1..n : changes[i] \in ChangeSet
  BY <1>4
<1>6. far \in Nat /\ \A i \in 1..n : TimeDelta(e, changes[i]) <= far
  <2>1. \A i \in 1..n : deltas[i] = TimeDelta(e, changes[i]) /\ deltas[i] \in Nat
    BY <1>5, DeltaIsNat
  <2>2. far = CHOOSE d \in {0} \cup {deltas[i] : i \in 1..n} : \A i \in 1..n : deltas[i] <= d
    BY <1>5
  <2> HIDE DEF deltas, n, far
  <2> QED
    <3>1. /\ far \in Nat /\ \A i \in 1..n : deltas[i] <= far
      BY <1>5, <2>1, <2>2, FarIs
    <3> QED
      BY <2>1, <3>1
<1> HIDE DEF far, n
<1>7. \A i \in 1..n : Score(e, changes[i], far) \in Scores
  <2> TAKE i \in 1..n
  <2>1. changes[i] \in ChangeSet /\ far \in Nat /\ TimeDelta(e, changes[i]) <= far
    BY <1>5, <1>6
  <2> QED
    BY <2>1, ScoreBounds
<1>8. /\ scored \in Seq(FactorSet) /\ Len(scored) = n
      /\ \A i \in 1..n : scored[i].id = changes[i].id
  <2>1. \A i \in 1..n : /\ changes[i].id \in ChangeIds
                        /\ changes[i].type \in TypeNames
                        /\ changes[i].time \in Int
    BY <1>5 DEF ChangeSet
  <2>2. \A i \in 1..n : scored[i] \in FactorSet /\ scored[i].id = changes[i].id
    <3> TAKE i \in 1..n
    <3>1. scored[i] = [id |-> changes[i].id, type |-> changes[i].type,
                       time |-> changes[i].time, score |-> Score(e, changes[i], far)]
      BY <1>5
    <3> HIDE DEF scored
    <3> QED
      BY <1>7, <2>1, <3>1 DEF FactorSet
  <2>3. scored = [i \in 1..n |-> scored[i]]
    BY <1>5
  <2> HIDE DEF scored
  <2>4. scored \in [1..n -> FactorSet]
    BY <2>2, <2>3
  <2>5. scored \in Seq(FactorSet) /\ Len(scored) = n
    BY <1>5, <2>4
  <2> QED
    BY <2>2, <2>5
<1>9. SameIds(scored, changes)
  <2> DEFINE p == [i \in 1..n |-> i]
  <2>1. p \in [1..n -> 1..n] /\ \A k, l \in 1..n : p[k] = p[l] => k = l
    OBVIOUS
  <2>2. \A k \in 1..n : scored[k].id = changes[p[k]].id
    BY <1>8
  <2>3. Len(changes) = n /\ Len(scored) = n
    BY <1>8 DEF n
  <2> HIDE DEF p, scored
  <2> QED
    BY <2>1, <2>2, <2>3 DEF SameIds
<1> HIDE DEF scored
<1>10. AllInt(scores, Len(scored))
  <2>1. DOMAIN scored = 1..Len(scored) /\ \A i \in 1..Len(scored) : scored[i] \in FactorSet
    BY <1>8
  <2>2. \A i \in 1..Len(scored) : scored[i].score \in Int
    BY <2>1, ScoresAre DEF FactorSet
  <2>3. \A i \in 1..Len(scored) : scores[i] = 0 - scored[i].score
    BY <2>1
  <2> HIDE DEF scores
  <2> QED
    BY <2>2, <2>3 DEF AllInt
<1> HIDE DEF scores
<1>11. Factors(e, s) \in Seq(FactorSet) /\ SameIds(Factors(e, s), scored)
  BY <1>2, <1>8, <1>10, SortingPermutes, SortedIds
<1>12. SameIds(Factors(e, s), found)
  BY <1>4, <1>9, <1>11, SameIdsTrans
<1> QED
  BY <1>1, <1>11, <1>12, SameIdsPass

-----------------------------------------------------------------------------
(* Confidences and scenarios.                                              *)
LEMMA ScoresPositive ==
  ASSUME NEW fs \in Seq(FactorSet)
  PROVE  \A i \in 1..Len(fs) : fs[i].score \in Scores /\ fs[i].score \in Nat
<1> TAKE i \in 1..Len(fs)
<1>1. fs[i] \in FactorSet
  OBVIOUS
<1>2. fs[i].score \in Scores
  BY <1>1 DEF FactorSet
<1> QED
  BY <1>2, ScoresAre

LEMMA ConfidenceBounds ==
  ASSUME NEW fs \in Seq(FactorSet)
  PROVE  Confidence(fs) \in 0..Unit
<1>0. Unit \in Nat
  BY DEF Unit
<1>a. \A x \in Scores : x \in 0..Unit
  BY <1>0, ScoresAre
<1>1. Len(fs) \in Nat /\ DOMAIN fs = 1..Len(fs) /\ (fs # << >> => Len(fs) > 0)
  OBVIOUS
<1>2. \A i \in 1..Len(fs) : fs[i].score \in Scores /\ fs[i].score \in Nat
  BY ScoresPositive
<1>3. CASE fs = << >>
  BY <1>0, <1>3 DEF Confidence
<1>4. CASE Len(fs) = 1
  <2>1. fs[1].score \in Scores
    BY <1>2, <1>4
  <2>2. fs[1].score \in 0..Unit
    BY <1>a, <2>1
  <2>3. Confidence(fs) = fs[1].score
    BY <1>1, <1>4 DEF Confidence
  <2> QED
    BY <2>2, <2>3
<1>5. CASE fs # << >> /\ Len(fs) # 1
  <2> DEFINE s == [i \in DOMAIN fs |-> fs[i].score]
             total == SumOf(s)
             a == Unit * fs[1].score
  <2>1. \A i \in 1..Len(fs) : s[i] \in Nat
    BY <1>1, <1>2
  <2>2. s \in Seq(Nat) /\ Len(s) = Len(fs)
    BY <1>1, <2>1
  <2>3. s[1] = fs[1].score /\ 1 \in 1..Len(fs)
    BY <1>1, <1>5
  <2>4. Confidence(fs) = Rounded(a, total)
    BY <1>5 DEF Confidence
  <2> HIDE DEF s
  <2>5. total \in Nat /\ fs[1].score <= total
    BY <1>1, <1>5, <2>2, <2>3, SumBounds
  <2>6. fs[1].score \in Int /\ 1 <= fs[1].score
    BY <1>2, <2>3, ScoresAre
  <2> HIDE DEF total
  <2>7. AtMost(a, Unit, total)
    BY <2>5, <2>6 DEF AtMost, Unit
  <2> HIDE DEF a
  <2>8. Rounded(a, total) \in 0..Unit
    BY <1>0, <2>7, RoundedRatio
  <2> QED
    BY <2>4, <2>8
<1> QED
  BY <1>1, <1>3, <1>4, <1>5

(* Scenarios are not empty.                                                *)
Scenes == {s \in Seq(FactorSet) : s # << >>}

LEMMA ScenariosAre ==
  ASSUME NEW fs \in Seq(FactorSet)
  PROVE  LET best == SubSeq(fs, 1, Lesser(TopK, Len(fs))) IN
         /\ Scenarios(fs) \in Seq(Scenes)
         /\ Len(Scenarios(fs)) <= TopK + 1
         /\ \A i \in 1..Len(Scenarios(fs)) :
                \/ Scenarios(fs)[i] = best
                \/ \E k \in 1..Len(fs) : Scenarios(fs)[i] = <<fs[k]>>
         /\ Len(best) <= Len(fs) /\ \A k \in 1..Len(best) : best[k] = fs[k]
<1> DEFINE best == SubSeq(fs, 1, Lesser(TopK, Len(fs)))
           single == [i \in DOMAIN best |-> <<best[i]>>]
           n == Len(best)
<1>1. TopK \in Nat /\ Len(fs) \in Nat
  BY AnalysisConstants
<1>2. /\ best \in Seq(FactorSet) /\ n \in Nat /\ n <= TopK /\ n <= Len(fs)
      /\ \A k \in 1..n : best[k] = fs[k]
  BY <1>1 DEF Lesser
<1>3. Scenarios(fs) = IF n > 1 THEN Append(single, best) ELSE single
  BY DEF Scenarios
<1> HIDE DEF best, n
<1>4. DOMAIN best = 1..n
  BY <1>2 DEF n
<1>5. \A i \in 1..n : single[i] = <<fs[i]>> /\ single[i] \in Scenes
  <2> TAKE i \in 1..n
  <2>1. single[i] = <<fs[i]>> /\ fs[i] \in FactorSet
    BY <1>2, <1>4
  <2>2. <<fs[i]>> \in Seq(FactorSet) /\ <<fs[i]>> # << >>
    BY <2>1
  <2> QED
    BY <2>1, <2>2 DEF Scenes
<1>6. single \in Seq(Scenes) /\ Len(single) = n
  BY <1>2, <1>4, <1>5
<1> HIDE DEF single
<1>7. CASE n > 1
  <2>1. best \in Scenes
    BY <1>2, <1>7 DEF Scenes, n
  <2>2. /\ Scenarios(fs) \in Seq(Scenes) /\ Len(Scenarios(fs)) = n + 1
        /\ Scenarios(fs)[n + 1] = best
        /\ \A i \in 1..n : Scenarios(fs)[i] = single[i]
    BY <1>2, <1>3, <1>6, <1>7, <2>1
  <2>3. \A i \in 1..Len(Scenarios(fs)) :
                \/ Scenarios(fs)[i] = best
                \/ \E k \in 1..Len(fs) : Scenarios(fs)[i] = <<fs[k]>>
    <3> TAKE i \in 1..Len(Scenarios(fs))
    <3>1. i = n + 1 \/ i \in 1..n
      BY <1>2, <2>2
    <3>2. i \in 1..n => i \in 1..Len(fs)
      BY <1>1, <1>2
    <3> QED
      BY <1>5, <2>2, <3>1, <3>2
  <2> QED
    BY <1>1, <1>2, <2>2, <2>3 DEF best, n
<1>8. CASE ~(n > 1)
  <2>1. Scenarios(fs) = single /\ Len(single) <= TopK + 1
    BY <1>1, <1>2, <1>3, <1>6, <1>8
  <2>2. \A i \in 1..n : \E k \in 1..Len(fs) : single[i] = <<fs[k]>>
    <3> TAKE i \in 1..n
    <3>1. i \in 1..Len(fs)
      BY <1>1, <1>2
    <3> QED
      BY <1>5, <3>1
  <2> QED
    BY <1>2, <1>6, <2>1, <2>2 DEF best, n
<1> QED
  BY <1>7, <1>8

LEMMA ScenariosSeen ==
  ASSUME NEW fs \in Seq(FactorSet), NEW c, NEW i \in 1..Len(Scenarios(fs))
  PROVE  /\ AllSeen(fs, c) => AllSeen(Scenarios(fs)[i], c)
         /\ Apart(fs) => Apart(Scenarios(fs)[i])
<1> DEFINE best == SubSeq(fs, 1, Lesser(TopK, Len(fs)))
           s == Scenarios(fs)[i]
<1>1. /\ s = best \/ \E k \in 1..Len(fs) : s = <<fs[k]>>
      /\ Len(best) <= Len(fs) /\ \A k \in 1..Len(best) : best[k] = fs[k]
  BY ScenariosAre
<1>2. Len(fs) \in Nat /\ TopK \in Nat
  BY AnalysisConstants
<1>3. Len(best) \in Nat
  BY <1>2 DEF Lesser
<1> HIDE DEF best, s
<1>4. CASE s = best
  <2>1. \A k \in 1..Len(best) : k \in 1..Len(fs) /\ s[k] = fs[k]
    BY <1>1, <1>2, <1>3, <1>4
  <2> QED
    BY <1>4, <2>1 DEF AllSeen, Apart, s
<1>5. ASSUME NEW k \in 1..Len(fs), s = <<fs[k]>>
      PROVE  (AllSeen(fs, c) => AllSeen(s, c)) /\ Apart(s)
  <2>1. Len(s) = 1 /\ s[1] = fs[k]
    BY <1>5
  <2>2. \A j \in 1..Len(s) : j = 1
    BY <2>1
  <2> QED
    BY <2>1, <2>2 DEF AllSeen, Apart
<1> QED
  BY <1>1, <1>4, <1>5 DEF s

-----------------------------------------------------------------------------
(* Interventions: the store keeps its records' times, runs and values.     *)
LEMMA RevertedIs ==
  ASSUME NEW r \in Records, NEW old \in OldValues
  PROVE  /\ Reverted(r, old) \in Records
         /\ Reverted(r, old).time = r.time /\ Reverted(r, old).run = r.run
<1> DEFINE t == Reverted(r, old)
<1>1. PICK D \in SUBSET Fields : old \in [D -> FieldValues]
  BY DEF OldValues
<1>2. DOMAIN old = D /\ \A f \in D : old[f] \in FieldValues
  BY <1>1
<1>3. DOMAIN r = Names /\ \A f \in Fields : r[f] \in FieldValues
  BY DEF Records
<1>4. t = [f \in Names |-> t[f]] /\ DOMAIN t = Names
  BY <1>3 DEF Reverted
<1>5. EMPTY \in FieldValues
  BY DEF FieldValues
<1>6. \A f \in Names : t[f] = r[f] \/ (f \in D /\ t[f] \in FieldValues)
  BY <1>2, <1>3, <1>5 DEF Reverted
<1>7. "time" \notin Fields /\ "run" \notin Fields /\ "value" \notin Fields
      /\ "time" \in Names /\ "run" \in Names /\ "value" \in Names /\ Fields \subseteq Names
  BY DEF Fields, Names
<1> HIDE DEF t
<1>8. t.time = r.time /\ t.run = r.run /\ t.value = r.value
  BY <1>1, <1>6, <1>7
<1>9. \A f \in Fields : t[f] \in FieldValues
  BY <1>3, <1>6, <1>7
<1>10. r.run \in Nat /\ r.time \in Int /\ r.value \in Nat
  BY DEF Records
<1>11. \A f \in Names : t[f] \in Int \cup FieldValues
  BY <1>8, <1>9, <1>10 DEF Names
<1>12. t \in [Names -> Int \cup FieldValues]
  BY <1>4, <1>11
<1>a. t.run \in Nat /\ t.time \in Int /\ t.value \in Nat
  BY ONLY <1>8, <1>10
<1>13. t \in Records
  BY ONLY <1>a, <1>9, <1>12, SMTT(30) DEF Records
<1> QED
  BY <1>8, <1>13 DEF t

(* The same evaluations, whatever their deployments.                       *)
Like(t, s) ==
    /\ Len(t) = Len(s)
    /\ \A i \in 1..Len(s) : t[i].time = s[i].time /\ t[i].run = s[i].run

FoundIn(s, id) == {i \in DOMAIN Changes(s) : Changes(s)[i].id = id}

TheChange(s, id) ==
    Changes(s)[CHOOSE i \in FoundIn(s, id) : \A j \in FoundIn(s, id) : i <= j]

OfRun(c, run) == {k \in DOMAIN c : c[k].run = run}

FirstOfRun(c, run) == CHOOSE k \in OfRun(c, run) : \A j \in OfRun(c, run) : k <= j

LEMMA IntervenedIs ==
  ASSUME NEW s \in Seq(Records), NEW id
  PROVE  LET c == Chronological(s)
             x == TheChange(s, id)
             first == FirstOfRun(c, x.run)
         IN  /\ FoundIn(s, id) = {} => Intervened(s, id) = s
             /\ FoundIn(s, id) # {} =>
                    Intervened(s, id) = [c EXCEPT ![first] = Reverted(c[first], x.old)]
  BY DEF Intervened, FoundIn, TheChange, OfRun, FirstOfRun

(* The change that is taken back was seen at a pair of the store.          *)
LEMMA TheChangeIs ==
  ASSUME NEW s \in Seq(Records), NEW id, FoundIn(s, id) # {}
  PROVE  \E k \in Gaps(Chronological(s)) :
             LET c == Chronological(s) IN
             /\ TheChange(s, id) = Change(c[k], c[k + 1])
             /\ Change(c[k], c[k + 1]).id = id
<1> DEFINE c == Chronological(s)
           x == Changes(s)
           F == FoundIn(s, id)
<1>1. /\ x \in Seq(ChangeSet)
      /\ \A i \in 1..Len(x) : /\ ChangeAt(s, i) \in Gaps(c)
                              /\ x[i] = Change(c[ChangeAt(s, i)], c[ChangeAt(s, i) + 1])
  BY ChangesAre
<1>2. F = {i \in DOMAIN x : x[i].id = id} /\ F # {}
  BY DEF FoundIn
<1>3. TheChange(s, id) = x[CHOOSE i \in F : \A j \in F : i <= j]
  BY DEF TheChange
<1> HIDE DEF x, c, F
<1>4. DOMAIN x = 1..Len(x)
  BY <1>1
<1>5. F \subseteq Nat
  BY <1>2, <1>4
<1>6. \E i \in F : \A j \in F : i <= j
  BY <1>2, <1>5, Least
<1>7. PICK i \in F : TheChange(s, id) = x[i]
  BY <1>3, <1>6
<1>8. i \in 1..Len(x) /\ x[i].id = id
  BY <1>2, <1>4
<1>9. \E k \in Gaps(c) : TheChange(s, id) = Change(c[k], c[k + 1]) /\ Change(c[k], c[k + 1]).id = id
  BY <1>1, <1>7, <1>8
<1> QED
  BY <1>9 DEF c

LEMMA ReplacedIs ==
  ASSUME NEW c \in Seq(Records), NEW first, NEW old \in OldValues
  PROVE  LET t == [c EXCEPT ![first] = Reverted(c[first], old)] IN
         /\ t \in Seq(Records) /\ Like(t, c)
         /\ \A i \in 1..Len(c) : i # first => t[i] = c[i]
         /\ first \in 1..Len(c) => t[first] = Reverted(c[first], old)
<1> DEFINE r == Reverted(c[first], old)
           t == [c EXCEPT ![first] = r]
<1>1. Len(c) \in Nat /\ DOMAIN c = 1..Len(c) /\ \A i \in 1..Len(c) : c[i] \in Records
  OBVIOUS
<1>2. first \in 1..Len(c) => r \in Records /\ r.time = c[first].time /\ r.run = c[first].run
  BY <1>1, RevertedIs
<1> HIDE DEF r
<1>3. DOMAIN t = 1..Len(c) /\ \A i \in 1..Len(c) : t[i] = IF i = first THEN r ELSE c[i]
  BY <1>1
<1>4. t = [i \in 1..Len(c) |-> t[i]]
  BY <1>1
<1> HIDE DEF t
<1>5. \A i \in 1..Len(c) : t[i] \in Records
  BY <1>1, <1>2, <1>3
<1>6. t \in Seq(Records) /\ Len(t) = Len(c)
  <2>1. t \in [1..Len(c) -> Records]
    BY <1>4, <1>5
  <2> QED
    BY <2>1, <1>1
<1>7. \A i \in 1..Len(c) : t[i].time = c[i].time /\ t[i].run = c[i].run
  BY <1>2, <1>3
<1>8. Like(t, c)
  BY <1>6, <1>7 DEF Like
<1> QED
  BY <1>3, <1>6, <1>8 DEF t, r

LEMMA LikeInTime ==
  ASSUME NEW c \in Seq(Records), NEW t \in Seq(Records), InTime(c), Like(t, c)
  PROVE  Chronological(t) = t
<1>1. InTime(t)
  BY DEF InTime, Like
<1> QED
  BY <1>1, AlreadyInOrder

LEMMA InterventionKeeps ==
  ASSUME NEW s \in Seq(Records), NEW id
  PROVE  LET t == Intervened(s, id) IN
         /\ t \in Seq(Records) /\ Len(t) = Len(s)
         /\ Like(Chronological(t), Chronological(s))
<1> DEFINE c == Chronological(s)
           t == Intervened(s, id)
           x == TheChange(s, id)
           first == FirstOfRun(c, x.run)
<1>1. c \in Seq(Records) /\ Len(c) = Len(s) /\ InTime(c)
  BY InOrderOfTime
<1>2. CASE FoundIn(s, id) = {}
  <2>1. t = s
    BY <1>2, IntervenedIs
  <2>2. Like(c, c)
    BY DEF Like
  <2> QED
    BY <2>1, <2>2
<1>3. CASE FoundIn(s, id) # {}
  <2>1. t = [c EXCEPT ![first] = Reverted(c[first], x.old)]
    BY <1>3, IntervenedIs
  <2>2. x.old \in OldValues
    <3>1. PICK k \in Gaps(c) : x = Change(c[k], c[k + 1])
      BY <1>3, TheChangeIs
    <3>2. x \in ChangeSet
      BY <3>1, <1>1, GapIs
    <3> QED
      BY <3>2 DEF ChangeSet
  <2> HIDE DEF c, x, first
  <2> DEFINE old == x.old
  <2> HIDE DEF old
  <2>3. t \in Seq(Records) /\ Like(t, c)
    <3>1. old \in OldValues /\ t = [c EXCEPT ![first] = Reverted(c[first], old)]
      BY <2>1, <2>2 DEF old
    <3> HIDE DEF t
    <3> QED
      BY <1>1, <3>1, ReplacedIs
  <2> HIDE DEF t
  <2>4. Chronological(t) = t
    BY <1>1, <2>3, LikeInTime
  <2>5. Len(t) = Len(s)
    BY <1>1, <2>3 DEF Like
  <2> QED
    BY <2>3, <2>4, <2>5 DEF t, c
<1> QED
  BY <1>2, <1>3

-----------------------------------------------------------------------------
(* apply_scenario, one intervention after another: f holds the stores.     *)
IsStores(f, base, ids) ==
    f = [k \in 0..Len(ids) |-> IF k = 0 THEN base ELSE Intervened(f[k - 1], ids[k])]
Stores(base, ids) == CHOOSE f : IsStores(f, base, ids)

StoresTo(f, base, ids, n) ==
    /\ f = [k \in 0..n |-> f[k]]
    /\ \A k \in 0..n : f[k] = IF k = 0 THEN base ELSE Intervened(f[k - 1], ids[k])

LEMMA StoresStep ==
  ASSUME NEW base, NEW ids, NEW n \in Nat, NEW f, StoresTo(f, base, ids, n)
  PROVE  \E g : StoresTo(g, base, ids, n + 1)
<1> DEFINE x == Intervened(f[n], ids[n + 1])
           m == n + 1
           g == [k \in 0..m |-> IF k = m THEN x ELSE f[k]]
<1>1. g[m] = x /\ \A k \in 0..n : g[k] = f[k]
  OBVIOUS
<1>2. g = [k \in 0..m |-> g[k]]
  OBVIOUS
<1> HIDE DEF g
<1>3. \A k \in 0..m : g[k] = IF k = 0 THEN base ELSE Intervened(g[k - 1], ids[k])
  <2> TAKE k \in 0..m
  <2>1. CASE k = m
    <3>1. k # 0 /\ k - 1 = n /\ n \in 0..n
      BY <2>1
    <3>2. g[k - 1] = f[n] /\ ids[k] = ids[n + 1]
      BY <2>1, <3>1, <1>1
    <3> QED
      BY <2>1, <3>1, <3>2, <1>1
  <2>2. CASE k # m
    <3>1. k \in 0..n /\ (k # 0 => k - 1 \in 0..n)
      BY <2>2
    <3>2. f[k] = IF k = 0 THEN base ELSE Intervened(f[k - 1], ids[k])
      BY <3>1 DEF StoresTo
    <3>3. g[k] = f[k] /\ (k # 0 => g[k - 1] = f[k - 1])
      BY <3>1, <1>1
    <3> QED
      BY <3>2, <3>3
  <2> QED
    BY <2>1, <2>2
<1>4. StoresTo(g, base, ids, m)
  BY <1>2, <1>3 DEF StoresTo
<1> QED
  BY <1>4

LEMMA StoresExist ==
  ASSUME NEW base, NEW ids, Len(ids) \in Nat
  PROVE  \E f : IsStores(f, base, ids)
<1> DEFINE G == {n \in Nat : \E f : StoresTo(f, base, ids, n)}
<1>1. 0 \in G
  <2> DEFINE f == [k \in 0..0 |-> base]
  <2>1. f = [k \in 0..0 |-> f[k]]
    OBVIOUS
  <2>2. \A k \in 0..0 : k = 0 /\ f[k] = base
    OBVIOUS
  <2> HIDE DEF f
  <2>3. StoresTo(f, base, ids, 0)
    BY <2>1, <2>2 DEF StoresTo
  <2> QED
    BY <2>3
<1>2. \A n \in Nat : n \in G => n + 1 \in G
  BY StoresStep
<1>3. Nat \subseteq G
  <2> HIDE DEF G
  <2> QED
    BY <1>1, <1>2, SetInduction
<1> DEFINE n == Len(ids)
<1>4. PICK f : StoresTo(f, base, ids, n)
  BY <1>3
<1>5. f = [k \in 0..n |-> IF k = 0 THEN base ELSE Intervened(f[k - 1], ids[k])]
  <2> HIDE DEF n
  <2> QED
    BY <1>4 DEF StoresTo
<1> QED
  BY <1>5 DEF IsStores

LEMMA StoresUnfold ==
  ASSUME NEW base, NEW ids, Len(ids) \in Nat
  PROVE  StoresTo(Stores(base, ids), base, ids, Len(ids))
<1> DEFINE f == Stores(base, ids)
           n == Len(ids)
<1>1. IsStores(f, base, ids)
  BY StoresExist DEF Stores
<1> HIDE DEF f
<1>2. f = [k \in 0..n |-> IF k = 0 THEN base ELSE Intervened(f[k - 1], ids[k])]
  BY <1>1 DEF IsStores
<1> HIDE DEF n
<1>3. StoresTo(f, base, ids, n)
  BY <1>2 DEF StoresTo
<1> QED
  BY <1>3 DEF f, n

LEMMA AppliedIs ==
  ASSUME NEW base, NEW ids
  PROVE  /\ Applied(base, ids).store = Stores(base, ids)[Len(ids)]
         /\ Applied(base, ids).found =
                [k \in DOMAIN ids |-> IsChange(Stores(base, ids)[k - 1], ids[k])]
  BY DEF Applied, Stores, IsStores

LEMMA StoreAt ==
  ASSUME NEW f, NEW base, NEW ids, NEW n \in Nat, StoresTo(f, base, ids, n)
  PROVE  /\ f[0] = base
         /\ \A k \in Nat : k + 1 <= n => f[k + 1] = Intervened(f[k], ids[k + 1])
<1>1. \A k \in 0..n : f[k] = IF k = 0 THEN base ELSE Intervened(f[k - 1], ids[k])
  BY DEF StoresTo
<1>2. f[0] = base
  BY <1>1
<1>3. ASSUME NEW k \in Nat, k + 1 <= n PROVE f[k + 1] = Intervened(f[k], ids[k + 1])
  <2>1. k + 1 \in 0..n /\ k + 1 # 0 /\ (k + 1) - 1 = k
    BY <1>3
  <2> QED
    BY <1>1, <2>1
<1> QED
  BY <1>2, <1>3

LEMMA LikeTrans ==
  ASSUME NEW t, NEW s, NEW r, Like(t, s), Like(s, r)
  PROVE  Like(t, r)
  BY DEF Like

LEMMA StoresAre ==
  ASSUME NEW base \in Seq(Records), NEW ids, Len(ids) \in Nat, NEW k \in 0..Len(ids)
  PROVE  /\ Stores(base, ids)[k] \in Seq(Records)
         /\ Len(Stores(base, ids)[k]) = Len(base)
         /\ Like(Chronological(Stores(base, ids)[k]), Chronological(base))
<1> DEFINE f == Stores(base, ids)
           n == Len(ids)
           G == {m \in Nat : m <= n => /\ f[m] \in Seq(Records)
                                       /\ Len(f[m]) = Len(base)
                                       /\ Like(Chronological(f[m]), Chronological(base))}
<1>1. StoresTo(f, base, ids, n) /\ n \in Nat
  BY StoresUnfold
<1>2. n \in Nat
  OBVIOUS
<1> HIDE DEF f, n
<1>3. 0 \in G
  BY <1>1, StoreAt DEF Like
<1>4. ASSUME NEW m \in Nat, m \in G PROVE m + 1 \in G
  <2> SUFFICES ASSUME m + 1 <= n
               PROVE  /\ f[m + 1] \in Seq(Records)
                      /\ Len(f[m + 1]) = Len(base)
                      /\ Like(Chronological(f[m + 1]), Chronological(base))
    OBVIOUS
  <2>1. m <= n
    BY <1>2
  <2>2. f[m + 1] = Intervened(f[m], ids[m + 1])
    BY <1>1, StoreAt
  <2>3. f[m] \in Seq(Records) /\ Len(f[m]) = Len(base) /\ Like(Chronological(f[m]), Chronological(base))
    BY <1>4, <2>1
  <2>4. /\ f[m + 1] \in Seq(Records) /\ Len(f[m + 1]) = Len(f[m])
        /\ Like(Chronological(f[m + 1]), Chronological(f[m]))
    BY <2>2, <2>3, InterventionKeeps
  <2> QED
    BY <2>3, <2>4, LikeTrans
<1>5. Nat \subseteq G
  <2> HIDE DEF G
  <2> QED
    BY <1>3, <1>4, SetInduction
<1>6. k \in Nat /\ k <= n
  BY <1>2 DEF n
<1>7. k \in G
  BY <1>5, <1>6
<1> QED
  BY <1>6, <1>7 DEF f

-----------------------------------------------------------------------------
(* Where no run was evaluated twice a change_id names one place, and an    *)
(* intervention touches that place only.                                   *)
LEMMA SeenAtPlace ==
  ASSUME NEW c \in Seq(Records), DistinctRuns(c), NEW id, NEW p \in 1..Len(c), c[p].run = id[1],
         NEW k \in Gaps(c), Change(c[k], c[k + 1]).id = id
  PROVE  k + 1 = p
<1>1. id = <<c[k + 1].run, c[k + 1].time, ChangeType(c[k], c[k + 1])>> /\ k + 1 \in 1..Len(c)
  BY GapIs
<1>2. id[1] = c[k + 1].run
  BY <1>1
<1>3. k + 1 \in DOMAIN c /\ p \in DOMAIN c /\ c[k + 1].run = c[p].run
  BY <1>1, <1>2
<1> QED
  BY <1>3 DEF DistinctRuns

LEMMA PlaceIs ==
  ASSUME NEW c \in Seq(Records), NEW id, SeenIn(c, id)
  PROVE  Place(c, id) \in 1..Len(c) /\ c[Place(c, id)].run = id[1]
<1>1. PICK k \in Gaps(c) : Change(c[k], c[k + 1]).id = id
  BY DEF SeenIn
<1>2. id = <<c[k + 1].run, c[k + 1].time, ChangeType(c[k], c[k + 1])>> /\ k + 1 \in 1..Len(c)
  BY <1>1, GapIs
<1>3. id[1] = c[k + 1].run
  BY <1>2
<1>4. DOMAIN c = 1..Len(c)
  OBVIOUS
<1>5. \E i \in DOMAIN c : c[i].run = id[1]
  BY <1>2, <1>3, <1>4
<1> QED
  BY <1>4, <1>5 DEF Place

LEMMA FirstIsPlace ==
  ASSUME NEW c \in Seq(Records), DistinctRuns(c), NEW p \in 1..Len(c)
  PROVE  FirstOfRun(c, c[p].run) = p
<1> DEFINE R == OfRun(c, c[p].run)
<1>1. DOMAIN c = 1..Len(c) /\ p \in Nat
  OBVIOUS
<1>2. p \in R /\ \A k \in R : k = p
  BY <1>1 DEF OfRun, DistinctRuns
<1>3. FirstOfRun(c, c[p].run) = CHOOSE k \in R : \A j \in R : k <= j
  BY DEF FirstOfRun
<1> HIDE DEF R
<1>4. \E k \in R : \A j \in R : k <= j
  BY <1>1, <1>2
<1> QED
  BY <1>2, <1>3, <1>4

LEMMA FoundAt ==
  ASSUME NEW s \in Seq(Records), DistinctRuns(Chronological(s)), NEW id,
         NEW p \in 1..Len(Chronological(s)), Chronological(s)[p].run = id[1],
         FoundIn(s, id) # {}
  PROVE  LET c == Chronological(s)
             t == Chronological(Intervened(s, id))
         IN  /\ p - 1 \in 1..Len(c)
             /\ t[p] = Reverted(c[p], Details(c[p - 1], c[p]))
             /\ \A i \in 1..Len(c) : i # p => t[i] = c[i]
<1> DEFINE c == Chronological(s)
           x == TheChange(s, id)
           t == Intervened(s, id)
<1>1. c \in Seq(Records) /\ InTime(c)
  BY InOrderOfTime
<1>2. PICK k \in Gaps(c) : x = Change(c[k], c[k + 1]) /\ Change(c[k], c[k + 1]).id = id
  BY TheChangeIs
<1>3. t = [c EXCEPT ![FirstOfRun(c, x.run)] = Reverted(c[FirstOfRun(c, x.run)], x.old)]
  BY IntervenedIs
<1>4. DistinctRuns(c) /\ p \in 1..Len(c) /\ c[p].run = id[1]
  OBVIOUS
<1> HIDE DEF c, x, t
<1>5. k + 1 = p
  BY <1>1, <1>2, <1>4, SeenAtPlace
<1>6. k \in 1..Len(c) /\ c[k] \in Records /\ c[k + 1] \in Records
  BY <1>1, <1>2, GapIs
<1>7. p - 1 = k
  BY <1>5, <1>6
<1>8. /\ x \in ChangeSet /\ x.run = c[p].run
      /\ x.old = Details(c[p - 1], c[p])
  BY <1>2, <1>5, <1>6, <1>7, ChangeIs
<1>9. FirstOfRun(c, x.run) = p
  BY <1>1, <1>4, <1>8, FirstIsPlace
<1> DEFINE old == x.old
<1>10. old \in OldValues
  BY <1>8 DEF ChangeSet
<1>11. t = [c EXCEPT ![p] = Reverted(c[p], old)]
  BY <1>3, <1>9
<1> HIDE DEF old
<1>12. t \in Seq(Records) /\ Like(t, c)
  BY <1>1, <1>10, <1>11, ReplacedIs
<1>13. \A i \in 1..Len(c) : i # p => t[i] = c[i]
  BY <1>1, <1>10, <1>11, ReplacedIs
<1>14. t[p] = Reverted(c[p], old)
  BY <1>1, <1>4, <1>10, <1>11, ReplacedIs
<1>15. Chronological(t) = t
  BY <1>1, <1>12, LikeInTime
<1>16. p - 1 \in 1..Len(c) /\ t[p] = Reverted(c[p], Details(c[p - 1], c[p]))
  BY <1>6, <1>7, <1>8, <1>14 DEF old
<1> QED
  BY <1>13, <1>15, <1>16 DEF c, t

LEMMA TouchesOnePlace ==
  ASSUME NEW s \in Seq(Records), DistinctRuns(Chronological(s)), NEW id,
         NEW p \in 1..Len(Chronological(s)), Chronological(s)[p].run = id[1],
         NEW i \in 1..Len(Chronological(s)), i # p
  PROVE  Chronological(Intervened(s, id))[i] = Chronological(s)[i]
<1>1. CASE FoundIn(s, id) = {}
  <2>1. Intervened(s, id) = s
    BY <1>1, IntervenedIs
  <2> QED
    BY <2>1
<1>2. CASE FoundIn(s, id) # {}
  BY <1>2, FoundAt
<1> QED
  BY <1>1, <1>2

LEMMA FoundIfSeen ==
  ASSUME NEW s \in Seq(Records), NEW id, SeenIn(Chronological(s), id)
  PROVE  FoundIn(s, id) # {}
<1>1. IsChange(s, id)
  BY SeenIsChange
<1> QED
  BY <1>1 DEF IsChange, FoundIn

(* Before any intervention of a scenario has reverted the place i, it is   *)
(* as in the history.                                                      *)
Spared(c, ids, k, i) == \A j \in 1..k : Place(c, ids[j]) # i

LEMMA LikeRuns ==
  ASSUME NEW c \in Seq(Records), NEW t \in Seq(Records), Like(t, c), DistinctRuns(c)
  PROVE  DistinctRuns(t)
<1>1. DOMAIN t = 1..Len(c) /\ DOMAIN c = 1..Len(c)
  BY DEF Like
<1>2. \A i \in 1..Len(c) : t[i].run = c[i].run
  BY DEF Like
<1> QED
  BY <1>1, <1>2 DEF DistinctRuns

LEMMA SparedStays ==
  ASSUME NEW base \in Seq(Records), DistinctRuns(base), NEW ids, Len(ids) \in Nat,
         \A k \in 1..Len(ids) : SeenIn(Chronological(base), ids[k]),
         NEW m \in 0..Len(ids), NEW i \in 1..Len(base),
         Spared(Chronological(base), ids, m, i)
  PROVE  Chronological(Stores(base, ids)[m])[i] = Chronological(base)[i]
<1> DEFINE c == Chronological(base)
           f == Stores(base, ids)
           n == Len(ids)
           G == {k \in Nat : k <= n /\ Spared(c, ids, k, i) => Chronological(f[k])[i] = c[i]}
<1>1. c \in Seq(Records) /\ Len(c) = Len(base) /\ DistinctRuns(c)
  BY InOrderOfTime, ChronologicalRuns
<1>2. StoresTo(f, base, ids, n) /\ n \in Nat
  BY StoresUnfold
<1>3. \A k \in 0..n : /\ f[k] \in Seq(Records)
                      /\ Like(Chronological(f[k]), c)
  BY StoresAre
<1>4. \A k \in 1..n : SeenIn(c, ids[k])
  OBVIOUS
<1>5. f[0] = base
  BY <1>2, StoreAt
<1> HIDE DEF f, n
<1>6. 0 \in G
  BY <1>5
<1> HIDE DEF c
<1>7. ASSUME NEW k \in Nat, k \in G PROVE k + 1 \in G
  <2> SUFFICES ASSUME k + 1 <= n, Spared(c, ids, k + 1, i)
               PROVE  Chronological(f[k + 1])[i] = c[i]
    OBVIOUS
  <2>1. f[k + 1] = Intervened(f[k], ids[k + 1])
    BY <1>2, StoreAt
  <2>2. k \in 0..n /\ k <= n /\ k + 1 \in 1..n /\ k + 1 \in 1..(k + 1) /\ 1..k \subseteq 1..(k + 1)
    BY <1>2
  <2>3. Spared(c, ids, k, i) /\ Place(c, ids[k + 1]) # i
    BY <2>2 DEF Spared
  <2>4. Chronological(f[k])[i] = c[i]
    BY <1>7, <2>2, <2>3
  <2> DEFINE s == f[k]
             d == Chronological(s)
             id == ids[k + 1]
             p == Place(c, id)
  <2>5. s \in Seq(Records) /\ Like(d, c)
    BY <1>3, <2>2
  <2>6. d \in Seq(Records)
    BY <2>5, InOrderOfTime
  <2>7. p \in 1..Len(c) /\ c[p].run = id[1]
    BY <1>1, <1>4, <2>2, PlaceIs
  <2>8. i # p /\ f[k + 1] = Intervened(s, id)
    BY <2>1, <2>3
  <2> HIDE DEF s, id, p
  <2>9. DistinctRuns(d)
    BY <1>1, <2>5, <2>6, LikeRuns
  <2>10. p \in 1..Len(d) /\ d[p].run = id[1] /\ i \in 1..Len(d)
    BY <1>1, <2>5, <2>7 DEF Like
  <2>11. Chronological(Intervened(s, id))[i] = d[i]
    BY <2>5, <2>8, <2>9, <2>10, TouchesOnePlace
  <2> QED
    BY <2>4, <2>8, <2>11 DEF s
<1>8. Nat \subseteq G
  <2> HIDE DEF G
  <2> QED
    BY <1>6, <1>7, SetInduction
<1>9. m \in G /\ m <= n /\ Spared(c, ids, m, i)
  BY <1>2, <1>8 DEF n, c
<1> QED
  BY <1>9 DEF f, c

(* An intervention finds its change unless the place before was reverted.  *)
NameChanges(ids, c) ==
    /\ \A k \in 1..Len(ids) : SeenIn(c, ids[k])
    /\ \A k, l \in 1..Len(ids) : ids[k][1] = ids[l][1] => k = l

LEMMA FoundOrBehind ==
  ASSUME NEW base \in Seq(Records), DistinctRuns(base), NEW ids, Len(ids) \in Nat,
         NameChanges(ids, Chronological(base)),
         NEW k \in 1..Len(ids)
  PROVE  LET c == Chronological(base) IN
         \/ IsChange(Stores(base, ids)[k - 1], ids[k])
         \/ \E j \in 1..(k - 1) : Place(c, ids[j]) = Place(c, ids[k]) - 1
<1> DEFINE c == Chronological(base)
           m == k - 1
           s == Stores(base, ids)[m]
           d == Chronological(s)
           id == ids[k]
           p == Place(c, id)
<1>1. c \in Seq(Records) /\ Len(c) = Len(base) /\ DistinctRuns(c)
  BY InOrderOfTime, ChronologicalRuns
<1>2. m \in 0..Len(ids) /\ \A j \in 1..m : j \in 1..Len(ids) /\ j # k
  OBVIOUS
<1>3. \A j \in 1..Len(ids) : /\ SeenIn(c, ids[j])
                             /\ Place(c, ids[j]) \in 1..Len(c)
                             /\ c[Place(c, ids[j])].run = ids[j][1]
  BY <1>1, PlaceIs DEF NameChanges
<1>4. SUFFICES ASSUME ~ \E j \in 1..m : Place(c, ids[j]) = p - 1
               PROVE  IsChange(s, id)
  OBVIOUS
<1>5. s \in Seq(Records) /\ Like(d, c)
  BY <1>2, StoresAre
<1>6. d \in Seq(Records)
  BY <1>5, InOrderOfTime
<1>7. PICK g \in Gaps(c) : Change(c[g], c[g + 1]).id = id
  BY <1>3 DEF SeenIn
<1>8. p \in 1..Len(c) /\ c[p].run = id[1]
  BY <1>3
<1>9. g + 1 = p /\ g \in 1..Len(c) /\ g + 1 \in 1..Len(c) /\ g = p - 1
  <2> HIDE DEF c, p, id
  <2>1. g + 1 = p
    BY <1>1, <1>7, <1>8, SeenAtPlace
  <2>2. g \in 1..Len(c) /\ g + 1 \in 1..Len(c)
    BY <1>1, <1>7, GapIs
  <2> QED
    BY <2>1, <2>2
<1>10. Spared(c, ids, m, p)
  <2> SUFFICES ASSUME NEW j \in 1..m, Place(c, ids[j]) = p PROVE FALSE
    BY DEF Spared
  <2>1. j \in 1..Len(ids) /\ j # k
    BY <1>2
  <2>2. ids[j][1] = ids[k][1]
    BY <1>3, <1>8, <2>1
  <2> QED
    BY <2>1, <2>2 DEF NameChanges
<1>11. Spared(c, ids, m, g)
  BY <1>4, <1>9 DEF Spared
<1>12. d[p] = c[p]
  <2>1. p \in 1..Len(base)
    BY <1>1, <1>8
  <2>2. \A j \in 1..Len(ids) : SeenIn(Chronological(base), ids[j])
    BY DEF NameChanges
  <2> HIDE DEF p
  <2> QED
    BY <2>1, <2>2, <1>2, <1>10, SparedStays
<1>13. d[g] = c[g]
  <2>1. g \in 1..Len(base)
    BY <1>1, <1>9
  <2>2. \A j \in 1..Len(ids) : SeenIn(Chronological(base), ids[j])
    BY DEF NameChanges
  <2> QED
    BY <2>1, <2>2, <1>2, <1>11, SparedStays
<1> HIDE DEF c, m, s, d, id, p
<1>14. Len(d) = Len(c)
  BY <1>5 DEF Like
<1>15. g \in 1..(Len(d) - 1)
  BY <1>7, <1>14 DEF Gaps
<1>16. g \in Gaps(d) /\ Change(d[g], d[g + 1]).id = id
  BY <1>7, <1>9, <1>12, <1>13, <1>15 DEF Gaps
<1>17. SeenIn(d, id)
  BY <1>16 DEF SeenIn
<1> QED
  BY <1>5, <1>17, SeenIsChange DEF d

-----------------------------------------------------------------------------
(* Where no two records have the same time, a whole window of records lies *)
(* before the start of an event.                                           *)
Early(s, t) ==
    \E o \in [1..Window -> 1..Len(s)] :
        /\ \A k, l \in 1..Window : o[k] = o[l] => k = l
        /\ \A k \in 1..Window : s[o[k]].time < t

LEMMA EarlyEvent ==
  ASSUME NEW s \in Seq(Records), DistinctTimes(s), NEW i \in DOMAIN DriftEvents(s)
  PROVE  Early(s, DriftEvents(s)[i].start)
<1> DEFINE e == DriftEvents(s)[i]
           c == Chronological(s)
           a == Arranged(1..Len(s), Times(s))
           o == [k \in 1..Window |-> a[k]]
<1>1. /\ c \in Seq(Records) /\ Len(c) = Len(s)
      /\ a \in [1..Len(s) -> 1..Len(s)]
      /\ \A k, l \in 1..Len(s) : a[k] = a[l] => k = l
      /\ \A k \in 1..Len(s) : c[k] = s[a[k]]
      /\ InTime(c)
  BY InOrderOfTime
<1>2. PICK j \in 1..Len(c) : j > Window /\ c[j].time = e.start
  BY EventIs
<1>3. Window \in Nat /\ Len(s) \in Nat
  BY ExtractionConstants
<1> HIDE DEF e, c, a
<1>4. \A k \in 1..Window : k \in 1..Len(s) /\ k < j
  BY <1>1, <1>2, <1>3
<1>5. ASSUME NEW k \in 1..Window PROVE c[k].time < e.start
  <2>1. k \in 1..Len(c) /\ k < j /\ k \in 1..Len(s) /\ j \in 1..Len(s)
    BY <1>1, <1>2, <1>4
  <2>2. c[k].time <= c[j].time
    BY <2>1, <1>1, <1>2 DEF InTime
  <2>3. c[k].time # c[j].time
    <3> SUFFICES ASSUME c[k].time = c[j].time PROVE FALSE
      OBVIOUS
    <3>1. a[k] \in DOMAIN s /\ a[j] \in DOMAIN s /\ s[a[k]].time = s[a[j]].time
      <4>1. c[k] = s[a[k]] /\ c[j] = s[a[j]]
        BY <2>1, <1>1
      <4>2. DOMAIN s = 1..Len(s)
        OBVIOUS
      <4> QED
        BY <2>1, <4>1, <4>2, <1>1
    <3>2. a[k] = a[j]
      BY <3>1 DEF DistinctTimes
    <3>3. k = j
      BY <3>2, <2>1, <1>1
    <3> QED
      BY <3>3, <2>1, <1>3
  <2>4. c[k] \in Records /\ c[j] \in Records
    BY <2>1, <1>1, <1>2
  <2>5. c[k].time \in Int /\ c[j].time \in Int
    BY <2>4 DEF Records
  <2> QED
    BY <2>2, <2>3, <2>5, <1>2
<1>6. \A k \in 1..Window : o[k] = a[k] /\ o[k] \in 1..Len(s) /\ s[o[k]] = c[k]
  BY <1>1, <1>4
<1>7. o \in [1..Window -> 1..Len(s)]
  BY <1>6
<1> HIDE DEF o
<1>8. \A k, l \in 1..Window : o[k] = o[l] => k = l
  BY <1>1, <1>4, <1>6
<1>9. \A k \in 1..Window : s[o[k]].time < e.start
  BY <1>5, <1>6
<1>10. Early(s, e.start)
  BY <1>7, <1>8, <1>9 DEF Early
<1> QED
  BY <1>10 DEF e

LEMMA EarlyStays ==
  ASSUME NEW s \in Seq(Records), NEW r \in Records, NEW t, Early(s, t)
  PROVE  Early(Append(s, r), t)
<1> DEFINE d == Append(s, r)
<1>1. PICK o \in [1..Window -> 1..Len(s)] :
        /\ \A k, l \in 1..Window : o[k] = o[l] => k = l
        /\ \A k \in 1..Window : s[o[k]].time < t
  BY DEF Early
<1>2. Len(d) = Len(s) + 1 /\ Len(s) \in Nat /\ \A i \in 1..Len(s) : d[i] = s[i]
  OBVIOUS
<1> HIDE DEF d
<1>3. o \in [1..Window -> 1..Len(d)]
  <2>1. \A i \in 1..Len(s) : i \in 1..Len(d)
    BY <1>2
  <2> QED
    BY <2>1
<1>4. \A k \in 1..Window : d[o[k]].time < t
  BY <1>1, <1>2
<1>5. Early(d, t)
  BY <1>1, <1>3, <1>4 DEF Early
<1> QED
  BY <1>5 DEF d

LEMMA EarlyCounts ==
  ASSUME NEW s \in Seq(Records), NEW t \in Seq(Records), NEW e,
         Like(Chronological(t), Chronological(s)), Early(s, e.start)
  PROVE  Len(PreWindow(e, t)) >= Window
<1> DEFINE c == Chronological(s)
           d == Chronological(t)
           n == Len(s)
           a == Arranged(1..Len(s), Times(s))
           P == {i \in DOMAIN d : d[i].time < e.start}
<1>1. /\ c \in Seq(Records) /\ Len(c) = n
      /\ \A i \in 1..n : \E k \in 1..n : a[k] = i
      /\ \A k \in 1..n : c[k] = s[a[k]]
  BY InOrderOfTime
<1>2. d \in Seq(Records)
  BY InOrderOfTime
<1>3. PICK o \in [1..Window -> 1..n] :
        /\ \A k, l \in 1..Window : o[k] = o[l] => k = l
        /\ \A k \in 1..Window : s[o[k]].time < e.start
  BY DEF Early
<1>4. PreWindow(e, t) = Kept(d, P)
  BY DEF PreWindow
<1>5. Like(d, c) /\ n \in Nat
  OBVIOUS
<1>6. Window \in Nat
  BY ExtractionConstants
<1> HIDE DEF c, d, n, a
<1>7. DOMAIN d = 1..n /\ Len(d) = n /\ \A i \in 1..n : d[i].time = c[i].time
  BY <1>1, <1>2, <1>5 DEF Like
<1>8. P \subseteq 1..n /\ n \in Int
  BY <1>5, <1>7
<1>9. P \subseteq Nat /\ IsFiniteSet(P)
  BY <1>8, PairIndices
<1>10. Into(d, P, Records)
  BY <1>2, <1>7, <1>8 DEF Into
<1> DEFINE w == [k \in 1..Window |-> CHOOSE q \in 1..n : a[q] = o[k]]
<1>11. ASSUME NEW k \in 1..Window PROVE w[k] \in P /\ a[w[k]] = o[k]
  <2>1. o[k] \in 1..n
    OBVIOUS
  <2>2. \E q \in 1..n : a[q] = o[k]
    BY <2>1, <1>1
  <2>3. w[k] = CHOOSE q \in 1..n : a[q] = o[k]
    OBVIOUS
  <2> HIDE DEF w
  <2>4. w[k] \in 1..n /\ a[w[k]] = o[k]
    BY <2>2, <2>3
  <2>5. d[w[k]].time < e.start
    <3> DEFINE q == w[k]
    <3>1. q \in 1..n /\ a[q] = o[k]
      BY <2>4
    <3> HIDE DEF q
    <3>2. d[q].time = c[q].time /\ c[q] = s[a[q]]
      BY <3>1, <1>1, <1>7
    <3>3. s[o[k]].time < e.start
      BY <1>3
    <3>4. d[q].time < e.start
      BY <3>1, <3>2, <3>3
    <3> QED
      BY <3>4 DEF q
  <2> QED
    BY <2>4, <2>5, <1>7
<1>12. w = [k \in 1..Window |-> w[k]]
  OBVIOUS
<1> HIDE DEF w, P
<1>13. w \in [1..Window -> P]
  BY <1>11, <1>12
<1>14. \A k, l \in 1..Window : w[k] = w[l] => k = l
  BY <1>3, <1>11
<1>15. w \in Injection(1..Window, P)
  BY <1>13, <1>14 DEF Injection, IsInjective
<1>16. Cardinality(1..Window) <= Cardinality(P)
  BY <1>9, <1>15, FS_Injection
<1>17. Cardinality(1..Window) = Window
  BY <1>6, FS_Interval
<1>18. Len(Kept(d, P)) = Cardinality(P)
  BY <1>9, <1>10, Keeping
<1>19. Cardinality(P) \in Nat
  BY <1>9, FS_CardinalityType
<1> QED
  BY <1>4, <1>6, <1>16, <1>17, <1>18, <1>19

-----------------------------------------------------------------------------
(* Estimates are integers.                                                 *)
LEMMA IntSum ==
  ASSUME NEW n \in Nat, NEW s, s = [i \in 1..n |-> s[i]], AllInt(s, n)
  PROVE  SumOf(s) \in Int
<1>1. s \in Seq(Int)
  BY DEF AllInt
<1> QED
  BY <1>1, SumType

LEMMA RecordFields ==
  ASSUME NEW s \in Seq(Records)
  PROVE  \A i \in 1..Len(s) : s[i] \in Records /\ s[i].time \in Int /\ s[i].value \in Nat
<1> TAKE i \in 1..Len(s)
<1>1. s[i] \in Records
  OBVIOUS
<1> QED
  BY <1>1 DEF Records

LEMMA Quotient ==
  ASSUME NEW a \in Int, NEW b \in Int, b > 0
  PROVE  a \div b \in Int
  OBVIOUS

LEMMA TrendType ==
  ASSUME NEW points \in Seq(Records), Len(points) > 0, NEW t \in Int
  PROVE  Trend(points, t) \in Int
<1> DEFINE n == Len(points)
           times == [i \in 1..n |-> points[i].time]
           values == [i \in 1..n |-> points[i].value]
           squares == [i \in 1..n |-> points[i].time * points[i].time]
           products == [i \in 1..n |-> points[i].time * points[i].value]
           st == SumOf(times)
           sv == SumOf(values)
           stt == SumOf(squares)
           stv == SumOf(products)
           den == n * stt - st * st
           num == n * stv - st * sv
           a == 1000 * (sv * den + num * (n * t - st))
           b == n * den
<1>1. n \in Nat /\ n > 0 /\ \A i \in 1..n : points[i].time \in Int /\ points[i].value \in Int
  BY RecordFields
<1>2. Trend(points, t) = IF den > 0 THEN a \div b ELSE (1000 * sv) \div n
  BY DEF Trend
<1> HIDE DEF n
<1>3. AllInt(times, n) /\ times = [i \in 1..n |-> times[i]]
  BY <1>1 DEF AllInt
<1>4. AllInt(values, n) /\ values = [i \in 1..n |-> values[i]]
  BY <1>1 DEF AllInt
<1>5. AllInt(squares, n) /\ squares = [i \in 1..n |-> squares[i]]
  BY <1>1 DEF AllInt
<1>6. AllInt(products, n) /\ products = [i \in 1..n |-> products[i]]
  BY <1>1 DEF AllInt
<1> HIDE DEF times, values, squares, products
<1>7. st \in Int /\ sv \in Int /\ stt \in Int /\ stv \in Int
  BY <1>1, <1>3, <1>4, <1>5, <1>6, IntSum
<1> HIDE DEF st, sv, stt, stv
<1>8. den \in Int /\ num \in Int
  BY <1>1, <1>7
<1> HIDE DEF den, num
<1>9. a \in Int /\ b \in Int /\ 1000 * sv \in Int
  BY <1>1, <1>7, <1>8
<1>10. den > 0 => b > 0
  BY <1>1, <1>8
<1> HIDE DEF a, b
<1>11. (den > 0 => a \div b \in Int) /\ (1000 * sv) \div n \in Int
  BY <1>1, <1>9, <1>10, Quotient
<1> QED
  BY <1>2, <1>11

LEMMA PreWindowType ==
  ASSUME NEW s \in Seq(Records), NEW e
  PROVE  PreWindow(e, s) \in Seq(Records)
<1> DEFINE d == Chronological(s)
           P == {i \in DOMAIN d : d[i].time < e.start}
<1>1. d \in Seq(Records)
  BY InOrderOfTime
<1>2. PreWindow(e, s) = Kept(d, P)
  BY DEF PreWindow
<1> HIDE DEF d
<1>3. DOMAIN d = 1..Len(d) /\ Len(d) \in Int
  BY <1>1
<1>4. P \subseteq 1..Len(d)
  BY <1>3
<1>5. P \subseteq Nat /\ IsFiniteSet(P)
  BY <1>3, <1>4, PairIndices
<1>6. Into(d, P, Records)
  BY <1>1, <1>3, <1>4 DEF Into
<1> HIDE DEF P
<1>7. Kept(d, P) \in Seq(Records)
  BY <1>5, <1>6, Keeping
<1> QED
  BY <1>2, <1>7

LEMMA EstimateType ==
  ASSUME NEW e \in Events, NEW store \in Seq(Records), Len(store) > 0
  PROVE  Estimate(e, store) \in Int
<1> DEFINE pre == PreWindow(e, store)
           n == Len(pre)
           values == [i \in DOMAIN store |-> store[i].value]
           m == Len(store)
<1>1. pre \in Seq(Records) /\ e.start \in Int
  BY PreWindowType DEF Events
<1>2. Estimate(e, store) = CASE n = 0 -> (1000 * SumOf(values)) \div m
                             [] n = 1 -> 1000 * pre[1].value
                             [] n = 2 -> 300 * pre[2].value + 700 * pre[1].value
                             [] n > 2 -> Trend(pre, e.start)
  BY DEF Estimate
<1>3. m \in Nat /\ m > 0 /\ DOMAIN store = 1..m /\ \A i \in 1..m : store[i].value \in Int
  BY RecordFields
<1> HIDE DEF pre
<1>4. n \in Nat /\ \A i \in 1..n : pre[i].value \in Int
  BY <1>1, RecordFields
<1> HIDE DEF m
<1>5. AllInt(values, m) /\ values = [i \in 1..m |-> values[i]]
  BY <1>3 DEF AllInt
<1> HIDE DEF values
<1>6. SumOf(values) \in Int
  BY <1>3, <1>5, IntSum
<1>7. (1000 * SumOf(values)) \div m \in Int
  BY <1>3, <1>6
<1>8. n = 1 => 1000 * pre[1].value \in Int
  BY <1>4
<1>9. n = 2 => 300 * pre[2].value + 700 * pre[1].value \in Int
  BY <1>4
<1>10. n > 2 => Trend(pre, e.start) \in Int
  <2> SUFFICES ASSUME n > 2 PROVE Trend(pre, e.start) \in Int
    OBVIOUS
  <2>1. Len(pre) > 0
    BY <1>4
  <2> DEFINE t == e.start
  <2>2. t \in Int
    BY <1>1
  <2> HIDE DEF t
  <2>3. Trend(pre, t) \in Int
    BY <1>1, <2>1, <2>2, TrendType
  <2> QED
    BY <2>3 DEF t
<1>11. n = 0 \/ n = 1 \/ n = 2 \/ n > 2
  <2>1. n \in Nat
    BY <1>4
  <2> HIDE DEF n
  <2> QED
    BY <2>1
<1> QED
  BY <1>2, <1>4, <1>7, <1>8, <1>9, <1>10, <1>11

-----------------------------------------------------------------------------
(* Results and the plan made of them.                                      *)
ResultSet == [ids : Seq(ChangeIds), delta : Int, confidence : Scores]

LEMMA WeakestScore ==
  ASSUME NEW scenario \in Scenes
  PROVE  LET scores == {scenario[i].score : i \in DOMAIN scenario}
         IN  (CHOOSE s \in scores : \A t \in scores : s <= t) \in Scores
<1> DEFINE scores == {scenario[i].score : i \in DOMAIN scenario}
<1>1. scenario \in Seq(FactorSet) /\ scenario # << >>
  BY DEF Scenes
<1>2. DOMAIN scenario = 1..Len(scenario) /\ 1 \in 1..Len(scenario)
  BY <1>1
<1>3. \A i \in 1..Len(scenario) : scenario[i].score \in Scores /\ scenario[i].score \in Nat
  BY <1>1, ScoresPositive
<1>4. scores \subseteq Scores /\ scores \subseteq Nat /\ scores # {}
  BY <1>2, <1>3
<1> HIDE DEF scores
<1>5. \E s \in scores : \A t \in scores : s <= t
  BY <1>4, Least
<1>6. (CHOOSE s \in scores : \A t \in scores : s <= t) \in scores
  BY <1>5
<1> QED
  BY <1>4, <1>6 DEF scores

LEMMA Largest ==
  ASSUME NEW n \in Nat, NEW G, G \subseteq 1..n, G # {}
  PROVE  \E x \in G : \A y \in G : y <= x
<1> DEFINE H == {k \in Nat : \E x \in G : k = n - x}
<1>1. \A x \in G : n - x \in H
  OBVIOUS
<1>2. H \subseteq Nat /\ H # {}
  BY <1>1
<1>3. PICK k \in H : \A l \in H : k <= l
  <2> HIDE DEF H
  <2> QED
    BY <1>2, Least
<1>4. PICK x \in G : k = n - x
  OBVIOUS
<1>5. \A y \in G : y <= x
  <2> TAKE y \in G
  <2>1. k <= n - y /\ x \in Int /\ y \in Int
    BY <1>1, <1>3
  <2> QED
    BY <2>1, <1>4
<1> QED
  BY <1>5

Hits(id) == {i \in DOMAIN results : \E k \in DOMAIN results[i].ids : results[i].ids[k] = id}

LEMMA ImpactIs ==
  ASSUME results \in Seq(ResultSet), NEW id
  PROVE  /\ Impact(id).delta \in Int /\ Impact(id).confidence \in Nat
         /\ Hits(id) = {} => Impact(id).delta = 0 /\ Impact(id).confidence = 0
         /\ Hits(id) # {} => Impact(id).confidence >= 1
<1> DEFINE H == Hits(id)
<1>1. Impact(id) = IF H = {} THEN [ids |-> << >>, delta |-> 0, confidence |-> 0]
                   ELSE results[CHOOSE i \in H : \A j \in H : j <= i]
  BY DEF Impact, Hits
<1>2. H \subseteq 1..Len(results) /\ Len(results) \in Nat
  BY DEF Hits
<1> HIDE DEF H
<1>3. CASE H = {}
  <2>1. Impact(id).delta = 0 /\ Impact(id).confidence = 0
    BY <1>1, <1>3
  <2> QED
    BY <2>1, <1>3 DEF H
<1>4. CASE H # {}
  <2>1. \E i \in H : \A j \in H : j <= i
    BY <1>2, <1>4, Largest
  <2>2. PICK i \in H : Impact(id) = results[i]
    BY <1>1, <1>4, <2>1
  <2>3. Impact(id) \in ResultSet
    BY <1>2, <2>2
  <2>4. Impact(id).delta \in Int /\ Impact(id).confidence \in Scores
    BY <2>3 DEF ResultSet
  <2>5. Impact(id).confidence \in Int /\ Impact(id).confidence >= 1
    BY <2>4, ScoresAre
  <2>6. Impact(id).confidence \in Nat
    BY <2>5
  <2> QED
    BY <2>4, <2>5, <2>6, <1>4 DEF H
<1> QED
  BY <1>3, <1>4

Simulated == UNION {{results[i].ids[k] : k \in DOMAIN results[i].ids} : i \in DOMAIN results}

LEMMA SimulatedHits == \A id : id \in Simulated <=> Hits(id) # {}
  BY DEF Simulated, Hits

ActionSet ==
    [id : ChangeIds, action : {"revert_model", "restore_version", "rollback_config"},
     improvement : Int, confidence : Nat]

(* An action with a result sorts behind one without only if it is worse.  *)
LEMMA WorseIfLater ==
  ASSUME NEW gain \in Int, NEW trust \in Nat, trust >= 1,
         0 <= 0 - (100000 * gain + trust)
  PROVE  gain < 0
<1>1. 100000 * gain < 0
  OBVIOUS
<1> QED
  BY <1>1

LEMMA RecommendationsAre ==
  ASSUME factors \in Seq(FactorSet), results \in Seq(ResultSet)
  PROVE  /\ Recommendations \in Seq(ActionSet) /\ Len(Recommendations) = Len(factors)
         /\ \A i, j \in 1..Len(factors) :
                (i <= j /\ Recommendations[i].id \notin Simulated
                        /\ Recommendations[j].id \in Simulated)
                    => Recommendations[j].improvement < 0
<1> DEFINE n == Len(factors)
           scored == [i \in DOMAIN factors |->
                      [id |-> factors[i].id,
                       action |-> ActionType(factors[i].type),
                       improvement |-> Impact(factors[i].id).delta,
                       confidence |-> Impact(factors[i].id).confidence]]
           key == [i \in DOMAIN scored |->
                      0 - (100000 * scored[i].improvement + scored[i].confidence)]
           pl == Recommendations
<1>1. n \in Nat /\ DOMAIN factors = 1..n /\ \A i \in 1..n : factors[i] \in FactorSet
  OBVIOUS
<1>2. pl = StableSort(scored, key)
  BY DEF Recommendations
<1> HIDE DEF n, pl
<1>3. \A i \in 1..n :
          /\ scored[i] \in ActionSet
          /\ scored[i].id \notin Simulated => scored[i].improvement = 0 /\ scored[i].confidence = 0
          /\ scored[i].id \in Simulated => scored[i].confidence >= 1
  <2> TAKE i \in 1..n
  <2> DEFINE id == factors[i].id
             x == Impact(id)
  <2>1. scored[i] = [id |-> id, action |-> ActionType(factors[i].type),
                     improvement |-> x.delta, confidence |-> x.confidence]
    BY <1>1
  <2>2. id \in ChangeIds
    BY <1>1 DEF FactorSet
  <2>3. /\ x.delta \in Int /\ x.confidence \in Nat
        /\ Hits(id) = {} => x.delta = 0 /\ x.confidence = 0
        /\ Hits(id) # {} => x.confidence >= 1
    BY ImpactIs
  <2>4. id \in Simulated <=> Hits(id) # {}
    BY SimulatedHits
  <2>5. ActionType(factors[i].type) \in {"revert_model", "restore_version", "rollback_config"}
    BY DEF ActionType
  <2> HIDE DEF scored, x, id
  <2> QED
    BY <2>1, <2>2, <2>3, <2>4, <2>5 DEF ActionSet
<1>4. scored = [i \in 1..n |-> scored[i]]
  BY <1>1
<1> HIDE DEF scored
<1>5. scored \in Seq(ActionSet) /\ Len(scored) = n /\ DOMAIN scored = 1..n
  <2>1. scored \in [1..n -> ActionSet]
    BY <1>3, <1>4
  <2> QED
    BY <2>1, <1>1
<1>6. \A i \in 1..n : /\ scored[i].improvement \in Int /\ scored[i].confidence \in Nat
                      /\ key[i] = 0 - (100000 * scored[i].improvement + scored[i].confidence)
  BY <1>3, <1>5 DEF ActionSet
<1> HIDE DEF key
<1>7. AllInt(key, n)
  <2>1. ASSUME NEW i \in 1..n PROVE key[i] \in Int
    <3> DEFINE x == scored[i].improvement
               y == scored[i].confidence
    <3>1. x \in Int /\ y \in Nat /\ key[i] = 0 - (100000 * x + y)
      BY ONLY <1>6, <2>1
    <3> HIDE DEF x, y
    <3> QED
      BY ONLY <3>1
  <2> QED
    BY ONLY <2>1 DEF AllInt
<1>8. pl \in Seq(ActionSet) /\ Len(pl) = n
  BY <1>2, <1>5, <1>7, SortingPermutes
<1>9. PICK p : /\ Permutes(p, pl, scored)
               /\ \A k, l \in 1..n : k < l => key[p[k]] <= key[p[l]]
  BY <1>2, <1>5, <1>7, SortingPermutes
<1>10. \A k \in 1..n : p[k] \in 1..n /\ pl[k] = scored[p[k]]
  BY <1>5, <1>9 DEF Permutes
<1>11. ASSUME NEW i \in 1..n, NEW j \in 1..n, i <= j, pl[i].id \notin Simulated, pl[j].id \in Simulated
       PROVE  pl[j].improvement < 0
  <2> DEFINE a == p[i]
             b == p[j]
  <2>1. a \in 1..n /\ b \in 1..n /\ pl[i] = scored[a] /\ pl[j] = scored[b]
    BY <1>10
  <2>2. i < j
    <3>1. i # j
      BY <1>11
    <3> QED
      BY <3>1, <1>11
  <2>3. key[a] <= key[b]
    BY <2>2, <1>9
  <2> HIDE DEF a, b
  <2>4. scored[a].improvement = 0 /\ scored[a].confidence = 0 /\ scored[b].confidence >= 1
    BY <2>1, <1>3, <1>11
  <2>5. key[a] = 0
    BY <2>1, <2>4, <1>6
  <2>6. key[b] = 0 - (100000 * scored[b].improvement + scored[b].confidence)
        /\ scored[b].improvement \in Int /\ scored[b].confidence \in Nat
    BY <2>1, <1>6
  <2>7. scored[b].improvement < 0
    <3> DEFINE gain == scored[b].improvement
               trust == scored[b].confidence
    <3>1. /\ gain \in Int /\ trust \in Nat /\ trust >= 1
          /\ 0 <= 0 - (100000 * gain + trust)
      BY ONLY <2>3, <2>4, <2>5, <2>6
    <3> HIDE DEF gain, trust
    <3>2. gain < 0
      BY ONLY <3>1, WorseIfLater
    <3> QED
      BY <3>2 DEF gain
  <2> QED
    BY <2>1, <2>7
<1> QED
  BY <1>8, <1>11 DEF n, pl

-----------------------------------------------------------------------------
(* The request: its variables' values, and what it has not come to yet.    *)
RequestInv ==
    /\ step \in {"detect", "attribute", "simulate", "done"}
    /\ delayed \in BOOLEAN
    /\ event \in Events
    /\ step # "detect" =>
           event.shift > Threshold * Window /\ event.start <= event.end /\ Len(history) > 0
    /\ factors \in Seq(FactorSet)
    /\ \A i \in 1..Len(factors) : factors[i].id \in Ids
    /\ confidence \in 0..Unit
    /\ scenarios \in Seq(Scenes)
    /\ results \in Seq(ResultSet)
    /\ Len(scenarios) + Len(results) <= TopK + 1
    /\ step \in {"detect", "attribute"} =>
           scenarios = << >> /\ results = << >> /\ simulation = NoSimulation
    /\ step # "done" => plan = << >>
    /\ plan # << >> => Len(plan) = Len(factors)

LEMMA SeenIds ==
  ASSUME HistoryInv, NEW id, SeenIn(Chronological(history), id)
  PROVE  id \in Ids
<1> DEFINE c == Chronological(history)
           n == Len(history)
           o == Arranged(1..Len(history), Times(history))
<1>1. history \in Seq(Records) /\ n \in Nat /\ n <= MaxRecords
      /\ MaxRecords \in Nat /\ \A i \in 1..n : history[i].run \in 1..i
  BY AnalysisConstants DEF HistoryInv
<1>2. /\ c \in Seq(Records) /\ Len(c) = n
      /\ o \in [1..n -> 1..n] /\ \A k \in 1..n : c[k] = history[o[k]]
  BY <1>1, InOrderOfTime
<1>3. PICK k \in Gaps(c) : Change(c[k], c[k + 1]).id = id
  BY DEF SeenIn
<1> HIDE DEF c, n, o
<1> DEFINE l == k + 1
<1>4. /\ l \in 1..n /\ c[k] \in Records /\ c[l] \in Records
      /\ id = <<c[l].run, c[l].time, ChangeType(c[k], c[l])>>
  BY <1>2, <1>3, GapIs
<1> HIDE DEF l
<1>5. c[l].run \in 1..MaxRecords
  <2>1. o[l] \in 1..n /\ c[l] = history[o[l]]
    BY <1>2, <1>4
  <2>2. c[l].run \in 1..o[l]
    BY <1>1, <2>1
  <2> QED
    BY <1>1, <2>1, <2>2
<1>6. c[l].time \in Int
  BY <1>4 DEF Records
<1>7. ChangeType(c[k], c[l]) \in TypeNames
  BY DEF ChangeType, TypeNames
<1> QED
  BY <1>4, <1>5, <1>6, <1>7 DEF Ids, TypeNames

LEMMA RequestInit == Init => RequestInv
<1> SUFFICES ASSUME Init PROVE RequestInv
  OBVIOUS
<1>1. NoEvent \in Events
  BY DEF NoEvent, Events
<1>2. TopK \in Nat
  BY AnalysisConstants
<1>3. << >> \in Seq(FactorSet) /\ << >> \in Seq(Scenes) /\ << >> \in Seq(ResultSet) /\ Len(<< >>) = 0
  OBVIOUS
<1>4. 0 \in 0..Unit
  <2>1. Unit \in Nat
    BY DEF Unit
  <2> QED
    BY <2>1
<1>5. /\ step = "detect" /\ delayed = FALSE /\ event = NoEvent /\ confidence = 0
      /\ factors = << >> /\ scenarios = << >> /\ results = << >>
      /\ simulation = NoSimulation /\ plan = << >>
  BY DEF Init
<1>6. \A i \in 1..Len(factors) : factors[i].id \in Ids
  BY <1>5
<1>7. Len(scenarios) + Len(results) <= TopK + 1
  BY <1>2, <1>5
<1>8. delayed \in BOOLEAN /\ confidence \in 0..Unit
  BY <1>4, <1>5
<1> QED
  BY <1>1, <1>3, <1>5, <1>6, <1>7, <1>8 DEF RequestInv

LEMMA SaveKeepsRequest ==
  ASSUME HistoryInv, RequestInv, Save
  PROVE  RequestInv'
<1>1. PICK r \in Records : history' = Append(history, r)
  BY Saved
<1>2. Len(history') > 0
  BY <1>1 DEF HistoryInv
<1>3. delayed' \in BOOLEAN
  BY DEF Save, RequestInv
<1>4. UNCHANGED <<step, event, factors, confidence, scenarios, simulation, results, plan>>
  BY DEF Save, request
<1> QED
  BY <1>2, <1>3, <1>4 DEF RequestInv

LEMMA DetectKeepsRequest ==
  ASSUME HistoryInv, RequestInv, Detect
  PROVE  RequestInv'
<1>1. /\ step = "detect" /\ step' = "attribute"
      /\ UNCHANGED <<history, delayed, factors, confidence, scenarios, simulation, results, plan>>
  BY DEF Detect
<1>2. PICK i \in DOMAIN DriftEvents(history) : event' = DriftEvents(history)[i]
  BY DEF Detect
<1>3. history \in Seq(Records)
  BY DEF HistoryInv
<1> DEFINE c == Chronological(history)
<1>4. /\ event' \in Events /\ event'.shift > Threshold * Window /\ event'.start <= event'.end
      /\ \E j \in 1..Len(c) : TRUE
  BY <1>2, <1>3, EventIs
<1>5. Len(c) = Len(history)
  BY <1>3, InOrderOfTime
<1>6. Len(history) > 0
  BY <1>3, <1>4, <1>5
<1> QED
  BY <1>1, <1>4, <1>6 DEF RequestInv

LEMMA AttributeKeepsRequest ==
  ASSUME HistoryInv, RequestInv, Attribute
  PROVE  RequestInv'
<1>1. /\ step = "attribute" /\ step' = "simulate"
      /\ factors' = Factors(event, history)
      /\ confidence' = Confidence(factors')
      /\ scenarios' = Scenarios(factors')
      /\ UNCHANGED <<history, delayed, event, simulation, results, plan>>
  BY DEF Attribute
<1>2. history \in Seq(Records) /\ event \in Events
  BY DEF HistoryInv, RequestInv
<1>3. factors' \in Seq(FactorSet) /\ AllSeen(factors', Chronological(history))
  BY <1>1, <1>2, FactorsAre
<1>4. \A i \in 1..Len(factors') : factors'[i].id \in Ids
  BY <1>3, SeenIds DEF AllSeen
<1>5. confidence' \in 0..Unit
  BY <1>1, <1>3, ConfidenceBounds
<1>6. scenarios' \in Seq(Scenes) /\ Len(scenarios') <= TopK + 1
  BY <1>1, <1>3, ScenariosAre
<1>7. results = << >> /\ plan = << >>
  BY <1>1 DEF RequestInv
<1>8. Len(scenarios') + Len(results') <= TopK + 1
  <2>1. Len(results') = 0 /\ Len(scenarios') \in Nat
    BY <1>1, <1>6, <1>7
  <2> QED
    BY <2>1, <1>6
<1> QED
  BY <1>1, <1>3, <1>4, <1>5, <1>6, <1>7, <1>8 DEF RequestInv

(* What one turn of the loop works on.                                     *)
IdsOf(scenario) == [i \in DOMAIN scenario |-> scenario[i].id]

LEMMA HeadScenario ==
  ASSUME RequestInv, Simulate
  PROVE  LET scenario == Head(scenarios)
             ids == IdsOf(scenario)
         IN  /\ scenario \in Scenes /\ scenario = scenarios[1] /\ 1 \in 1..Len(scenarios)
             /\ ids \in Seq(ChangeIds) /\ Len(ids) = Len(scenario) /\ Len(ids) \in Nat
             /\ \A k \in 1..Len(ids) : ids[k] = scenario[k].id
             /\ simulation' = [base |-> history, store |-> Applied(history, ids).store,
                               ids |-> ids, found |-> Applied(history, ids).found]
<1> DEFINE scenario == Head(scenarios)
           ids == IdsOf(scenario)
<1>1. scenarios \in Seq(Scenes) /\ scenarios # << >>
  BY DEF RequestInv, Simulate
<1>2. scenario \in Scenes /\ scenario = scenarios[1] /\ 1 \in 1..Len(scenarios)
  BY <1>1
<1>3. simulation' = [base |-> history, store |-> Applied(history, ids).store,
                     ids |-> ids, found |-> Applied(history, ids).found]
  BY DEF Simulate, IdsOf
<1>4. scenario \in Seq(FactorSet)
  BY <1>2 DEF Scenes
<1> HIDE DEF scenario
<1>5. Len(scenario) \in Nat /\ DOMAIN scenario = 1..Len(scenario)
      /\ \A k \in 1..Len(scenario) : scenario[k] \in FactorSet
  BY <1>4
<1>6. \A k \in 1..Len(scenario) : ids[k] = scenario[k].id /\ ids[k] \in ChangeIds
  BY <1>5 DEF FactorSet, IdsOf
<1>7. ids \in Seq(ChangeIds) /\ Len(ids) = Len(scenario)
  <2>1. ids = [k \in 1..Len(scenario) |-> ids[k]]
    BY <1>5 DEF IdsOf
  <2> HIDE DEF ids
  <2>2. ids \in [1..Len(scenario) -> ChangeIds]
    BY <1>6, <2>1
  <2> QED
    BY <1>5, <2>2
<1> QED
  BY <1>2, <1>3, <1>5, <1>6, <1>7 DEF scenario

LEMMA SimulateKeepsRequest ==
  ASSUME HistoryInv, RequestInv, Simulate
  PROVE  RequestInv'
<1> DEFINE scenario == Head(scenarios)
           ids == IdsOf(scenario)
           store == Applied(history, ids).store
           scores == {scenario[i].score : i \in DOMAIN scenario}
           delta == (1000 * event.shift) \div Window - Estimate(event, store)
           weakest == CHOOSE s \in scores : \A t \in scores : s <= t
<1>1. /\ step = "simulate" /\ scenarios # << >>
      /\ scenarios' = Tail(scenarios)
      /\ UNCHANGED <<history, delayed, step, event, factors, confidence, plan>>
  BY DEF Simulate
<1>2. results' = Append(results, [ids |-> ids, delta |-> delta, confidence |-> weakest])
  BY DEF Simulate, IdsOf
<1>3. scenario \in Scenes /\ ids \in Seq(ChangeIds) /\ Len(ids) \in Nat
  BY HeadScenario
<1>4. weakest \in Scores
  BY <1>3, WeakestScore
<1>5. history \in Seq(Records) /\ Len(history) > 0 /\ event \in Events
  BY <1>1 DEF HistoryInv, RequestInv
<1> HIDE DEF scenario, ids, scores, weakest
<1>6. store \in Seq(Records) /\ Len(store) = Len(history)
  <2>1. store = Stores(history, ids)[Len(ids)] /\ Len(ids) \in 0..Len(ids)
    <3>1. store = Stores(history, ids)[Len(ids)]
      BY AppliedIs
    <3>2. Len(ids) \in 0..Len(ids)
      BY <1>3
    <3> QED
      BY <3>1, <3>2
  <2> HIDE DEF store
  <2> QED
    BY <1>3, <1>5, <2>1, StoresAre
<1> HIDE DEF store
<1>7. delta \in Int
  <2>1. Estimate(event, store) \in Int
    BY <1>5, <1>6, EstimateType
  <2>2. event.shift \in Int /\ Window \in Int /\ Window > 0
    BY <1>5, ExtractionConstants DEF Events
  <2>3. (1000 * event.shift) \div Window \in Int
    BY <2>2, Quotient
  <2> QED
    BY <2>1, <2>3
<1> HIDE DEF delta
<1>8. [ids |-> ids, delta |-> delta, confidence |-> weakest] \in ResultSet
  BY <1>3, <1>4, <1>7 DEF ResultSet
<1>9. results \in Seq(ResultSet) /\ scenarios \in Seq(Scenes)
      /\ Len(scenarios) + Len(results) <= TopK + 1 /\ TopK \in Nat
  BY AnalysisConstants DEF RequestInv
<1>10. results' \in Seq(ResultSet) /\ Len(results') = Len(results) + 1
  BY <1>2, <1>8, <1>9
<1>11. scenarios' \in Seq(Scenes) /\ Len(scenarios') = Len(scenarios) - 1
  BY <1>1, <1>9
<1>12. Len(scenarios') + Len(results') <= TopK + 1
  BY <1>9, <1>10, <1>11
<1> QED
  BY <1>1, <1>10, <1>11, <1>12 DEF RequestInv

LEMMA PlanKeepsRequest ==
  ASSUME HistoryInv, RequestInv, Plan
  PROVE  RequestInv'
<1>1. /\ step = "simulate" /\ plan' = Recommendations /\ step' = "done"
      /\ UNCHANGED <<history, delayed, event, factors, confidence, scenarios, simulation, results>>
  BY DEF Plan
<1>2. Len(plan') = Len(factors)
  BY <1>1, RecommendationsAre DEF RequestInv
<1> QED
  BY <1>1, <1>2 DEF RequestInv

LEMMA RequestStep ==
  ASSUME HistoryInv, RequestInv, [Next]_vars
  PROVE  RequestInv'
<1>1. CASE Save
  BY <1>1, SaveKeepsRequest
<1>2. CASE Detect
  BY <1>2, DetectKeepsRequest
<1>3. CASE Attribute
  BY <1>3, AttributeKeepsRequest
<1>4. CASE Simulate
  BY <1>4, SimulateKeepsRequest
<1>5. CASE Plan
  BY <1>5, PlanKeepsRequest
<1>6. CASE UNCHANGED vars
  BY <1>6 DEF vars, request, RequestInv
<1> QED
  BY <1>1, <1>2, <1>3, <1>4, <1>5, <1>6 DEF Next

LEMMA RequestInvariant == Spec => [](HistoryInv /\ RequestInv)
<1>1. Init => RequestInv
  BY RequestInit
<1>2. HistoryInv /\ RequestInv /\ [Next]_vars => RequestInv'
  BY RequestStep
<1> QED
  BY <1>1, <1>2, HistoryInvariant, PTL DEF Spec

LEMMA InvTypes == HistoryInv /\ RequestInv => TypeOK
<1> SUFFICES ASSUME HistoryInv, RequestInv PROVE TypeOK
  OBVIOUS
<1>1. DOMAIN history = 1..Len(history) /\ DOMAIN factors = 1..Len(factors)
      /\ DOMAIN results = 1..Len(results)
  BY DEF HistoryInv, RequestInv
<1>2. \A i \in DOMAIN factors : factors[i].id \in Ids /\ factors[i].score \in 1..Unit
  BY <1>1, ScoresPositive DEF RequestInv, Scores
<1>3. \A i \in DOMAIN results : results[i].confidence \in 1..Unit
  <2> TAKE i \in DOMAIN results
  <2>1. results[i] \in ResultSet
    BY <1>1 DEF RequestInv
  <2> QED
    BY <2>1 DEF ResultSet, Scores
<1>4. \A i \in DOMAIN history :
           /\ history[i].run \in 1..i
           /\ history[i].value \in Values
           /\ [f \in Fields |-> history[i][f]] \in Deployments
  BY <1>1 DEF HistoryInv, DeploymentOf
<1> QED
  BY <1>2, <1>3, <1>4 DEF TypeOK, HistoryInv, RequestInv

(* Every variable ranges over the values its counterpart can have: an      *)
(* attribution's scores and confidence lie between 0 and 1, a request      *)
(* simulates at most top_k + 1 scenarios.                                  *)
THEOREM AnalysisTypes == Spec => []TypeOK
  BY RequestInvariant, InvTypes, PTL

-----------------------------------------------------------------------------
(* The scenarios to come are about changes of the history as it is now,    *)
(* unless a record was delayed; about different runs where no run was      *)
(* evaluated twice.                                                        *)
ScenarioInv ==
    /\ ~delayed => \A i \in 1..Len(scenarios) : AllSeen(scenarios[i], Chronological(history))
    /\ DistinctRuns(history) => \A i \in 1..Len(scenarios) : Apart(scenarios[i])

EarlyInv == step # "detect" /\ DistinctTimes(history) => Early(history, event.start)

LEMMA DistinctBefore ==
  ASSUME NEW s \in Seq(Records), NEW r \in Records
  PROVE  /\ DistinctRuns(Append(s, r)) => DistinctRuns(s)
         /\ DistinctTimes(Append(s, r)) => DistinctTimes(s)
<1> DEFINE t == Append(s, r)
<1>1. DOMAIN s \subseteq DOMAIN t /\ \A i \in DOMAIN s : t[i] = s[i]
  OBVIOUS
<1> HIDE DEF t
<1>2. DistinctRuns(t) => DistinctRuns(s)
  BY <1>1 DEF DistinctRuns
<1>3. DistinctTimes(t) => DistinctTimes(s)
  BY <1>1 DEF DistinctTimes
<1> QED
  BY <1>2, <1>3 DEF t

LEMMA SaveKeepsScenarios ==
  ASSUME HistoryInv, RequestInv, ScenarioInv, EarlyInv, Save
  PROVE  ScenarioInv' /\ EarlyInv'
<1>1. PICK r \in Records : /\ history' = Append(history, r)
                           /\ step # "detect" /\ ~delayed' => InOrder(r)
  BY Saved
<1>2. history \in Seq(Records)
  BY DEF HistoryInv
<1>3. UNCHANGED <<step, event, scenarios>> /\ (delayed => delayed')
  BY DEF Save, request
<1>4. ASSUME ~delayed', NEW i \in 1..Len(scenarios')
      PROVE  AllSeen(scenarios'[i], Chronological(history'))
  <2> DEFINE c == Chronological(history)
             d == Chronological(history')
             x == scenarios[i]
  <2>1. ~delayed /\ i \in 1..Len(scenarios) /\ scenarios'[i] = x
    BY <1>3, <1>4
  <2>2. step # "detect"
    <3> SUFFICES ASSUME step = "detect" PROVE FALSE
      OBVIOUS
    <3>1. scenarios = << >>
      BY DEF RequestInv
    <3> QED
      BY <3>1, <2>1
  <2>3. d = Append(c, r)
    BY <1>1, <1>2, <1>4, <2>2, AppendedInOrder DEF InOrder
  <2>4. AllSeen(x, c)
    BY <2>1 DEF ScenarioInv
  <2>5. c \in Seq(Records)
    BY <1>2, InOrderOfTime
  <2> HIDE DEF c, d, x
  <2>6. d \in Seq(Records) /\ Len(c) <= Len(d) /\ \A k \in 1..Len(c) : d[k] = c[k]
    BY <2>3, <2>5
  <2>7. AllSeen(x, d)
    BY <2>4, <2>5, <2>6, SeenStays DEF AllSeen
  <2> QED
    BY <2>1, <2>7 DEF d
<1>5. ASSUME DistinctRuns(history'), NEW i \in 1..Len(scenarios')
      PROVE  Apart(scenarios'[i])
  <2>1. DistinctRuns(history)
    BY <1>1, <1>2, <1>5, DistinctBefore
  <2> QED
    BY <2>1, <1>3, <1>5 DEF ScenarioInv
<1>6. ASSUME step' # "detect", DistinctTimes(history') PROVE Early(history', event'.start)
  <2>1. DistinctTimes(history)
    BY <1>1, <1>2, <1>6, DistinctBefore
  <2>2. Early(history, event.start)
    BY <2>1, <1>3, <1>6 DEF EarlyInv
  <2> DEFINE t == event.start
  <2> HIDE DEF t
  <2>3. Early(Append(history, r), t)
    BY <1>2, <2>2, EarlyStays DEF t
  <2> QED
    BY <2>3, <1>1, <1>3 DEF t
<1>7. ScenarioInv'
  BY <1>4, <1>5 DEF ScenarioInv
<1>8. EarlyInv'
  BY <1>6 DEF EarlyInv
<1> QED
  BY <1>7, <1>8

LEMMA AttributeKeepsScenarios ==
  ASSUME HistoryInv, RequestInv, ScenarioInv, EarlyInv, Attribute
  PROVE  ScenarioInv' /\ EarlyInv'
<1>1. /\ step = "attribute" /\ step' = "simulate"
      /\ factors' = Factors(event, history)
      /\ scenarios' = Scenarios(factors')
      /\ UNCHANGED <<history, delayed, event>>
  BY DEF Attribute
<1>2. history \in Seq(Records) /\ event \in Events
  BY DEF HistoryInv, RequestInv
<1> DEFINE c == Chronological(history)
<1>3. /\ factors' \in Seq(FactorSet) /\ AllSeen(factors', c)
      /\ DistinctRuns(history) => Apart(factors')
  BY <1>1, <1>2, FactorsAre
<1> HIDE DEF c
<1>4. \A i \in 1..Len(scenarios') : AllSeen(scenarios'[i], c)
  BY <1>1, <1>3, ScenariosSeen
<1>5. DistinctRuns(history) => \A i \in 1..Len(scenarios') : Apart(scenarios'[i])
  BY <1>1, <1>3, ScenariosSeen
<1>6. ScenarioInv'
  BY <1>1, <1>4, <1>5 DEF ScenarioInv, c
<1>7. EarlyInv'
  BY <1>1 DEF EarlyInv
<1> QED
  BY <1>6, <1>7

LEMMA ScenarioStep ==
  ASSUME HistoryInv, RequestInv, ScenarioInv, EarlyInv, [Next]_vars
  PROVE  ScenarioInv' /\ EarlyInv'
<1>1. CASE Save
  BY <1>1, SaveKeepsScenarios
<1>2. CASE Detect
  <2>1. /\ step = "detect" /\ UNCHANGED <<history, delayed, scenarios>>
    BY <1>2 DEF Detect
  <2>2. PICK i \in DOMAIN DriftEvents(history) : event' = DriftEvents(history)[i]
    BY <1>2 DEF Detect
  <2>3. DistinctTimes(history) => Early(history, event'.start)
    BY <2>2, EarlyEvent DEF HistoryInv
  <2>4. ScenarioInv'
    BY <2>1 DEF ScenarioInv
  <2>5. EarlyInv'
    BY <2>1, <2>3 DEF EarlyInv
  <2> QED
    BY <2>4, <2>5
<1>3. CASE Attribute
  BY <1>3, AttributeKeepsScenarios
<1>4. CASE Simulate
  <2>1. /\ step = "simulate" /\ scenarios # << >> /\ scenarios' = Tail(scenarios)
        /\ UNCHANGED <<history, delayed, step, event>>
    BY <1>4 DEF Simulate
  <2>2. scenarios \in Seq(Scenes)
    BY DEF RequestInv
  <2>3. \A i \in 1..Len(scenarios') : i + 1 \in 1..Len(scenarios) /\ scenarios'[i] = scenarios[i + 1]
    BY <2>1, <2>2
  <2>4. ~delayed => \A i \in 1..Len(scenarios') : AllSeen(scenarios'[i], Chronological(history))
    BY <2>3 DEF ScenarioInv
  <2>5. DistinctRuns(history) => \A i \in 1..Len(scenarios') : Apart(scenarios'[i])
    BY <2>3 DEF ScenarioInv
  <2>6. ScenarioInv'
    BY <2>1, <2>4, <2>5 DEF ScenarioInv
  <2>7. EarlyInv'
    BY <2>1 DEF EarlyInv
  <2> QED
    BY <2>6, <2>7
<1>5. CASE Plan
  <2>1. step = "simulate" /\ UNCHANGED <<history, delayed, scenarios, event>>
    BY <1>5 DEF Plan
  <2>2. ScenarioInv'
    BY <2>1 DEF ScenarioInv
  <2>3. EarlyInv'
    BY <2>1 DEF EarlyInv
  <2> QED
    BY <2>2, <2>3
<1>6. CASE UNCHANGED vars
  BY <1>6 DEF vars, request, ScenarioInv, EarlyInv
<1> QED
  BY <1>1, <1>2, <1>3, <1>4, <1>5, <1>6 DEF Next

AnalysisInv == HistoryInv /\ RequestInv /\ ScenarioInv /\ EarlyInv

LEMMA AnalysisInvariant == Spec => []AnalysisInv
<1>1. Init => ScenarioInv /\ EarlyInv
  BY DEF Init, ScenarioInv, EarlyInv
<1>2. HistoryInv /\ RequestInv /\ ScenarioInv /\ EarlyInv /\ [Next]_vars => (ScenarioInv /\ EarlyInv)'
  BY ScenarioStep
<1> QED
  BY <1>1, <1>2, RequestInvariant, PTL DEF Spec, AnalysisInv

-----------------------------------------------------------------------------
(* What is left of a simulation's properties while it stays the last one.  *)
LEMMA SimulationKept ==
  ASSUME HistoryInv, RequestInv, [Next]_vars, ~Simulate
  PROVE  /\ simulation' = simulation
         /\ ~delayed' => ~delayed
         /\ step # "detect" => event' = event
<1>1. simulation' = simulation
  BY DEF Next, Save, Detect, Attribute, Plan, vars, request
<1>2. ~delayed' => ~delayed
  <2>1. CASE Save
    BY <2>1 DEF Save
  <2>2. CASE ~Save
    BY <2>2 DEF Next, Detect, Attribute, Plan, vars
  <2> QED
    BY <2>1, <2>2
<1>3. step # "detect" => event' = event
  BY DEF Next, Save, Detect, Attribute, Plan, vars, request
<1> QED
  BY <1>1, <1>2, <1>3

(* The store a scenario leaves has the history's records in the order of   *)
(* time, but for their deployments.                                        *)
LEMMA SimulatedStore ==
  ASSUME HistoryInv, RequestInv, Simulate
  PROVE  LET ids == IdsOf(Head(scenarios)) IN
         /\ simulation'.base = history /\ simulation'.ids = ids
         /\ simulation'.store = Stores(history, ids)[Len(ids)]
         /\ simulation'.found = [k \in DOMAIN ids |-> IsChange(Stores(history, ids)[k - 1], ids[k])]
         /\ simulation'.store \in Seq(Records)
         /\ Like(Chronological(simulation'.store), Chronological(history))
<1> DEFINE ids == IdsOf(Head(scenarios))
<1>1. /\ simulation' = [base |-> history, store |-> Applied(history, ids).store,
                        ids |-> ids, found |-> Applied(history, ids).found]
      /\ Len(ids) \in Nat
  BY HeadScenario
<1>2. history \in Seq(Records)
  BY DEF HistoryInv
<1> HIDE DEF ids
<1>3. /\ Applied(history, ids).store = Stores(history, ids)[Len(ids)]
      /\ Applied(history, ids).found =
             [k \in DOMAIN ids |-> IsChange(Stores(history, ids)[k - 1], ids[k])]
  BY AppliedIs
<1>4. Len(ids) \in 0..Len(ids)
  BY <1>1
<1>5. /\ Stores(history, ids)[Len(ids)] \in Seq(Records)
      /\ Like(Chronological(Stores(history, ids)[Len(ids)]), Chronological(history))
  BY <1>1, <1>2, <1>4, StoresAre
<1> QED
  BY <1>1, <1>3, <1>5 DEF ids

(* In a history without two records of one time the estimate behind every  *)
(* counterfactual delta rests on a window of records before the drift.     *)
THEOREM ReferenceIsBeforeDrift == Spec => []ReferenceBeforeDrift
<1>1. Init => ReferenceBeforeDrift
  BY DEF Init, ReferenceBeforeDrift, NoSimulation
<1>2. AnalysisInv /\ ReferenceBeforeDrift /\ [Next]_vars => ReferenceBeforeDrift'
  <2> SUFFICES ASSUME AnalysisInv, ReferenceBeforeDrift, [Next]_vars
               PROVE  ReferenceBeforeDrift'
    OBVIOUS
  <2>1. HistoryInv /\ RequestInv /\ EarlyInv
    BY DEF AnalysisInv
  <2>2. CASE Simulate
    <3>1. /\ simulation'.base = history
          /\ simulation'.store \in Seq(Records)
          /\ Like(Chronological(simulation'.store), Chronological(history))
      BY <2>1, <2>2, SimulatedStore
    <3>2. step = "simulate" /\ event' = event /\ history \in Seq(Records)
      BY <2>1, <2>2 DEF Simulate, HistoryInv
    <3>3. ASSUME DistinctTimes(history) PROVE Len(PreWindow(event, simulation'.store)) >= Window
      <4>1. Early(history, event.start)
        BY <2>1, <3>2, <3>3 DEF EarlyInv
      <4> DEFINE store == simulation'.store
      <4>2. store \in Seq(Records) /\ Like(Chronological(store), Chronological(history))
        BY <3>1
      <4> HIDE DEF store
      <4>3. Len(PreWindow(event, store)) >= Window
        BY <3>2, <4>1, <4>2, EarlyCounts
      <4> QED
        BY <4>3 DEF store
    <3> QED
      BY <3>1, <3>2, <3>3 DEF ReferenceBeforeDrift
  <2>3. CASE ~Simulate
    <3>1. simulation' = simulation /\ (step # "detect" => event' = event)
      BY <2>1, <2>3, SimulationKept
    <3>2. step = "detect" => simulation.ids = << >>
      BY <2>1 DEF RequestInv, NoSimulation
    <3> QED
      BY <3>1, <3>2 DEF ReferenceBeforeDrift
  <2> QED
    BY <2>2, <2>3
<1> QED
  BY <1>1, <1>2, AnalysisInvariant, PTL DEF Spec

(* generate_optimization_plan puts a change without a counterfactual       *)
(* result before a simulated one only where that one makes the metric      *)
(* worse.                                                                  *)
THEOREM UnsimulatedFirstOnlyBeforeHarm == Spec => []UnsimulatedOnlyBeforeHarm
<1>1. Init => UnsimulatedOnlyBeforeHarm
  BY DEF Init, UnsimulatedOnlyBeforeHarm
<1>2. AnalysisInv /\ UnsimulatedOnlyBeforeHarm /\ [Next]_vars => UnsimulatedOnlyBeforeHarm'
  <2> SUFFICES ASSUME AnalysisInv, UnsimulatedOnlyBeforeHarm, [Next]_vars
               PROVE  UnsimulatedOnlyBeforeHarm'
    OBVIOUS
  <2>1. RequestInv
    BY DEF AnalysisInv
  <2>2. CASE Plan
    <3> DEFINE pl == Recommendations
    <3>1. plan' = pl /\ results' = results
      BY <2>2 DEF Plan
    <3>2. factors \in Seq(FactorSet) /\ results \in Seq(ResultSet)
      BY <2>1 DEF RequestInv
    <3>3. /\ pl \in Seq(ActionSet) /\ Len(pl) = Len(factors)
          /\ \A i, j \in 1..Len(factors) :
                (i <= j /\ pl[i].id \notin Simulated /\ pl[j].id \in Simulated)
                    => pl[j].improvement < 0
      BY <3>2, RecommendationsAre
    <3> HIDE DEF pl
    <3>4. DOMAIN pl = 1..Len(pl) /\ Len(pl) \in Nat
      BY <3>3
    <3>5. \A i \in DOMAIN pl : pl[i].id \notin Simulated =>
              \A j \in i..Len(pl) : pl[j].id \in Simulated => pl[j].improvement < 0
      <4> TAKE i \in DOMAIN pl
      <4> SUFFICES ASSUME pl[i].id \notin Simulated, NEW j \in i..Len(pl), pl[j].id \in Simulated
                   PROVE  pl[j].improvement < 0
        OBVIOUS
      <4>1. i \in 1..Len(factors) /\ j \in 1..Len(factors) /\ i <= j
        BY <3>3, <3>4
      <4> QED
        BY <3>3, <4>1
    <3> QED
      BY <3>1, <3>5 DEF UnsimulatedOnlyBeforeHarm, Simulated
  <2>3. CASE ~Plan
    <3>1. plan' = plan
      BY <2>3 DEF Next, Save, Detect, Attribute, Simulate, vars, request
    <3>2. plan # << >> => results' = results
      BY <2>1, <2>3 DEF RequestInv, Next, Save, Detect, Attribute, Simulate, vars, request
    <3>3. CASE plan = << >>
      BY <3>1, <3>3 DEF UnsimulatedOnlyBeforeHarm
    <3>4. CASE plan # << >>
      BY <3>1, <3>2, <3>4 DEF UnsimulatedOnlyBeforeHarm
    <3> QED
      BY <3>3, <3>4
  <2> QED
    BY <2>2, <2>3
<1> QED
  BY <1>1, <1>2, AnalysisInvariant, PTL DEF Spec

(* apply_scenario finds every change it is given in the history, or an     *)
(* earlier intervention has just reverted the record before it.            *)
THEOREM SkipsComeOfReverts == Spec => []SkippedOnlyBehindRevert
<1>1. Init => SkippedOnlyBehindRevert
  BY DEF Init, SkippedOnlyBehindRevert, NoSimulation
<1>2. AnalysisInv /\ SkippedOnlyBehindRevert /\ [Next]_vars => SkippedOnlyBehindRevert'
  <2> SUFFICES ASSUME AnalysisInv, SkippedOnlyBehindRevert, [Next]_vars
               PROVE  SkippedOnlyBehindRevert'
    OBVIOUS
  <2>1. HistoryInv /\ RequestInv /\ ScenarioInv
    BY DEF AnalysisInv
  <2>2. CASE Simulate
    <3> DEFINE scenario == Head(scenarios)
               ids == IdsOf(scenario)
               c == Chronological(history)
    <3>1. /\ simulation'.base = history /\ simulation'.ids = ids
          /\ simulation'.found =
                 [k \in DOMAIN ids |-> IsChange(Stores(history, ids)[k - 1], ids[k])]
      BY <2>1, <2>2, SimulatedStore
    <3>2. /\ scenario = scenarios[1] /\ 1 \in 1..Len(scenarios)
          /\ ids \in Seq(ChangeIds) /\ Len(ids) = Len(scenario) /\ Len(ids) \in Nat
          /\ \A k \in 1..Len(ids) : ids[k] = scenario[k].id
      BY <2>1, <2>2, HeadScenario
    <3>3. delayed' = delayed /\ history \in Seq(Records)
      BY <2>1, <2>2 DEF Simulate, HistoryInv
    <3> HIDE DEF scenario, ids
    <3>4. ASSUME ~delayed, DistinctRuns(history), NEW k \in 1..Len(ids)
          PROVE  \/ simulation'.found[k]
                 \/ \E j \in 1..(k - 1) : Place(c, ids[j]) = Place(c, ids[k]) - 1
      <4>1. AllSeen(scenario, c) /\ Apart(scenario)
        BY <2>1, <3>2, <3>4 DEF ScenarioInv
      <4>2. \A l \in 1..Len(ids) : SeenIn(c, ids[l])
        BY <3>2, <4>1 DEF AllSeen
      <4>3. \A l, m \in 1..Len(ids) : ids[l][1] = ids[m][1] => l = m
        BY <3>2, <4>1 DEF Apart
      <4>a. NameChanges(ids, c)
        BY <4>2, <4>3 DEF NameChanges
      <4>4. \/ IsChange(Stores(history, ids)[k - 1], ids[k])
            \/ \E j \in 1..(k - 1) : Place(c, ids[j]) = Place(c, ids[k]) - 1
        BY <3>2, <3>3, <3>4, <4>a, FoundOrBehind
      <4>5. simulation'.found[k] = IsChange(Stores(history, ids)[k - 1], ids[k])
        BY <3>1, <3>2
      <4> QED
        BY <4>4, <4>5
    <3>5. DOMAIN ids = 1..Len(ids)
      BY <3>2
    <3> QED
      BY <3>1, <3>3, <3>4, <3>5 DEF SkippedOnlyBehindRevert
  <2>3. CASE ~Simulate
    <3>1. simulation' = simulation /\ (~delayed' => ~delayed)
      BY <2>1, <2>3, SimulationKept
    <3> QED
      BY <3>1 DEF SkippedOnlyBehindRevert
  <2> QED
    BY <2>2, <2>3
<1> QED
  BY <1>1, <1>2, AnalysisInvariant, PTL DEF Spec

-----------------------------------------------------------------------------
(* _revert_change with the old values of a change of adjacent records.     *)
LEMMA RevertGoesBack ==
  ASSUME NEW p \in Records, NEW r \in Records, p.info # EMPTY, r.info # EMPTY,
         p.info # NONE, r.info # NONE,
         r.info = p.info \/ BothDicts(p, r), NEW f \in Fields
  PROVE  Reverted(r, Details(p, r))[f] = p[f]
<1> DEFINE old == Details(p, r)
<1>1. DOMAIN r = Names /\ f \in Names
  BY DEF Records, Names
<1>2. DOMAIN old = {g \in Fields : p[g] # r[g]}
  BY DetailsAre
<1>3. f \in DOMAIN old =>
          old[f] = IF f # "info" THEN p[f]
                   ELSE IF BothDicts(p, r) /\ ModelOf(p) # ModelOf(r) THEN ModelOf(p)
                   ELSE ABSENT
  BY DEF Details
<1>4. Reverted(r, old)[f] =
          IF f \notin DOMAIN old THEN r[f]
          ELSE IF f = "info" /\ old[f] = ABSENT
               THEN IF r[f] = ABSENT THEN EMPTY ELSE r[f]
               ELSE old[f]
  BY <1>1 DEF Reverted
<1> HIDE DEF old
<1>5. CASE f \notin DOMAIN old
  <2>1. r[f] = p[f]
    BY <1>2, <1>5
  <2>2. Reverted(r, old)[f] = r[f]
    BY <1>4, <1>5
  <2> QED
    BY <2>1, <2>2 DEF old
<1>6. CASE f \in DOMAIN old /\ f # "info"
  <2>1. old[f] = p[f]
    BY <1>3, <1>6
  <2>2. Reverted(r, old)[f] = old[f]
    BY <1>4, <1>6
  <2> QED
    BY <2>1, <2>2 DEF old
<1>7. CASE f \in DOMAIN old /\ f = "info"
  <2>1. p.info # r.info
    BY <1>2, <1>7
  <2>2. BothDicts(p, r) /\ p.info # ABSENT
    BY <2>1 DEF BothDicts
  <2>3. ModelOf(p) = p.info /\ ModelOf(r) = r.info
    BY DEF ModelOf
  <2>4. old[f] = p.info
    BY <1>3, <1>7, <2>1, <2>2, <2>3
  <2>5. old[f] # ABSENT /\ p[f] = p.info
    BY <1>7, <2>2, <2>4
  <2>6. Reverted(r, old)[f] = old[f]
    BY <1>4, <1>7, <2>5
  <2> QED
    BY <2>4, <2>5, <2>6 DEF old
<1> QED
  BY <1>5, <1>6, <1>7

LEMMA NoEmptyInfo ==
  ASSUME HistoryInv, NEW k \in 1..Len(history)
  PROVE  /\ Chronological(history)[k] \in Records
         /\ Chronological(history)[k].info # EMPTY /\ Chronological(history)[k].info # NONE
<1> DEFINE c == Chronological(history)
           n == Len(history)
           o == Arranged(1..Len(history), Times(history))
<1>1. /\ c \in Seq(Records) /\ Len(c) = n
      /\ o \in [1..n -> 1..n] /\ \A l \in 1..n : c[l] = history[o[l]]
  BY InOrderOfTime DEF HistoryInv
<1>2. o[k] \in 1..n /\ c[k] = history[o[k]] /\ c[k] \in Records
  BY <1>1
<1>3. DeploymentOf(c[k]) \in Deployments
  BY <1>2 DEF HistoryInv
<1>4. DeploymentOf(c[k]).info \notin {EMPTY, NONE}
  BY <1>3, AnalysisConstants
<1>5. DeploymentOf(c[k]).info = c[k].info
  BY DEF DeploymentOf, Fields
<1> QED
  BY <1>2, <1>4, <1>5

(* A scenario of one change puts the deployment of the record before back  *)
(* into the record the change was seen at, and into no other.              *)
THEOREM RevertsAreExact == Spec => []RevertIsExact
<1>1. Init => RevertIsExact
  BY DEF Init, RevertIsExact, NoSimulation
<1>2. AnalysisInv /\ RevertIsExact /\ [Next]_vars => RevertIsExact'
  <2> SUFFICES ASSUME AnalysisInv, RevertIsExact, [Next]_vars
               PROVE  RevertIsExact'
    OBVIOUS
  <2>1. HistoryInv /\ RequestInv /\ ScenarioInv
    BY DEF AnalysisInv
  <2>2. CASE Simulate
    <3> DEFINE scenario == Head(scenarios)
               ids == IdsOf(scenario)
               c == Chronological(history)
               t == Intervened(history, ids[1])
               d == Chronological(t)
               p == Place(c, ids[1])
    <3>1. /\ simulation'.base = history /\ simulation'.ids = ids
          /\ simulation'.store = Stores(history, ids)[Len(ids)]
      BY <2>1, <2>2, SimulatedStore
    <3>2. /\ scenario = scenarios[1] /\ 1 \in 1..Len(scenarios)
          /\ Len(ids) = Len(scenario) /\ Len(ids) \in Nat
          /\ \A k \in 1..Len(ids) : ids[k] = scenario[k].id
      BY <2>1, <2>2, HeadScenario
    <3>3. delayed' = delayed /\ history \in Seq(Records)
      BY <2>1, <2>2 DEF Simulate, HistoryInv
    <3> HIDE DEF scenario, ids
    <3>4. ASSUME ~delayed, DistinctRuns(history), Len(ids) = 1
          PROVE  /\ simulation'.store = t
                 /\ p \in 1..Len(c) /\ p - 1 \in 1..Len(c)
                 /\ d[p] = Reverted(c[p], Details(c[p - 1], c[p]))
                 /\ \A i \in 1..Len(c) : i # p => d[i] = c[i]
      <4>1. AllSeen(scenario, c)
        BY <2>1, <3>2, <3>4 DEF ScenarioInv
      <4>2. 1 \in 1..Len(ids) /\ SeenIn(c, ids[1])
        BY <3>2, <3>4, <4>1 DEF AllSeen
      <4>3. StoresTo(Stores(history, ids), history, ids, Len(ids))
        BY <3>2, StoresUnfold
      <4>4. Stores(history, ids)[1] = t
        <5> DEFINE f == Stores(history, ids)
                   n == Len(ids)
        <5>1. StoresTo(f, history, ids, n) /\ n \in Nat /\ 0 + 1 <= n /\ 0 \in Nat
          BY <3>2, <3>4, <4>3
        <5> HIDE DEF f, n
        <5>2. f[0] = history /\ f[0 + 1] = Intervened(f[0], ids[0 + 1])
          BY <5>1, StoreAt
        <5> QED
          BY <5>2 DEF f
      <4>5. c \in Seq(Records) /\ DistinctRuns(c)
        BY <3>3, <3>4, InOrderOfTime, ChronologicalRuns
      <4>6. p \in 1..Len(c) /\ c[p].run = ids[1][1]
        BY <4>2, <4>5, PlaceIs
      <4>7. FoundIn(history, ids[1]) # {}
        BY <3>3, <4>2, FoundIfSeen
      <4> DEFINE id == ids[1]
                 q == p
      <4>8. q \in 1..Len(c) /\ c[q].run = id[1]
        BY <4>6
      <4> HIDE DEF id, q
      <4>9. /\ q - 1 \in 1..Len(c)
            /\ Chronological(Intervened(history, id))[q] = Reverted(c[q], Details(c[q - 1], c[q]))
            /\ \A i \in 1..Len(c) : i # q => Chronological(Intervened(history, id))[i] = c[i]
        BY <3>3, <4>5, <4>7, <4>8, FoundAt DEF id
      <4> QED
        BY <3>1, <3>4, <4>4, <4>6, <4>9 DEF id, q
    <3>5. Len(c) = Len(history) /\ c \in Seq(Records)
      BY <3>3, InOrderOfTime
    <3>6. ASSUME ~delayed, DistinctRuns(history), Len(ids) = 1,
                 c[p].info = c[p - 1].info \/ BothDicts(c[p - 1], c[p]), NEW f \in Fields
          PROVE  d[p][f] = c[p - 1][f]
      <4>1. p \in 1..Len(c) /\ p - 1 \in 1..Len(c)
            /\ d[p] = Reverted(c[p], Details(c[p - 1], c[p]))
        BY <3>4, <3>6
      <4> DEFINE a == c[p - 1]
                 b == c[p]
      <4>2. a \in Records /\ a.info # EMPTY /\ a.info # NONE
        BY <2>1, <3>5, <4>1, NoEmptyInfo
      <4>3. b \in Records /\ b.info # EMPTY /\ b.info # NONE
        BY <2>1, <3>5, <4>1, NoEmptyInfo
      <4>4. b.info = a.info \/ BothDicts(a, b)
        BY <3>6
      <4> HIDE DEF a, b
      <4>5. Reverted(b, Details(a, b))[f] = a[f]
        BY <4>2, <4>3, <4>4, RevertGoesBack
      <4> QED
        BY <4>1, <4>5 DEF a, b
    <3>7. DOMAIN c = 1..Len(c)
      BY <3>5
    <3> HIDE DEF c, d, p, t
    <3>8. SUFFICES ASSUME ~delayed, DistinctRuns(history), Len(ids) = 1
                   PROVE  /\ \A i \in DOMAIN c : i # p => Chronological(simulation'.store)[i] = c[i]
                          /\ c[p].info = c[p - 1].info \/ BothDicts(c[p - 1], c[p]) =>
                                 \A f \in Fields : Chronological(simulation'.store)[p][f] = c[p - 1][f]
      BY <3>1, <3>3 DEF RevertIsExact, c, p
    <3>9. Chronological(simulation'.store) = d
      BY <3>4, <3>8 DEF d
    <3> QED
      BY <3>4, <3>6, <3>7, <3>8, <3>9
  <2>3. CASE ~Simulate
    <3>1. simulation' = simulation /\ (~delayed' => ~delayed)
      BY <2>1, <2>3, SimulationKept
    <3> QED
      BY <3>1 DEF RevertIsExact
  <2> QED
    BY <2>2, <2>3
<1> QED
  BY <1>1, <1>2, AnalysisInvariant, PTL DEF Spec
=============================================================================
