----------------------- MODULE OptimizationLoop_proofs -----------------------
(***************************************************************************)
(* Proofs about OptimizationLoop, for every history, clock and policy.     *)
(*                                                                         *)
(* CooldownRespected is not inductive: the cooldown check subtracts the    *)
(* stamp of an entry only if it has one, so the induction also needs that  *)
(* every approved entry is stamped (ApprovedIsStamped).                    *)
(***************************************************************************)
EXTENDS OptimizationLoop, FiniteSetTheorems, TLAPS

ApprovedIsStamped ==
    \A i \in DOMAIN history : IsApproved(i) => history[i].at # NoStamp

IInv == TypeOK /\ ApprovedIsStamped /\ CooldownRespected /\ FlappingBounded
-----------------------------------------------------------------------------
(* A cycle appends one entry, of an action it selected: either blocked, or *)
(* approved after both checks passed.                                      *)
LEMMA CycleAppends ==
    ASSUME TypeOK, NEW track \in Tracks, NEW factors \in Attributions,
           Cycle(track, factors)
    PROVE  \E e \in Entries, t2, t3 \in 0..MaxTime :
             /\ history' = Append(history, e)
             /\ now <= t2 /\ t2 <= t3
             /\ now' = t3
             /\ UNCHANGED setBacks
             /\ \/ e.status = "blocked_by_guardrail"
                \/ /\ e.status = "approved"
                   /\ e.at = t3
                   /\ ~CoolingDown(e.sig, now)
                   /\ ~Flapping(t2)
<1> USE LoopConstants
<1>1. PICK change \in Selectable(factors),
           t2 \in now..(now + MaxCycleTime), t3 \in now..(now + MaxCycleTime) :
        LET sig == [type |-> ActionType(track), change |-> change] IN
        /\ t2 <= t3 /\ t3 <= MaxTime
        /\ Blocked(sig, now, t2) \/ Approved(sig, now, t2, t3)
        /\ now' = t3
  BY DEF Cycle
<1> DEFINE sig == [type |-> ActionType(track), change |-> change]
<1>2. /\ now \in 0..MaxTime
      /\ t2 \in 0..MaxTime
      /\ t3 \in 0..MaxTime
      /\ now <= t2 /\ t2 <= t3
  BY <1>1 DEF TypeOK
<1>3. change \in Changes
  BY DEF Selectable, Attributions
<1>4. ActionType(track) \in ActionTypes
  BY DEF ActionType, ActionTypes
<1>5. sig \in Signatures
  BY <1>3, <1>4 DEF Signatures
<1>6. UNCHANGED setBacks
  BY DEF Cycle
<1>7. CASE Blocked(sig, now, t2)
  <2> DEFINE e == [sig |-> sig, at |-> NoStamp, status |-> "blocked_by_guardrail",
                   rule |-> RuleViolated(sig, now, t2), checked |-> now]
  <2>1. RuleViolated(sig, now, t2) \in Rules
    BY DEF RuleViolated, Rules
  <2>2. e \in Entries
    BY <1>2, <1>5, <2>1 DEF Entries, Statuses
  <2>3. history' = Append(history, e)
    BY <1>7 DEF Blocked
  <2>4. e.status = "blocked_by_guardrail"
    OBVIOUS
  <2> HIDE DEF e
  <2>5. QED
    BY <1>1, <1>2, <1>6, <2>2, <2>3, <2>4
<1>8. CASE Approved(sig, now, t2, t3)
  <2> DEFINE e == [sig |-> sig, at |-> t3, status |-> "approved",
                   rule |-> "none", checked |-> t3]
  <2>1. e \in Entries
    BY <1>2, <1>5 DEF Entries, Statuses, Rules
  <2>2. history' = Append(history, e)
    BY <1>8 DEF Approved
  <2>3. ~CoolingDown(sig, now) /\ ~Flapping(t2)
    BY <1>8 DEF Approved, RuleViolated
  <2>4. e.status = "approved" /\ e.at = t3 /\ e.sig = sig
    OBVIOUS
  <2> HIDE DEF e, sig
  <2>5. ~CoolingDown(e.sig, now) /\ ~Flapping(t2)
    BY <2>3, <2>4
  <2>6. QED
    BY <1>1, <1>2, <1>6, <2>1, <2>2, <2>4, <2>5
<1>9. QED
  BY <1>1, <1>7, <1>8

(* Appending keeps the earlier entries and adds the new one at the end.    *)
LEMMA Appended ==
    ASSUME history \in Seq(Entries), NEW e \in Entries,
           history' = Append(history, e)
    PROVE  /\ history' \in Seq(Entries)
           /\ Len(history) \in Nat
           /\ DOMAIN history = 1..Len(history)
           /\ DOMAIN history' = 1..(Len(history) + 1)
           /\ \A i \in 1..Len(history) : history'[i] = history[i]
           /\ history'[Len(history) + 1] = e
OBVIOUS

LEMMA InitIInv == Init => IInv
BY LoopConstants DEF Init, IInv, TypeOK, ApprovedIsStamped, CooldownRespected,
                     FlappingBounded

(* The type invariant is inductive.                                        *)
LEMMA StepTypeOK == TypeOK /\ [Next]_vars => TypeOK'
<1> SUFFICES ASSUME TypeOK, [Next]_vars PROVE TypeOK'
  OBVIOUS
<1> USE LoopConstants
<1>1. ASSUME NEW track \in Tracks, NEW factors \in Attributions,
             Cycle(track, factors)
      PROVE  TypeOK'
  BY <1>1, CycleAppends, Appended DEF TypeOK
<1>2. CASE Tick
  BY <1>2 DEF Tick, TypeOK
<1>3. CASE SetBack
  BY <1>3 DEF SetBack, TypeOK
<1>4. CASE UNCHANGED vars
  BY <1>4 DEF vars, TypeOK
<1>5. QED
  BY <1>1, <1>2, <1>3, <1>4 DEF Next

(* Every approved entry keeps the time it was stamped with.                *)
LEMMA StepStamped == IInv /\ [Next]_vars => ApprovedIsStamped'
<1> SUFFICES ASSUME IInv, [Next]_vars PROVE ApprovedIsStamped'
  OBVIOUS
<1>1. ASSUME NEW track \in Tracks, NEW factors \in Attributions,
             Cycle(track, factors)
      PROVE  ApprovedIsStamped'
  <2>1. PICK e \in Entries, t3 \in 0..MaxTime :
          /\ history' = Append(history, e)
          /\ e.status = "blocked_by_guardrail" \/ e.at = t3
    BY <1>1, CycleAppends DEF IInv
  <2>2. e.status = "approved" => e.at # NoStamp
    BY <2>1, LoopConstants DEF NoStamp
  <2>3. QED
    BY <2>1, <2>2, Appended DEF IInv, TypeOK, ApprovedIsStamped, IsApproved
<1>2. CASE UNCHANGED history
  BY <1>2 DEF IInv, ApprovedIsStamped, IsApproved
<1>3. QED
  BY <1>1, <1>2 DEF Next, Tick, SetBack, vars

(* The pair that a new approval completes is apart by the cooldown: the    *)
(* check passed at now, and the approval is stamped at now or later.       *)
LEMMA StepCooldown == IInv /\ [Next]_vars => CooldownRespected'
<1> SUFFICES ASSUME IInv, [Next]_vars PROVE CooldownRespected'
  OBVIOUS
<1> USE LoopConstants
<1>1. ASSUME NEW track \in Tracks, NEW factors \in Attributions,
             Cycle(track, factors)
      PROVE  CooldownRespected'
  <2>1. PICK e \in Entries, t2 \in 0..MaxTime, t3 \in 0..MaxTime :
          /\ history' = Append(history, e)
          /\ now <= t2 /\ t2 <= t3
          /\ \/ e.status = "blocked_by_guardrail"
             \/ e.status = "approved" /\ e.at = t3 /\ ~CoolingDown(e.sig, now)
    BY <1>1, CycleAppends DEF IInv
  <2> DEFINE n == Len(history)
  <2>2. /\ n \in Nat
        /\ DOMAIN history = 1..n
        /\ DOMAIN history' = 1..(n + 1)
        /\ \A i \in 1..n : history'[i] = history[i]
        /\ history'[n + 1] = e
    BY <2>1, Appended DEF IInv, TypeOK
  <2>3. \A i \in 1..n : history[i] \in Entries
    BY <2>2 DEF IInv, TypeOK
  <2> HIDE DEF n
  <2> SUFFICES ASSUME NEW i \in 1..(n + 1), NEW j \in 1..(n + 1), i < j,
                      history'[i].status = "approved",
                      history'[j].status = "approved",
                      history'[i].sig = history'[j].sig
               PROVE  history'[j].at - history'[i].at >= Cooldown
    BY <2>2 DEF CooldownRespected, IsApproved, Gap
  <2>4. i \in 1..n /\ history'[i] = history[i]
    BY <2>2
  <2>5. CASE j = n + 1
    <3>1. e.at = t3 /\ ~CoolingDown(e.sig, now)
      BY <2>1, <2>2, <2>5
    <3>2. Elapsed(history[i], now) >= Cooldown
      <4>1. ~(Elapsed(history[i], now) < Cooldown)
        BY <2>2, <2>4, <2>5, <3>1 DEF CoolingDown
      <4>2. Elapsed(history[i], now) \in Int
        BY <2>3, <2>4, SMTT(30) DEF Elapsed, IInv, TypeOK, Entries, NoStamp
      <4>3. QED
        BY <4>1, <4>2
    <3>3. history[i].at # NoStamp
      BY <2>2, <2>4 DEF IInv, ApprovedIsStamped, IsApproved
    <3>4. now - history[i].at >= Cooldown
      BY <3>2, <3>3 DEF Elapsed
    <3>5. history[i].at \in Int
      BY <2>3, <2>4 DEF Entries, NoStamp
    <3>6. QED
      BY <2>1, <2>2, <2>4, <2>5, <3>1, <3>4, <3>5 DEF IInv, TypeOK
  <2>6. CASE j # n + 1
    <3>1. j \in 1..n /\ history'[j] = history[j]
      BY <2>2, <2>6
    <3>2. QED
      BY <2>2, <2>4, <3>1 DEF IInv, CooldownRespected, IsApproved, Gap
  <2>7. QED
    BY <2>5, <2>6
<1>2. CASE UNCHANGED history
  BY <1>2 DEF IInv, CooldownRespected, IsApproved, Gap
<1>3. QED
  BY <1>1, <1>2 DEF Next, Tick, SetBack, vars

(* The approvals within the window of a new one are entries the flapping   *)
(* check counted, and that count was below the maximum.                    *)
LEMMA StepFlapping == IInv /\ [Next]_vars => FlappingBounded'
<1> SUFFICES ASSUME IInv, [Next]_vars PROVE FlappingBounded'
  OBVIOUS
<1> USE LoopConstants
<1>1. ASSUME NEW track \in Tracks, NEW factors \in Attributions,
             Cycle(track, factors)
      PROVE  FlappingBounded'
  <2>1. PICK e \in Entries, t2 \in 0..MaxTime, t3 \in 0..MaxTime :
          /\ history' = Append(history, e)
          /\ t2 <= t3
          /\ \/ e.status = "blocked_by_guardrail"
             \/ e.status = "approved" /\ e.at = t3 /\ ~Flapping(t2)
    BY <1>1, CycleAppends DEF IInv
  <2> DEFINE n == Len(history)
  <2>2. /\ n \in Nat
        /\ DOMAIN history = 1..n
        /\ DOMAIN history' = 1..(n + 1)
        /\ \A i \in 1..n : history'[i] = history[i]
        /\ history'[n + 1] = e
    BY <2>1, Appended DEF IInv, TypeOK
  <2>3. \A i \in 1..n : history[i] \in Entries
    BY <2>2 DEF IInv, TypeOK
  <2> HIDE DEF n
  <2> DEFINE near(j) == {i \in 1..(j - 1) :
                           history'[i].status = "approved"
                           /\ history'[j].at - history'[i].at <= Window}
  <2> SUFFICES ASSUME NEW j \in 1..(n + 1), history'[j].status = "approved"
               PROVE  Cardinality(near(j)) < MaxFlapping
    BY <2>2 DEF FlappingBounded, IsApproved, Gap
  <2>4. CASE j = n + 1
    <3> DEFINE counted == {i \in DOMAIN history : Elapsed(history[i], t2) <= Window}
    <3>1. e.at = t3 /\ ~Flapping(t2)
      BY <2>1, <2>2, <2>4
    <3>2. ~(Cardinality(counted) >= MaxFlapping)
      BY <3>1 DEF Flapping
    <3>3. near(j) \subseteq counted
      <4> SUFFICES ASSUME NEW i \in 1..n, history[i].status = "approved",
                          t3 - history[i].at <= Window
                   PROVE  Elapsed(history[i], t2) <= Window
        BY <2>2, <2>4, <3>1
      <4>1. history[i].at \in Int
        BY <2>3 DEF Entries, NoStamp
      <4>2. history[i].at # NoStamp
        BY <2>2 DEF IInv, ApprovedIsStamped, IsApproved
      <4>3. QED
        BY <2>1, <4>1, <4>2 DEF Elapsed
    <3>4. IsFiniteSet(counted)
      <4>1. IsFiniteSet(1..n)
        BY <2>2, FS_Interval
      <4>2. counted \subseteq 1..n
        BY <2>2
      <4>3. QED
        BY <4>1, <4>2, FS_Subset
    <3> HIDE DEF counted, near
    <3>5. Cardinality(near(j)) <= Cardinality(counted)
      BY <3>3, <3>4, FS_Subset
    <3>6. Cardinality(counted) \in Nat /\ Cardinality(near(j)) \in Nat
      BY <3>3, <3>4, FS_Subset, FS_CardinalityType
    <3>7. QED
      BY <3>2, <3>5, <3>6
  <2>5. CASE j # n + 1
    <3>1. j \in 1..n /\ history'[j] = history[j]
      BY <2>2, <2>5
    <3>2. near(j) = {i \in 1..(j - 1) : IsApproved(i) /\ Gap(i, j) <= Window}
      BY <2>2, <3>1 DEF IsApproved, Gap
    <3>3. QED
      BY <2>2, <3>1, <3>2 DEF IInv, FlappingBounded, IsApproved
  <2>6. QED
    BY <2>4, <2>5
<1>2. CASE UNCHANGED history
  BY <1>2 DEF IInv, FlappingBounded, IsApproved, Gap
<1>3. QED
  BY <1>1, <1>2 DEF Next, Tick, SetBack, vars

LEMMA StepIInv == IInv /\ [Next]_vars => IInv'
BY StepTypeOK, StepStamped, StepCooldown, StepFlapping DEF IInv

LEMMA Invariance == Spec => []IInv
BY InitIInv, StepIInv, PTL DEF Spec
-----------------------------------------------------------------------------
(* Two approvals of the same action are apart by the cooldown, whatever    *)
(* policy.py blocked in between and however the clock moved.               *)
THEOREM CooldownHolds == Spec => []CooldownRespected
<1>1. IInv => CooldownRespected
  BY DEF IInv
<1>2. QED
  BY <1>1, Invariance, PTL

(* No approval completes more than MaxFlapping approvals in its window.    *)
THEOREM FlappingHolds == Spec => []FlappingBounded
<1>1. IInv => FlappingBounded
  BY DEF IInv
<1>2. QED
  BY <1>1, Invariance, PTL

(* The history only ever holds well-formed entries.                        *)
THEOREM TypeCorrect == Spec => []TypeOK
<1>1. IInv => TypeOK
  BY DEF IInv
<1>2. QED
  BY <1>1, Invariance, PTL
=============================================================================
