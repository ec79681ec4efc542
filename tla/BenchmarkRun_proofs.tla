------------------------- MODULE BenchmarkRun_proofs -------------------------
(***************************************************************************)
(* Proofs about the connection pool, for any number of users and of calls  *)
(* of close_pool, and about a benchmark over it, for any queries, limits   *)
(* and faults.                                                             *)
(***************************************************************************)
EXTENDS BenchmarkRun, FiniteSetTheorems, TLAPS

-----------------------------------------------------------------------------
(* The pool.                                                               *)

(* Whoever creates a pool holds the lock, and there is no pool yet: nobody *)
(* else sets _pool.                                                        *)
LockOK ==
    /\ \A u \in Users : user[u] = "create" => lock = u /\ pool = NONE_POOL
    /\ pool # NONE_POOL => pools[pool] # "none"

(* Until one call of close_pool has returned, the pool of every other one  *)
(* is still _pool.                                                         *)
ClosingOK ==
    \A c \in Closers : closer[c] = "closing" =>
        /\ closes[c] # NONE_POOL
        /\ pools[closes[c]] \in {"closing", "closed"}
        /\ Finished = {} => closes[c] = pool

PoolInv == PoolTypeOK /\ LockOK /\ ClosingOK /\ FewOrphans

LEMMA PoolInitInv == PoolInit => PoolInv
BY PoolConstants DEF PoolInit, PoolInv, PoolTypeOK, LockOK, ClosingOK, FewOrphans, Orphans, Finished,
    NONE_POOL, Numbers

(* The sets that FewOrphans compares are finite.                           *)
LEMMA FiniteSets ==
  ASSUME PoolTypeOK
  PROVE  /\ IsFiniteSet(Orphans) /\ Cardinality(Orphans) \in Nat
         /\ IsFiniteSet(Finished) /\ Cardinality(Finished) \in Nat
<1>1. IsFiniteSet(Numbers)
  BY FS_Interval, PoolConstants DEF Numbers
<1>2. IsFiniteSet(Orphans)
  BY <1>1, FS_Subset DEF Orphans
<1>3. IsFiniteSet(Finished)
  BY FS_Subset, PoolConstants DEF Finished
<1> QED
  BY <1>2, <1>3, FS_CardinalityType

(* A step that touches neither a pool nor a closer.                        *)
LEMMA UserStep ==
  ASSUME PoolInv, PoolTypeOK', UNCHANGED <<pool, pools, closer, closes>>
  PROVE  ClosingOK' /\ FewOrphans'
<1>1. Orphans' = Orphans /\ Finished' = Finished
  BY DEF Orphans, Finished
<1> QED
  BY <1>1 DEF PoolInv, ClosingOK, FewOrphans

LEMMA RequestInv == ASSUME PoolInv, NEW u \in Users, Request(u) PROVE PoolInv'
<1>1. PoolTypeOK'
  BY PoolConstants DEF PoolInv, PoolTypeOK, Request
<1>2. LockOK'
  BY PoolConstants DEF PoolInv, PoolTypeOK, LockOK, Request, NONE_POOL
<1> QED
  BY <1>1, <1>2, UserStep DEF Request, PoolInv

LEMMA LockedInv == ASSUME PoolInv, NEW u \in Users, Locked(u) PROVE PoolInv'
<1>1. PoolTypeOK'
  BY PoolConstants DEF PoolInv, PoolTypeOK, Locked
<1>2. LockOK'
  BY PoolConstants DEF PoolInv, PoolTypeOK, LockOK, Locked, NONE_POOL
<1> QED
  BY <1>1, <1>2, UserStep DEF Locked, PoolInv

(* The steps of a user that leave the pool, the lock and the closers alone. *)
LEMMA ConnectionInv ==
  ASSUME PoolInv, NEW u \in Users,
         Acquire(u) \/ Release(u) \/ UseFails(u) \/ Catch(u)
  PROVE  PoolInv'
<1>1. PoolTypeOK'
  BY DEF PoolInv, PoolTypeOK, Acquire, Release, UseFails, Catch, NONE_POOL
<1>2. LockOK'
  BY DEF PoolInv, PoolTypeOK, LockOK, Acquire, Release, UseFails, Catch
<1> QED
  BY <1>1, <1>2, UserStep DEF Acquire, Release, UseFails, Catch, PoolInv

LEMMA CreateFailsInv == ASSUME PoolInv, NEW u \in Users, CreateFails(u) PROVE PoolInv'
<1>1. PoolTypeOK'
  BY DEF PoolInv, PoolTypeOK, CreateFails
<1>2. LockOK'
  BY DEF PoolInv, PoolTypeOK, LockOK, CreateFails
<1> QED
  BY <1>1, <1>2, UserStep DEF CreateFails, PoolInv

(* A new pool becomes _pool, and there was none: no pool is forgotten.     *)
LEMMA CreateInv == ASSUME PoolInv, NEW u \in Users, Create(u) PROVE PoolInv'
<1>1. PICK n \in Numbers \ Created :
         pools' = [pools EXCEPT ![n] = "open"] /\ pool' = n /\ got' = [got EXCEPT ![u] = n]
  BY DEF Create
<1>2. pools[n] = "none" /\ n # NONE_POOL /\ pool = NONE_POOL
  BY PoolConstants DEF Created, PoolInv, LockOK, Create, Numbers, NONE_POOL
<1>3. PoolTypeOK'
  BY <1>1 DEF PoolInv, PoolTypeOK, Create
<1>4. LockOK'
  BY <1>1, <1>2 DEF PoolInv, PoolTypeOK, LockOK, Create
<1>5. Orphans' = Orphans /\ Finished' = Finished
  BY <1>1, <1>2 DEF Orphans, Finished, PoolInv, PoolTypeOK, Create, Numbers, NONE_POOL
<1>6. ClosingOK'
  <2> SUFFICES ASSUME NEW c \in Closers, closer'[c] = "closing"
               PROVE  /\ closes'[c] # NONE_POOL
                      /\ pools'[closes'[c]] \in {"closing", "closed"}
                      /\ Finished' = {} => closes'[c] = pool'
    BY DEF ClosingOK
  <2>1. closes' = closes /\ closer' = closer
    BY DEF Create
  <2>2. /\ closes[c] # NONE_POOL /\ pools[closes[c]] \in {"closing", "closed"}
        /\ Finished # {}
    BY <1>2, <2>1 DEF PoolInv, ClosingOK
  <2>3. closes[c] # n /\ closes[c] \in Numbers
    BY <1>2, <2>2 DEF PoolInv, PoolTypeOK
  <2> QED
    BY <1>1, <1>5, <2>1, <2>2, <2>3 DEF PoolInv, PoolTypeOK
<1>7. FewOrphans'
  BY <1>5 DEF PoolInv, FewOrphans
<1> QED
  BY <1>3, <1>4, <1>6, <1>7 DEF PoolInv

LEMMA CloseInv == ASSUME PoolInv, NEW c \in Closers, Close(c) PROVE PoolInv'
<1>1. PoolTypeOK'
  BY DEF PoolInv, PoolTypeOK, Close, NONE_POOL
<1>2. LockOK'
  BY DEF PoolInv, PoolTypeOK, LockOK, Close, NONE_POOL
<1>3. Orphans' = Orphans /\ Finished' = Finished
  BY DEF Orphans, Finished, PoolInv, PoolTypeOK, Close
<1>4. ClosingOK'
  <2>1. pool # NONE_POOL => pools'[pool] \in {"closing", "closed"}
    BY DEF PoolInv, PoolTypeOK, LockOK, Close, NONE_POOL
  <2> QED
    BY <1>3, <2>1 DEF PoolInv, PoolTypeOK, ClosingOK, Close
<1>5. FewOrphans'
  BY <1>3 DEF PoolInv, FewOrphans
<1> QED
  BY <1>1, <1>2, <1>4, <1>5 DEF PoolInv

(* The call that returns first closed the pool it resets; a later one may  *)
(* forget one other pool.                                                  *)
LEMMA ClosedInv == ASSUME PoolInv, NEW c \in Closers, Closed(c) PROVE PoolInv'
<1> USE DEF PoolInv
<1>1. PoolTypeOK'
  BY DEF PoolTypeOK, Closed
<1>2. LockOK'
  BY DEF PoolTypeOK, LockOK, Closed
<1>3. c \notin Finished /\ Finished' = Finished \cup {c}
  BY DEF PoolTypeOK, ClosingOK, Finished, Closed
<1>4. ClosingOK'
  BY <1>3 DEF PoolTypeOK, ClosingOK, Closed
<1>5. Orphans' \subseteq Orphans \cup {pool}
  BY DEF Orphans, PoolTypeOK, Closed
<1>6. Finished = {} => Orphans' = Orphans
  <2>1. Orphans \subseteq Orphans'
    BY DEF Orphans, PoolTypeOK, ClosingOK, Closed, Numbers, NONE_POOL
  <2>2. closes[c] = pool => pool \notin Orphans'
    BY DEF Orphans, PoolTypeOK, Closed
  <2> QED
    BY <1>5, <2>1, <2>2 DEF ClosingOK, Closed
<1>7. FewOrphans'
  <2>1. IsFiniteSet(Orphans) /\ IsFiniteSet(Finished)
        /\ Cardinality(Orphans) \in Nat /\ Cardinality(Finished) \in Nat
    BY FiniteSets
  <2>2. Cardinality(Finished') = Cardinality(Finished) + 1
    BY <1>3, <2>1, FS_AddElement
  <2>3. IsFiniteSet(Orphans \cup {pool})
        /\ Cardinality(Orphans \cup {pool}) <= Cardinality(Orphans) + 1
    <3>1. Cardinality({pool}) = 1 /\ IsFiniteSet({pool})
      BY FS_Singleton
    <3>2. Cardinality(Orphans \cap {pool}) \in Nat
      BY <3>1, FS_Subset, FS_CardinalityType
    <3> QED
      BY <2>1, <3>1, <3>2, FS_Union
  <2>4. Cardinality(Orphans') <= Cardinality(Orphans) + 1 /\ Cardinality(Orphans') \in Nat
    <3>1. IsFiniteSet(Orphans')
          /\ Cardinality(Orphans') <= Cardinality(Orphans \cup {pool})
      BY <1>5, <2>3, FS_Subset
    <3> QED
      BY <3>1, <2>1, <2>3, FS_CardinalityType
  <2>5. CASE Finished = {}
    BY <1>6, <2>1, <2>5, FS_EmptySet DEF FewOrphans
  <2>6. CASE Finished # {} /\ Orphans = {}
    <3>1. Cardinality(Finished) # 0 /\ Cardinality(Orphans) = 0
      BY <2>1, <2>6, FS_EmptySet
    <3> QED
      BY <3>1, <2>1, <2>2, <2>4 DEF FewOrphans
  <2>7. CASE Orphans # {}
    BY <2>1, <2>2, <2>4, <2>7 DEF FewOrphans
  <2> QED
    BY <2>5, <2>6, <2>7
<1> QED
  BY <1>1, <1>2, <1>4, <1>7

LEMMA PoolNextInv == PoolInv /\ [PoolNext]_poolVars => PoolInv'
<1> SUFFICES ASSUME PoolInv, [PoolNext]_poolVars PROVE PoolInv'
  OBVIOUS
<1>1. CASE UNCHANGED poolVars
  BY <1>1 DEF poolVars, PoolInv, PoolTypeOK, LockOK, ClosingOK, FewOrphans, Orphans, Finished
<1>2. ASSUME NEW u \in Users, Request(u) \/ PoolStep(u) \/ CreateFails(u)
                              \/ Release(u) \/ UseFails(u) \/ Catch(u)
      PROVE  PoolInv'
  BY <1>2, RequestInv, LockedInv, CreateInv, CreateFailsInv, ConnectionInv DEF PoolStep
<1>3. ASSUME NEW c \in Closers, Close(c) \/ Closed(c)
      PROVE  PoolInv'
  BY <1>3, CloseInv, ClosedInv
<1> QED
  BY <1>1, <1>2, <1>3 DEF PoolNext

(* However get_pool, close_pool and uses of connections interleave, fewer  *)
(* pools are forgotten than calls of close_pool have closed one; one call  *)
(* alone forgets none.                                                     *)
THEOREM PoolForgetsFew == PoolSpec => []FewOrphans
<1>1. PoolInv => FewOrphans
  BY DEF PoolInv
<1> QED
  BY <1>1, PoolInitInv, PoolNextInv, PTL DEF PoolSpec
-----------------------------------------------------------------------------
(* The benchmark over the pool.                                            *)

LEMMA NextIsPoolNext == Next => PoolNext \/ UNCHANGED poolVars
<1> SUFFICES ASSUME Next PROVE PoolNext \/ UNCHANGED poolVars
  OBVIOUS
<1>1. Bench \in Users /\ Final \in Closers
  BY BenchmarkConstants
<1>2. ASSUME BenchSteps PROVE PoolNext \/ UNCHANGED poolVars
  <2>1. CASE Start \/ CacheHit \/ CallFails \/ Plan \/ Embed \/ Complete \/ Reflect \/ Validate
    BY <2>1 DEF Start, CacheHit, CallFails, Plan, Embed, Complete, Reflect, Validate
  <2>2. CASE Connect \/ Search \/ SearchFails \/ Prepare \/ Record \/ RecordFails
    BY <1>1, <2>2 DEF Connect, Search, SearchFails, Prepare, Record, RecordFails, PoolNext
  <2>3. CASE Finally
    BY <1>1, <2>3 DEF Finally, PoolNext
  <2> QED
    BY <1>2, <2>1, <2>2, <2>3 DEF BenchSteps
<1>3. ASSUME Expire \/ OthersCache PROVE UNCHANGED poolVars
  BY <1>3 DEF Expire, OthersCache
<1>4. ASSUME NEW u \in Users, PoolWorks(u) \/ DatabaseFails(u) \/ Probe(u) \/ ProbeEnds(u)
      PROVE  PoolNext
  BY <1>4 DEF PoolWorks, DatabaseFails, Probe, ProbeEnds, PoolNext
<1>5. ASSUME NEW c \in Closers, Signal(c) \/ Shutdown(c)
      PROVE  PoolNext
  BY <1>5 DEF Signal, Shutdown, PoolNext
<1> QED
  BY <1>2, <1>3, <1>4, <1>5 DEF Next

LEMMA StepIsPoolStep == [Next]_vars => [PoolNext]_poolVars
BY NextIsPoolNext DEF vars

(* A benchmark, its probes and its shutdowns use the pool as any users and *)
(* closers do.                                                             *)
THEOREM UsesPool == Spec => PoolSpec
<1>1. Init => PoolInit
  BY DEF Init
<1> QED
  BY <1>1, StepIsPoolStep, PTL DEF Spec, PoolSpec

(* So that what holds of the pool holds of it: the shutdowns of one run,   *)
(* by signals and at its end, forget fewer pools than they close.          *)
THEOREM FewOrphansHold == Spec => []FewOrphans
BY UsesPool, PoolForgetsFew, PTL
-----------------------------------------------------------------------------
(* final_confidence.                                                       *)

InAnswer == {"plan", "embed", "search", "complete", "reflect", "validate"}

(* What the last verdict is about, at each await of an execution: before a *)
(* new synthesis the answer it judged is the latest, behind one it is the  *)
(* one before, and there is none behind a sufficient one.                  *)
VerdictOK ==
    /\ answer \in Nat /\ judged \in Nat /\ reflections \in 0..MaxReflections
    /\ stage \in InAnswer \cup {"start", "prepare", "record", "end"}
    /\ (stage \in InAnswer /\ reflections > 0) => Pipeline # "NaiveRAG"
    /\ (stage \in {"plan", "embed", "search", "complete"} /\ reflections > 0) =>
          ~sufficient /\ judged = answer
    /\ (stage = "reflect" /\ reflections > 0) => ~sufficient /\ judged = answer - 1
    /\ stage = "reflect" => reflections < MaxReflections /\ Pipeline # "NaiveRAG"
    /\ ConfidenceIsOfAnswer

LEMMA InitVerdict == Init => VerdictOK
BY BenchmarkConstants DEF Init, VerdictOK, InAnswer, ConfidenceIsOfAnswer

LEMMA BenchVerdict == ASSUME VerdictOK, BenchSteps PROVE VerdictOK'
<1> USE BenchmarkConstants DEF VerdictOK, InAnswer, ConfidenceIsOfAnswer
<1>1. CASE Start \/ CacheHit
  BY <1>1 DEF Start, CacheHit
<1>2. CASE CallFails
  BY <1>2 DEF CallFails, AwaitsLLM, Pipeline
<1>3. CASE Plan \/ Embed
  BY <1>3 DEF Plan, Embed, Pipeline
<1>4. CASE Connect
  BY <1>4 DEF Connect, benchVars, executionVars, Pipeline
<1>5. CASE Search \/ SearchFails
  BY <1>5 DEF Search, SearchFails, Searched, Pipeline
<1>6. CASE Complete
  BY <1>6 DEF Complete, Pipeline
<1>7. CASE Reflect
  BY <1>7 DEF Reflect, Pipeline
<1>8. CASE Validate
  BY <1>8 DEF Validate, Proceed, executionVars, Pipeline
<1>9. CASE Prepare \/ Record \/ RecordFails
  BY <1>9 DEF Prepare, Record, RecordFails, Proceed, executionVars, Pipeline
<1>10. CASE Finally
  BY <1>10 DEF Finally, benchVars, executionVars, Pipeline
<1> QED
  BY <1>1, <1>2, <1>3, <1>4, <1>5, <1>6, <1>7, <1>8, <1>9, <1>10 DEF BenchSteps

(* Everything but the benchmark's own steps leaves the execution alone.    *)
LEMMA OthersLeaveExecution ==
  ASSUME [Next]_vars, ~BenchSteps
  PROVE  UNCHANGED <<next, stage, executionVars, rows>>
<1>1. CASE UNCHANGED vars
  BY <1>1 DEF vars, benchVars
<1>2. CASE Expire \/ OthersCache
  BY <1>2 DEF Expire, OthersCache
<1>3. ASSUME NEW u \in Users, PoolWorks(u) \/ DatabaseFails(u) \/ Probe(u) \/ ProbeEnds(u)
      PROVE  UNCHANGED <<next, stage, executionVars, rows>>
  BY <1>3 DEF PoolWorks, DatabaseFails, Probe, ProbeEnds, benchVars
<1>4. ASSUME NEW c \in Closers, Signal(c) \/ Shutdown(c)
      PROVE  UNCHANGED <<next, stage, executionVars, rows>>
  BY <1>4 DEF Signal, Shutdown, benchVars
<1> QED
  BY <1>1, <1>2, <1>3, <1>4 DEF Next

LEMMA VerdictPersists == VerdictOK /\ [Next]_vars => VerdictOK'
<1> SUFFICES ASSUME VerdictOK, [Next]_vars PROVE VerdictOK'
  OBVIOUS
<1>1. CASE BenchSteps
  BY <1>1, BenchVerdict
<1>2. CASE ~BenchSteps
  BY <1>2, OthersLeaveExecution DEF VerdictOK, ConfidenceIsOfAnswer, executionVars, Pipeline
<1> QED
  BY <1>1, <1>2

(* For any queries and limits, a confidence that found the answer          *)
(* sufficient is about the answer that is returned, and one that did not   *)
(* is about the answer before it.                                          *)
THEOREM ConfidenceHolds == Spec => []ConfidenceIsOfAnswer
<1>1. VerdictOK => ConfidenceIsOfAnswer
  BY DEF VerdictOK
<1> QED
  BY <1>1, VerdictPersists, InitVerdict, PTL DEF Spec
-----------------------------------------------------------------------------
(* The placeholder for an unreachable database.                            *)

(* Nobody began to close the pool.                                         *)
Calm == \A c \in Closers : closer[c] = "idle"

(* As long as it is calm every pool is open, and so is the one a user has. *)
PoolServes ==
    /\ \A n \in Numbers : pools[n] \in {"none", "open"}
    /\ \A u \in Users : user[u] = "acquire" => got[u] \in Numbers /\ pools[got[u]] = "open"

UsesPoolAt == {"search", "prepare", "record"}

(* Every trace of the placeholder, on its way from a failed search to a    *)
(* row: the exception, the context, the cache, the row.                    *)
Traced ==
    /\ (stage = "search" /\ user[Bench] = "failed") => next \in broken
    /\ (stage \notin {"start", "end"} /\ "placeholder" \in context) => Explained(next)
    /\ \A q \in Asked : "placeholder" \in cached[q] => Tainted(q)
    /\ \A row \in rows : "placeholder" \in row.context => Explained(row.run)

CauseOK ==
    /\ PoolInv
    /\ next \in Nat /\ DOMAIN cached = Asked
    /\ stage \notin UsesPoolAt => user[Bench] = "idle"
    /\ Calm => PoolServes /\ Traced

LEMMA InitCause == Init => CauseOK
<1> SUFFICES ASSUME Init PROVE CauseOK
  OBVIOUS
<1>1. PoolInv
  BY PoolInitInv DEF Init
<1>2. PoolServes /\ user[Bench] = "idle"
  BY BenchmarkConstants DEF Init, PoolInit, PoolServes
<1>3. \A q \in Asked : "placeholder" \in cached[q] => Tainted(q)
  BY DEF Init, Tainted, Placeholders
<1>4. Traced
  BY <1>2, <1>3 DEF Init, Traced
<1>5. DOMAIN cached = Asked
  BY DEF Init
<1> QED
  BY <1>1, <1>2, <1>4, <1>5 DEF Init, CauseOK

LEMMA QueryAsked == ASSUME next \in Nat PROVE Query \in Asked
<1>1. PICK S : Queries \in Seq(S)
  BY BenchmarkConstants
<1>2. Len(Queries) \in Nat \ {0} /\ DOMAIN Queries = 1..Len(Queries)
  BY <1>1, BenchmarkConstants
<1>3. (next - 1) % Len(Queries) \in 0..(Len(Queries) - 1)
  BY <1>2
<1> QED
  BY <1>2, <1>3 DEF Query, QueryOf, Asked

(* A calm state comes from calm states only.                               *)
LEMMA CalmBefore ==
  ASSUME PoolInv, [Next]_vars, Calm'
  PROVE  Calm
<1>1. [PoolNext]_poolVars
  BY StepIsPoolStep
<1>2. CASE UNCHANGED poolVars
  BY <1>2 DEF poolVars, Calm
<1>3. ASSUME NEW u \in Users, Request(u) \/ PoolStep(u) \/ CreateFails(u)
                              \/ Release(u) \/ UseFails(u) \/ Catch(u)
      PROVE  closer' = closer
  BY <1>3 DEF Request, PoolStep, Locked, Create, Acquire, CreateFails, Release, UseFails, Catch
<1>4. ASSUME NEW d \in Closers, Close(d) \/ Closed(d)
      PROVE  \A c \in Closers : closer'[c] = "idle" => closer[c] = "idle"
  BY <1>4 DEF Close, Closed, PoolInv, PoolTypeOK
<1> QED
  BY <1>1, <1>2, <1>3, <1>4 DEF PoolNext, Calm

(* Closing is not a calm step.                                             *)
LEMMA CalmCloses ==
  ASSUME PoolInv, Calm', NEW c \in Closers, Close(c) \/ Closed(c)
  PROVE  FALSE
BY DEF Calm, PoolInv, PoolTypeOK, Close, Closed

(* While it is calm, the pool hands out pools that are open.               *)
LEMMA CalmPool ==
  ASSUME PoolInv, PoolServes, Calm', [Next]_vars
  PROVE  PoolServes'
<1>1. PoolTypeOK /\ LockOK /\ [PoolNext]_poolVars
  BY StepIsPoolStep DEF PoolInv
<1>2. ASSUME NEW u \in Users, Request(u) \/ Locked(u)
      PROVE  PoolServes'
  BY <1>1, <1>2 DEF PoolServes, PoolTypeOK, LockOK, Request, Locked, NONE_POOL
<1>3. ASSUME NEW u \in Users, Create(u)
      PROVE  PoolServes'
  BY <1>1, <1>3 DEF PoolServes, PoolTypeOK, Create
<1>4. ASSUME NEW u \in Users, Acquire(u) \/ CreateFails(u) \/ Release(u) \/ UseFails(u) \/ Catch(u)
      PROVE  PoolServes'
  BY <1>1, <1>4 DEF PoolServes, PoolTypeOK, Acquire, CreateFails, Release, UseFails, Catch
<1>5. CASE UNCHANGED poolVars
  BY <1>5 DEF PoolServes, poolVars
<1> QED
  BY <1>1, <1>2, <1>3, <1>4, <1>5, CalmCloses DEF PoolNext, PoolStep

(* A use of the pool fails in a calm step by a failure of the database.    *)
LEMMA CalmAcquire ==
  ASSUME PoolInv, PoolServes, NEW u \in Users, PoolStep(u)
  PROVE  user'[u] \in {"create", "acquire", "using"} /\ \A v \in Users \ {u} : user'[v] = user[v]
<1>1. CASE Locked(u)
  BY <1>1 DEF Locked, PoolInv, PoolTypeOK
<1>2. CASE Create(u)
  BY <1>2 DEF Create, PoolInv, PoolTypeOK
<1>3. CASE Acquire(u)
  BY <1>3 DEF Acquire, PoolServes, PoolInv, PoolTypeOK
<1> QED
  BY <1>1, <1>2, <1>3 DEF PoolStep

(* What explains a placeholder goes on doing so.                           *)
LEMMA CausesStay ==
  ASSUME broken \subseteq broken', foreign \subseteq foreign'
  PROVE  /\ \A q : Tainted(q) => Tainted(q)'
         /\ \A run : Explained(run) => Explained(run)'
BY DEF Tainted, Explained

(* The benchmark uses the pool at three of its awaits only.                *)
LEMMA IdleElsewhere ==
  ASSUME CauseOK, [Next]_vars
  PROVE  stage' \notin UsesPoolAt => user'[Bench] = "idle"
<1> USE DEF CauseOK, UsesPoolAt
<1>1. Bench \in Users /\ PoolTypeOK
  BY BenchmarkConstants DEF PoolInv
<1>2. CASE Start \/ CacheHit \/ CallFails \/ Plan \/ Embed \/ Complete \/ Reflect \/ Validate
  BY <1>2 DEF Start, CacheHit, CallFails, Plan, Embed, Complete, Reflect, Validate, AwaitsLLM,
    poolVars
<1>3. CASE Connect
  BY <1>3 DEF Connect, benchVars
<1>4. CASE Search \/ SearchFails \/ Prepare \/ Record \/ RecordFails
  BY <1>1, <1>4 DEF Search, SearchFails, Prepare, Record, RecordFails, Release, Catch, PoolTypeOK
<1>5. CASE Finally
  BY <1>5 DEF Finally, Close, benchVars
<1>6. CASE Expire \/ OthersCache \/ UNCHANGED vars
  BY <1>6 DEF Expire, OthersCache, vars, benchVars, poolVars
<1>7. ASSUME NEW u \in Users, PoolWorks(u) \/ DatabaseFails(u)
      PROVE  stage' \notin UsesPoolAt => user'[Bench] = "idle"
  <2>1. stage' = stage /\ user[u] # "idle" /\ \A v \in Users \ {u} : user'[v] = user[v]
    BY <1>1, <1>7 DEF PoolWorks, DatabaseFails, PoolStep, Locked, Create, Acquire, CreateFails,
      UseFails, benchVars, PoolTypeOK
  <2> QED
    BY <1>1, <2>1
<1>8. ASSUME NEW u \in Users, Probe(u) \/ ProbeEnds(u)
      PROVE  stage' \notin UsesPoolAt => user'[Bench] = "idle"
  BY <1>1, <1>8 DEF Probe, ProbeEnds, Request, Release, Catch, benchVars, PoolTypeOK
<1>9. ASSUME NEW c \in Closers, Signal(c) \/ Shutdown(c)
      PROVE  stage' \notin UsesPoolAt => user'[Bench] = "idle"
  BY <1>9 DEF Signal, Shutdown, Close, Closed, benchVars
<1> QED
  BY <1>2, <1>3, <1>4, <1>5, <1>6, <1>7, <1>8, <1>9 DEF Next, BenchSteps

(* The steps of the benchmark leave what others caused alone.              *)
LEMMA BenchTraced == ASSUME CauseOK, Traced, BenchSteps, Calm' PROVE Traced'
<1> USE DEF Traced
<1>1. Bench \in Users /\ Final \in Closers /\ PoolTypeOK /\ PoolInv
  BY BenchmarkConstants DEF CauseOK, PoolInv
<1>2. Query \in Asked /\ DOMAIN cached = Asked
  BY QueryAsked DEF CauseOK
<1>3. UNCHANGED historyVars
  BY DEF BenchSteps, Start, CacheHit, CallFails, Plan, Embed, Connect, Search, SearchFails,
    Complete, Reflect, Validate, Prepare, Record, RecordFails, Finally, Searched, benchVars,
    historyVars
<1>4. /\ \A q : Tainted(q)' = Tainted(q)
      /\ \A run : Explained(run)' = Explained(run)
  BY <1>3 DEF Tainted, Explained, historyVars
<1>5. broken' = broken
  BY <1>3 DEF historyVars
<1>6. Explained(next) = (next \in broken \/ (Pipeline = "NaiveRAG" /\ Tainted(Query)))
  BY DEF Explained, Pipeline, Query
<1>7. (Pipeline = "NaiveRAG" /\ next \in broken) => Tainted(Query)
  BY DEF Tainted, Pipeline, Query
<1> HIDE DEF Pipeline, Query
<1>8. CASE Start
  BY <1>4, <1>8 DEF Start
<1>9. CASE CacheHit
  BY <1>2, <1>4, <1>6, <1>9 DEF CacheHit
<1>10. CASE CallFails \/ Plan \/ Reflect
  BY <1>4, <1>10 DEF CallFails, Plan, Reflect, AwaitsLLM
<1>11. CASE Embed
  <2>1. user'[Bench] = "idle"
    BY <1>11 DEF Embed, CauseOK, UsesPoolAt, poolVars
  <2> QED
    BY <1>4, <1>11, <2>1 DEF Embed
<1>12. CASE Connect
  <2>1. user'[Bench] # "failed"
    BY <1>1, <1>12 DEF Connect, Request, PoolTypeOK
  <2> QED
    BY <1>4, <1>12, <2>1 DEF Connect, benchVars, executionVars
<1>13. CASE Search
  <2>1. "placeholder" \in context' => "placeholder" \in context
    BY <1>13 DEF Search, Searched
  <2> QED
    BY <1>4, <1>13, <2>1 DEF Search, Searched
<1>14. CASE SearchFails
  <2>1. next \in broken /\ Explained(next)
    BY <1>6, <1>14 DEF SearchFails, Catch
  <2> QED
    BY <1>4, <1>14, <2>1 DEF SearchFails, Searched
<1>15. CASE Complete
  <2>1. ASSUME NEW q \in Asked, "placeholder" \in cached'[q] PROVE Tainted(q)
    <3>1. CASE Pipeline = "NaiveRAG" /\ q = Query
      BY <1>2, <1>6, <1>7, <1>15, <2>1, <3>1 DEF Complete
    <3>2. CASE Pipeline # "NaiveRAG" \/ q # Query
      BY <1>2, <1>15, <2>1, <3>2 DEF Complete
    <3> QED
      BY <3>1, <3>2
  <2> QED
    BY <1>4, <1>15, <2>1 DEF Complete
<1>16. CASE Validate
  BY <1>4, <1>16 DEF Validate, Proceed, executionVars
<1>17. CASE Prepare \/ RecordFails
  BY <1>4, <1>17 DEF Prepare, RecordFails, Proceed, executionVars
<1>18. CASE Record
  <2>1. ASSUME NEW row \in rows', "placeholder" \in row.context PROVE Explained(row.run)
    <3>1. CASE row \in rows
      BY <2>1, <3>1
    <3>2. CASE row = [run |-> next, context |-> context]
      BY <1>18, <2>1, <3>2 DEF Record
    <3> QED
      BY <1>18, <3>1, <3>2 DEF Record
  <2> QED
    BY <1>4, <1>18, <2>1 DEF Record, Proceed, executionVars
<1>19. CASE Finally
  BY <1>1, <1>19, CalmCloses DEF Finally
<1> QED
  BY <1>8, <1>9, <1>10, <1>11, <1>12, <1>13, <1>14, <1>15, <1>16, <1>17, <1>18, <1>19 DEF BenchSteps

(* What the others do: an entry they wrote is theirs, and a failed search  *)
(* is the database's.                                                      *)
LEMMA OthersTraced ==
  ASSUME CauseOK, Traced, PoolServes, [Next]_vars, ~BenchSteps, Calm'
  PROVE  Traced'
<1> DEFINE Causes == /\ broken \subseteq broken' /\ foreign \subseteq foreign'
                     /\ \A q \in Asked : "placeholder" \in cached'[q] =>
                            "placeholder" \in cached[q] \/ q \in foreign'
                     /\ (stage = "search" /\ user'[Bench] = "failed") =>
                            user[Bench] = "failed" \/ next \in broken'
<1>1. Bench \in Users /\ PoolTypeOK /\ PoolInv /\ DOMAIN cached = Asked
  BY BenchmarkConstants DEF CauseOK, PoolInv
<1>2. UNCHANGED <<next, stage, context, rows>>
  BY OthersLeaveExecution DEF executionVars
<1>3. ASSUME Expire PROVE Causes
  <2>1. \A q \in Asked : "placeholder" \in cached'[q] => "placeholder" \in cached[q]
    BY <1>1, <1>3 DEF Expire, NoAnswer
  <2> QED
    BY <1>3, <2>1 DEF Expire, poolVars, historyVars
<1>4. ASSUME OthersCache PROVE Causes
  BY <1>1, <1>4 DEF OthersCache, poolVars
<1>5. ASSUME UNCHANGED vars PROVE Causes
  BY <1>5 DEF vars, benchVars, poolVars
<1>6. ASSUME NEW u \in Users, PoolWorks(u) PROVE Causes
  <2>1. PoolStep(u) /\ UNCHANGED <<cached, broken, foreign>>
    BY <1>6 DEF PoolWorks, benchVars
  <2>2. user'[u] # "failed" /\ \A v \in Users \ {u} : user'[v] = user[v]
    BY <1>1, <2>1, CalmAcquire
  <2> QED
    BY <1>1, <2>1, <2>2
<1>7. ASSUME NEW u \in Users, DatabaseFails(u) PROVE Causes
  <2>1. /\ UNCHANGED <<cached, foreign>>
        /\ broken' = IF u = Bench /\ stage = "search" THEN broken \cup {next} ELSE broken
    BY <1>7 DEF DatabaseFails
  <2>2. \A v \in Users \ {u} : user'[v] = user[v]
    BY <1>1, <1>7 DEF DatabaseFails, CreateFails, UseFails, PoolTypeOK
  <2> QED
    BY <1>1, <2>1, <2>2
<1>8. ASSUME NEW u \in Users, Probe(u) \/ ProbeEnds(u) PROVE Causes
  BY <1>1, <1>8 DEF Probe, ProbeEnds, Request, Release, Catch, benchVars, PoolTypeOK
<1>9. ASSUME NEW c \in Closers, Signal(c) \/ Shutdown(c) PROVE Causes
  BY <1>9 DEF Signal, Shutdown, Close, Closed, benchVars
<1>10. Causes
  BY <1>3, <1>4, <1>5, <1>6, <1>7, <1>8, <1>9 DEF Next
<1>11. /\ \A q : Tainted(q) => Tainted(q)'
       /\ \A run : Explained(run) => Explained(run)'
  BY <1>10, CausesStay
<1>12. \A q \in foreign' : Tainted(q)'
  BY DEF Tainted
<1> HIDE DEF Causes
<1>13. \A q \in Asked : "placeholder" \in cached'[q] => Tainted(q)'
  BY <1>10, <1>11, <1>12 DEF Causes, Traced
<1>14. stage' = "search" /\ user'[Bench] = "failed" => next' \in broken'
  BY <1>2, <1>10 DEF Causes, Traced
<1>15. /\ (stage' \notin {"start", "end"} /\ "placeholder" \in context') => Explained(next)'
       /\ \A row \in rows' : "placeholder" \in row.context => Explained(row.run)'
  BY <1>2, <1>11 DEF Traced
<1> QED
  BY <1>2, <1>13, <1>14, <1>15 DEF Traced

(* For any queries, users, limits and entries of the result cache: until a *)
(* shutdown begins, an answer without documents, cached or recorded, is    *)
(* traced to a failed search of its execution, or through the cache to one *)
(* for the same query, in this process or another.                         *)
THEOREM PlaceholderHolds == Spec => []PlaceholderHasCause
<1>1. CauseOK /\ [Next]_vars => CauseOK'
  <2> SUFFICES ASSUME CauseOK, [Next]_vars PROVE CauseOK'
    OBVIOUS
  <2>1. PoolInv'
    BY StepIsPoolStep, PoolNextInv DEF CauseOK
  <2>2. stage' \notin UsesPoolAt => user'[Bench] = "idle"
    BY IdleElsewhere
  <2>3. Calm' => PoolServes' /\ Traced'
    <3> SUFFICES ASSUME Calm' PROVE PoolServes' /\ Traced'
      OBVIOUS
    <3>1. PoolServes /\ Traced
      BY CalmBefore DEF CauseOK
    <3>2. PoolServes'
      BY <3>1, CalmPool DEF CauseOK
    <3> QED
      BY <3>1, <3>2, BenchTraced, OthersTraced
  <2>4. next' \in Nat /\ DOMAIN cached' = Asked
    <3>1. CASE BenchSteps
      BY <3>1 DEF CauseOK, BenchSteps, Start, CacheHit, CallFails, Plan, Embed, Connect, Search,
        SearchFails, Complete, Reflect, Validate, Prepare, Record, RecordFails, Finally,
        Searched, Proceed, benchVars
    <3>2. CASE ~BenchSteps
      BY <3>2 DEF CauseOK, Next, Expire, OthersCache, PoolWorks, DatabaseFails, Probe, ProbeEnds,
        Signal, Shutdown, benchVars, vars
    <3> QED
      BY <3>1, <3>2
  <2> QED
    BY <2>1, <2>2, <2>3, <2>4 DEF CauseOK
<1>2. CauseOK => PlaceholderHasCause
  BY DEF CauseOK, Calm, Traced, PlaceholderHasCause
<1> QED
  BY <1>1, <1>2, InitCause, PTL DEF Spec
-----------------------------------------------------------------------------
(* Types.                                                                  *)

Await == AwaitsLLM \cup {"start", "search", "validate", "prepare", "record", "end"}

(* How far an execution may have come at each await.                       *)
Progress ==
    /\ stage # "end" => next <= Runs
    /\ stage \in {"embed", "search"} => searches > 0
    /\ stage \in {"plan", "embed", "search", "complete"} => answer = reflections
    /\ stage = "reflect" => answer = reflections + 1
    /\ (stage \in InAnswer /\ Pipeline = "NaiveRAG") => reflections = 0
    /\ stage \in {"prepare", "record"} => context # {}

BenchTypes ==
    /\ next \in 1..(Runs + 1)
    /\ stage \in Await
    /\ searches \in Nat
    /\ attempts \in 0..(MaxAttempts - 1)
    /\ answer \in 0..(MaxReflections + 1)
    /\ judged \in 0..answer
    /\ sufficient \in BOOLEAN
    /\ reflections \in 0..MaxReflections

DataTypes ==
    /\ context \in Contexts
    /\ cached \in [Asked -> Contexts \cup {NoAnswer}]
    /\ ready \in BOOLEAN
    /\ rows \subseteq [run : 1..Runs, context : Contexts \ {{}}]
    /\ faults \in 0..MaxFaults
    /\ broken \subseteq 1..Runs
    /\ foreign \subseteq Asked

TypeInv == PoolInv /\ VerdictOK /\ BenchTypes /\ DataTypes /\ Progress

LEMMA RunsType == Runs \in Nat \ {0}
<1>1. PICK S : Queries \in Seq(S)
  BY BenchmarkConstants
<1>2. Len(Queries) \in Nat \ {0}
  BY <1>1, BenchmarkConstants
<1> QED
  BY <1>2 DEF Runs

LEMMA InitTypes == Init => TypeInv
<1> SUFFICES ASSUME Init PROVE TypeInv
  OBVIOUS
<1>1. PoolInv /\ VerdictOK
  BY PoolInitInv, InitVerdict DEF Init
<1>2. BenchTypes
  <2>1. stage \in Await /\ next \in 1..(Runs + 1)
    BY RunsType DEF Init, Await
  <2>2. sufficient = FALSE
    BY DEF Init
  <2>3. attempts \in 0..(MaxAttempts - 1) /\ reflections \in 0..MaxReflections
    BY BenchmarkConstants DEF Init
  <2>4. searches \in Nat /\ answer \in 0..(MaxReflections + 1) /\ judged \in 0..answer
    BY BenchmarkConstants DEF Init
  <2> QED
    BY <2>1, <2>2, <2>3, <2>4 DEF BenchTypes
<1>3. Progress
  BY RunsType DEF Init, Progress, InAnswer
<1>4. DataTypes
  <2>1. cached \in [Asked -> Contexts \cup {NoAnswer}]
    BY DEF Init, NaiveContexts, Contexts
  <2>2. context \in Contexts /\ rows = {} /\ broken = {} /\ foreign \subseteq Asked
    BY DEF Init, Contexts, Placeholders
  <2>3. ready = FALSE /\ faults \in 0..MaxFaults
    BY BenchmarkConstants DEF Init
  <2> QED
    BY <2>1, <2>2, <2>3 DEF DataTypes
<1> QED
  BY <1>1, <1>2, <1>3, <1>4 DEF TypeInv

(* The control state of an execution.                                      *)
LEMMA ControlTypes ==
  ASSUME TypeInv, BenchSteps, VerdictOK'
  PROVE  BenchTypes' /\ Progress'
<1> USE RunsType, BenchmarkConstants DEF TypeInv, BenchTypes, Progress, Await, AwaitsLLM, InAnswer
<1>1. CASE Start \/ CacheHit
  <2>1. /\ reflections' = 0 /\ judged' = 0 /\ next' = next /\ attempts' = attempts
        /\ \/ stage' \in {"plan", "embed"} /\ searches' = 1 /\ answer' = 0
           \/ stage' = "validate" /\ searches' = 0 /\ answer' = 1
    BY <1>1 DEF Start, CacheHit
  <2>2. sufficient' \in BOOLEAN /\ next <= Runs
    BY <1>1 DEF Start, CacheHit
  <2> QED
    BY <2>1, <2>2
<1>2. CASE CallFails
  BY <1>2 DEF CallFails, Pipeline
<1>3. CASE Plan
  BY <1>3 DEF Plan, Pipeline
<1>4. CASE Embed
  BY <1>4 DEF Embed, Pipeline
<1>5. CASE Connect \/ Finally
  BY <1>5 DEF Connect, Finally, benchVars, executionVars, Pipeline
<1>6. CASE Search \/ SearchFails
  BY <1>6 DEF Search, SearchFails, Searched, Pipeline
<1>7. CASE Complete
  BY <1>7 DEF Complete, Pipeline
<1>8. CASE Reflect
  <2>1. /\ reflections' = reflections + 1 /\ judged' = answer /\ answer' = answer
        /\ next' = next /\ attempts' = 0 /\ stage = "reflect"
        /\ reflections < MaxReflections /\ Pipeline # "NaiveRAG"
    BY <1>8 DEF Reflect, VerdictOK
  <2>2. /\ searches' \in Nat
        /\ stage' \in {"validate", "complete", "embed"}
        /\ stage' = "embed" => searches' > 0
    BY <1>8 DEF Reflect
  <2>3. sufficient' \in BOOLEAN
    BY <1>8 DEF Reflect
  <2> QED
    BY <2>1, <2>2, <2>3 DEF Pipeline
<1>9. CASE Validate
  BY <1>9 DEF Validate, Proceed, executionVars, Pipeline
<1>10. CASE Prepare
  BY <1>10 DEF Prepare, executionVars, Pipeline
<1>11. CASE Record \/ RecordFails
  BY <1>11 DEF Record, RecordFails, Proceed, executionVars, Pipeline
<1> QED
  BY <1>1, <1>2, <1>3, <1>4, <1>5, <1>6, <1>7, <1>8, <1>9, <1>10, <1>11 DEF BenchSteps

LEMMA ResultTypes ==
  ASSUME TypeInv, BenchSteps
  PROVE  DataTypes'
<1> USE DEF TypeInv, DataTypes
<1>1. CASE Start \/ Plan \/ Embed \/ Reflect \/ Validate \/ Prepare \/ RecordFails
  BY <1>1 DEF Start, Plan, Embed, Reflect, Validate, Prepare, RecordFails, executionVars,
    historyVars, Contexts
<1>2. CASE CallFails
  BY <1>2, BenchmarkConstants DEF CallFails, historyVars
<1>3. CASE CacheHit
  <2>1. cached[Query] \in Contexts
    BY <1>3, RunsType, QueryAsked DEF CacheHit, BenchTypes
  <2> QED
    BY <1>3, <2>1 DEF CacheHit, historyVars
<1>4. CASE Connect \/ Finally
  BY <1>4 DEF Connect, Finally, benchVars, executionVars
<1>5. CASE Search \/ SearchFails
  <2>1. context' \in Contexts
    BY <1>5 DEF Search, SearchFails, Searched, Contexts
  <2> QED
    BY <1>5, <2>1 DEF Search, SearchFails, Searched, historyVars
<1>6. CASE Complete
  <2>1. cached' = cached \/ cached' = [cached EXCEPT ![Query] = context]
                         \/ cached' = [cached EXCEPT ![Query] = cached[Query]]
    BY <1>6 DEF Complete
  <2>2. Query \in Asked
    BY RunsType, QueryAsked DEF BenchTypes
  <2>3. cached' \in [Asked -> Contexts \cup {NoAnswer}]
    BY <2>1, <2>2
  <2> QED
    BY <1>6, <2>3 DEF Complete, historyVars
<1>7. CASE Record
  <2>1. next \in 1..Runs /\ context \in Contexts \ {{}}
    BY <1>7, RunsType DEF Record, BenchTypes, Progress
  <2>2. [run |-> next, context |-> context] \in [run : 1..Runs, context : Contexts \ {{}}]
    BY <2>1
  <2> QED
    BY <1>7, <2>2 DEF Record, executionVars, historyVars
<1> QED
  BY <1>1, <1>2, <1>3, <1>4, <1>5, <1>6, <1>7 DEF BenchSteps

LEMMA OtherTypes ==
  ASSUME TypeInv, [Next]_vars, ~BenchSteps
  PROVE  BenchTypes' /\ Progress' /\ DataTypes'
<1>1. BenchTypes' /\ Progress' /\ context' = context /\ rows' = rows
  BY OthersLeaveExecution
    DEF TypeInv, BenchTypes, Progress, executionVars, Pipeline, InAnswer, Await, AwaitsLLM
<1>2. CASE Expire
  BY <1>1, <1>2 DEF TypeInv, DataTypes, Expire, historyVars
<1>3. CASE OthersCache
  <2>1. NaiveContexts \subseteq Contexts
    BY DEF NaiveContexts, Contexts
  <2> QED
    BY <1>1, <1>3, <2>1 DEF TypeInv, DataTypes, OthersCache
<1>4. ASSUME NEW u \in Users, DatabaseFails(u) PROVE DataTypes'
  <2>1. stage = "search" => next \in 1..Runs
    BY RunsType DEF TypeInv, BenchTypes, Progress
  <2>2. faults' \in 0..MaxFaults
    BY <1>4, BenchmarkConstants DEF TypeInv, DataTypes, DatabaseFails
  <2> QED
    BY <1>1, <1>4, <2>1, <2>2 DEF TypeInv, DataTypes, DatabaseFails
<1>5. ASSUME NEW u \in Users, PoolWorks(u) \/ Probe(u) \/ ProbeEnds(u) PROVE DataTypes'
  BY <1>1, <1>5 DEF TypeInv, DataTypes, PoolWorks, Probe, ProbeEnds, benchVars
<1>6. ASSUME NEW c \in Closers, Signal(c) \/ Shutdown(c) PROVE DataTypes'
  BY <1>1, <1>6 DEF TypeInv, DataTypes, Signal, Shutdown, benchVars
<1>7. CASE UNCHANGED vars
  BY <1>1, <1>7 DEF TypeInv, DataTypes, vars, benchVars
<1> QED
  BY <1>1, <1>2, <1>3, <1>4, <1>5, <1>6, <1>7 DEF Next

(* Type correctness, for any queries, limits and faults: no more than      *)
(* MaxAttempts attempts of a call and MaxReflections reflections are made, *)
(* and a run without a document is not recorded.                           *)
THEOREM BenchmarkTypes == Spec => []TypeOK
<1>1. TypeInv /\ [Next]_vars => TypeInv'
  <2> SUFFICES ASSUME TypeInv, [Next]_vars PROVE TypeInv'
    OBVIOUS
  <2>1. PoolInv' /\ VerdictOK'
    BY StepIsPoolStep, PoolNextInv, VerdictPersists DEF TypeInv
  <2>2. CASE BenchSteps
    BY <2>1, <2>2, ControlTypes, ResultTypes DEF TypeInv
  <2>3. CASE ~BenchSteps
    BY <2>1, <2>3, OtherTypes DEF TypeInv
  <2> QED
    BY <2>2, <2>3
<1>2. TypeInv => TypeOK
  BY DEF TypeInv, PoolInv, BenchTypes, DataTypes, TypeOK, Await
<1> QED
  BY <1>1, <1>2, InitTypes, PTL DEF Spec
=============================================================================
