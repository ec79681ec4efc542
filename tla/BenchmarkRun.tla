---------------------------- MODULE BenchmarkRun ----------------------------
(***************************************************************************)
(* A benchmark under run_with_lifecycle (evaluator/lifecycle.py,           *)
(* benchmark.py, rag_pipelines): one coroutine runs every query through    *)
(* NaiveRAG and then AgenticRAG and records the results; each signal       *)
(* starts a task that closes the database pool, without stopping the       *)
(* benchmark; the end of the run closes it again.  Probes of the           *)
(* database's health use the same pool.                                    *)
(*                                                                         *)
(* The LLM service, the Redis caches and PostgreSQL are external.  The     *)
(* result cache outlives the process and is shared: it begins with any     *)
(* entries, and other processes write to it.  What is kept of a context is *)
(* whether it holds retrieved chunks and whether it holds the placeholder  *)
(* for an unreachable database; of an answer, which synthesis it is.       *)
(***************************************************************************)
EXTENDS DatabasePool, Sequences

CONSTANTS
    Bench,          \* the benchmark's coroutine, one of Users
    Final,          \* the shutdown at the end, one of Closers
    Queries,        \* the queries, as given
    SubQueries,     \* sub-queries the planner's answer has: a set of numbers
    MaxReflections, \* MAX_REFLECTION_ITERATIONS
    MaxAttempts,    \* attempts of async_call_with_retry
    MaxFaults       \* bound: failures of PostgreSQL and of LLM calls

ASSUME BenchmarkConstants ==
    /\ Bench \in Users /\ Final \in Closers
    /\ Queries # << >> /\ Queries \in Seq({Queries[i] : i \in DOMAIN Queries})
    /\ SubQueries \subseteq Nat /\ MaxReflections \in Nat
    /\ MaxAttempts \in Nat \ {0} /\ MaxFaults \in Nat

VARIABLES
    next,           \* which of the executions is running
    stage,          \* the benchmark's await
    searches,       \* vector searches still to make
    attempts,       \* attempts made of the current LLM call
    context,        \* what the context holds: subset of {"chunk", "placeholder"}
    answer,         \* syntheses made in this execution
    judged,         \* the synthesis the last reflection judged
    sufficient,     \* its verdict
    reflections,    \* reflection_iterations
    cached,         \* what NaiveRAG's cached answers rest on, by query
    ready,          \* the store's _ready
    rows,           \* recorded runs: which execution, what it rests on
    faults,         \* failures so far
    broken,         \* executions in which PostgreSQL failed a search
    foreign         \* queries for which others cached a placeholder

executionVars == <<searches, attempts, context, answer, judged, sufficient, reflections>>
benchVars == <<next, stage, executionVars, cached, ready, rows, faults, broken, foreign>>
historyVars == <<broken, foreign>>
vars == <<poolVars, benchVars>>

Pipelines == <<"NaiveRAG", "AgenticRAG">>
Runs == 2 * Len(Queries)
PipelineOf(run) == Pipelines[((run - 1) \div Len(Queries)) + 1]
QueryOf(run) == Queries[((run - 1) % Len(Queries)) + 1]
Pipeline == PipelineOf(next)
Query == QueryOf(next)
Asked == {Queries[i] : i \in DOMAIN Queries}
NoAnswer == {"none"}

(* What the one search of NaiveRAG leaves in the context.                  *)
NaiveContexts == {{}, {"chunk"}, {"placeholder"}}

(* The queries whose entry rests on the placeholder.                       *)
Placeholders(entries) == {q \in Asked : "placeholder" \in entries[q]}

Init ==
    /\ PoolInit
    /\ next = 1
    /\ stage = "start"
    /\ searches = 0
    /\ attempts = 0
    /\ context = {}
    /\ answer = 0
    /\ judged = 0
    /\ sufficient = FALSE
    /\ reflections = 0
    /\ cached \in [Asked -> NaiveContexts \cup {NoAnswer}]
    /\ ready = FALSE
    /\ rows = {}
    /\ faults = 0
    /\ broken = {}
    /\ foreign = Placeholders(cached)
-----------------------------------------------------------------------------
(* Another execution begins, or the summary is made: an exception when no  *)
(* run was recorded or evaluated ends the benchmark just the same.         *)
Proceed ==
    /\ next' = next + 1
    /\ stage' = IF next = Runs THEN "end" ELSE "start"

(* execute begins: NaiveRAG asks its result cache, where a failure is a    *)
(* miss; AgenticRAG plans.                                                 *)
Start ==
    /\ stage = "start"
    /\ context' = {} /\ answer' = 0 /\ judged' = 0 /\ reflections' = 0
    /\ sufficient' = FALSE /\ searches' = 1
    /\ stage' = IF Pipeline = "NaiveRAG" THEN "embed" ELSE "plan"
    /\ UNCHANGED <<poolVars, next, attempts, cached, ready, rows, faults, historyVars>>

(* The cache has an entry for the query.                                   *)
CacheHit ==
    /\ stage = "start"
    /\ Pipeline = "NaiveRAG"
    /\ cached[Query] # NoAnswer
    /\ context' = cached[Query]
    /\ answer' = 1 /\ judged' = 0 /\ reflections' = 0 /\ sufficient' = FALSE
    /\ searches' = 0
    /\ stage' = "validate"
    /\ UNCHANGED <<poolVars, next, attempts, cached, ready, rows, faults, historyVars>>

(* An entry's time to live is over.                                        *)
Expire ==
    /\ \E q \in DOMAIN cached : cached[q] # NoAnswer
                                /\ cached' = [cached EXCEPT ![q] = NoAnswer]
    /\ UNCHANGED <<poolVars, next, stage, executionVars, ready, rows, faults, historyVars>>

(* Another process caches its answer to the same query.                    *)
OthersCache ==
    /\ \E q \in Asked, entry \in NaiveContexts :
        /\ cached' = [cached EXCEPT ![q] = entry]
        /\ foreign' = IF "placeholder" \in entry THEN foreign \cup {q} ELSE foreign
    /\ UNCHANGED <<poolVars, next, stage, executionVars, ready, rows, faults, broken>>

AwaitsLLM == {"plan", "embed", "complete", "reflect"}

(* An LLM call raises: a rate limit, an outage or a timeout is tried again *)
(* unless it was the last attempt; anything else, and the last attempt,    *)
(* ends the benchmark.                                                     *)
CallFails ==
    /\ stage \in AwaitsLLM
    /\ faults < MaxFaults
    /\ faults' = faults + 1
    /\ \/ /\ attempts + 1 < MaxAttempts
          /\ attempts' = attempts + 1
          /\ UNCHANGED stage
       \/ /\ attempts' = 0
          /\ stage' = "end"
    /\ UNCHANGED <<poolVars, next, searches, context, answer, judged, sufficient, reflections,
                   cached, ready, rows, historyVars>>

(* _decompose_query: a list, or what stands for one.                       *)
Plan ==
    /\ stage = "plan"
    /\ \E n \in SubQueries :
        /\ searches' = n
        /\ stage' = IF n = 0 THEN "complete" ELSE "embed"
    /\ attempts' = 0
    /\ UNCHANGED <<poolVars, next, context, answer, judged, sufficient, reflections, cached, ready,
                   rows, faults, historyVars>>

(* The embedding, from the cache or the service.                           *)
Embed ==
    /\ stage = "embed"
    /\ attempts' = 0
    /\ stage' = "search"
    /\ UNCHANGED <<poolVars, next, searches, context, answer, judged, sufficient, reflections,
                   cached, ready, rows, faults, historyVars>>

(* Where a use of the pool begins: a vector search, a table creation, an   *)
(* insert.                                                                 *)
Connect ==
    /\ stage \in {"search", "prepare", "record"}
    /\ Request(Bench)
    /\ UNCHANGED benchVars

Searched(found) ==
    /\ context' = context \cup found
    /\ searches' = searches - 1
    /\ stage' = IF searches = 1 THEN "complete" ELSE "embed"
    /\ UNCHANGED <<next, attempts, answer, judged, sufficient, reflections, cached, ready, rows,
                   historyVars>>

(* The search returns chunks, or none.                                     *)
Search ==
    /\ stage = "search"
    /\ Release(Bench)
    /\ \E found \in {{}, {"chunk"}} : Searched(found)
    /\ UNCHANGED faults

(* Whatever went wrong, a placeholder is the context.                      *)
SearchFails ==
    /\ stage = "search"
    /\ Catch(Bench)
    /\ Searched({"placeholder"})
    /\ UNCHANGED faults

(* NaiveRAG's answer, which is cached; AgenticRAG's synthesis, which is    *)
(* reflected on while iterations are left.                                 *)
Complete ==
    /\ stage = "complete"
    /\ attempts' = 0
    /\ answer' = answer + 1
    /\ IF Pipeline = "NaiveRAG"
       THEN /\ stage' = "validate"
            /\ \E entry \in {context, cached[Query]} : cached' = [cached EXCEPT ![Query] = entry]
       ELSE /\ stage' = IF reflections < MaxReflections THEN "reflect" ELSE "validate"
            /\ UNCHANGED cached
    /\ UNCHANGED <<poolVars, next, searches, context, judged, sufficient, reflections, ready, rows,
                   faults, historyVars>>

(* Mutant of Reflect: a sufficient answer is not returned at once.         *)
ReflectOnce ==
    /\ stage = "reflect"
    /\ attempts' = 0
    /\ reflections' = reflections + 1
    /\ judged' = answer
    /\ sufficient' = TRUE
    /\ stage' = "complete"
    /\ UNCHANGED <<poolVars, next, searches, context, answer, cached, ready, rows, faults,
                   historyVars>>

(* _reflect_on_answer: sufficient, or not, with or without something to    *)
(* search for.                                                             *)
Reflect ==
    /\ stage = "reflect"
    /\ attempts' = 0
    /\ reflections' = reflections + 1
    /\ judged' = answer
    /\ \/ /\ sufficient' = TRUE
          /\ stage' = "validate"
          /\ UNCHANGED searches
       \/ /\ sufficient' = FALSE
          /\ \E missing \in {0, 1} :
              /\ searches' = missing
              /\ stage' = IF missing = 0 THEN "complete" ELSE "embed"
    /\ UNCHANGED <<poolVars, next, context, answer, cached, ready, rows, faults, historyVars>>

(* A run without a document is skipped.                                    *)
Validate ==
    /\ stage = "validate"
    /\ IF context = {} THEN Proceed
       ELSE stage' = (IF ready THEN "record" ELSE "prepare") /\ UNCHANGED next
    /\ UNCHANGED <<poolVars, executionVars, cached, ready, rows, faults, historyVars>>

(* DriftStore._ensure_ready.                                               *)
Prepare ==
    /\ stage = "prepare"
    /\ Release(Bench)
    /\ ready' = TRUE
    /\ stage' = "record"
    /\ UNCHANGED <<next, executionVars, cached, rows, faults, historyVars>>

(* record_evaluation.                                                      *)
Record ==
    /\ stage = "record"
    /\ Release(Bench)
    /\ rows' = rows \cup {[run |-> next, context |-> context]}
    /\ Proceed
    /\ UNCHANGED <<executionVars, cached, ready, faults, historyVars>>

(* "Persistence failures must never abort the benchmark run."              *)
RecordFails ==
    /\ stage \in {"prepare", "record"}
    /\ Catch(Bench)
    /\ Proceed
    /\ UNCHANGED <<executionVars, cached, ready, rows, faults, historyVars>>
-----------------------------------------------------------------------------
(* The pool's part of a use of it.                                         *)
PoolWorks(u) == PoolStep(u) /\ UNCHANGED benchVars

DatabaseFails(u) ==
    /\ CreateFails(u) \/ UseFails(u)
    /\ faults < MaxFaults
    /\ faults' = faults + 1
    /\ broken' = IF u = Bench /\ stage = "search" THEN broken \cup {next} ELSE broken
    /\ UNCHANGED <<next, stage, executionVars, cached, ready, rows, foreign>>

(* check_health: exported for whoever watches the process; nothing in the  *)
(* repository schedules it.                                                *)
Probe(u) == u # Bench /\ Request(u) /\ UNCHANGED benchVars
ProbeEnds(u) == u # Bench /\ (Release(u) \/ Catch(u)) /\ UNCHANGED benchVars

(* SIGTERM or SIGINT, while the final shutdown awaits too: a task of its   *)
(* own runs graceful_shutdown.                                             *)
Signal(c) == c # Final /\ Close(c) /\ UNCHANGED benchVars

(* The finally clause of run_with_lifecycle.                               *)
Finally == stage = "end" /\ Close(Final) /\ UNCHANGED benchVars

Shutdown(c) == Closed(c) /\ UNCHANGED benchVars

(* graceful_shutdown has returned to run_with_lifecycle: the process ends. *)
Exited == closer[Final] = "done"

BenchSteps ==
    \/ Start \/ CacheHit \/ CallFails \/ Plan \/ Embed \/ Connect
    \/ Search \/ SearchFails \/ Complete \/ Reflect
    \/ Validate \/ Prepare \/ Record \/ RecordFails
    \/ Finally

Next ==
    /\ ~Exited
    /\ \/ BenchSteps
       \/ Expire
       \/ OthersCache
       \/ \E u \in Users : PoolWorks(u)
       \/ \E u \in Users : DatabaseFails(u)
       \/ \E u \in Users : Probe(u)
       \/ \E u \in Users : ProbeEnds(u)
       \/ \E c \in Closers : Signal(c)
       \/ \E c \in Closers : Shutdown(c)

Spec == Init /\ [][Next]_vars

(* The event loop runs what it can run, and the services answer.           *)
Fairness ==
    /\ WF_vars(BenchSteps /\ ~Exited)
    /\ \A u \in Users : WF_vars((PoolWorks(u) \/ ProbeEnds(u)) /\ ~Exited)
    /\ \A c \in Closers : WF_vars(Shutdown(c) /\ ~Exited)

FairSpec == Spec /\ Fairness
-----------------------------------------------------------------------------
Contexts == SUBSET {"chunk", "placeholder"}

(* Every variable ranges over the values its counterpart can have.         *)
TypeOK ==
    /\ PoolTypeOK
    /\ next \in 1..(Runs + 1)
    /\ stage \in AwaitsLLM \cup {"start", "search", "validate", "prepare", "record", "end"}
    /\ searches \in Nat
    /\ attempts \in 0..(MaxAttempts - 1)
    /\ context \in Contexts
    /\ answer \in 0..(MaxReflections + 1)
    /\ judged \in 0..answer
    /\ sufficient \in BOOLEAN
    /\ reflections \in 0..MaxReflections
    /\ cached \in [Asked -> Contexts \cup {NoAnswer}]
    /\ ready \in BOOLEAN
    /\ rows \subseteq [run : 1..Runs, context : Contexts \ {{}}]
    /\ faults \in 0..MaxFaults
    /\ broken \subseteq 1..Runs
    /\ foreign \subseteq Asked

(* The cached answer to a query may be one without documents: another      *)
(* process left it, or a search of NaiveRAG for that query failed.         *)
Tainted(q) ==
    q \in foreign \/ \E run \in broken : PipelineOf(run) = "NaiveRAG" /\ QueryOf(run) = q

(* An execution may rest on the placeholder: its own search failed, or its *)
(* answer came out of the cache, which NaiveRAG alone asks.                *)
Explained(run) ==
    run \in broken \/ (PipelineOf(run) = "NaiveRAG" /\ Tainted(QueryOf(run)))

(* Until somebody begins to close the pool, an answer made without the     *)
(* documents is traced to a failure of the database: in the execution      *)
(* itself, or, through the result cache and so for NaiveRAG only, in an    *)
(* execution of the same query by this process or another.  No failure of  *)
(* an LLM call, of a probe or of another query's search brings one about.  *)
PlaceholderHasCause ==
    (\A c \in Closers : closer[c] = "idle") =>
        /\ \A q \in Asked : "placeholder" \in cached[q] => Tainted(q)
        /\ \A row \in rows : "placeholder" \in row.context => Explained(row.run)

(* final_confidence is about the answer that is returned when it found it  *)
(* sufficient; when the iterations ran out it is about the one before.     *)
ConfidenceIsOfAnswer ==
    (stage = "validate" /\ reflections > 0) =>
        /\ sufficient => judged = answer
        /\ ~sufficient => judged = answer - 1 /\ reflections = MaxReflections

(* The run comes to its end: the last shutdown waits for the connections   *)
(* in use, and they are all released.                                      *)
RunEnds == <>Exited
=============================================================================
