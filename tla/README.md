# TLA+ models of the post-RAG drift evaluator

This directory specifies the concurrent and stateful core of the repository in
TLA+: the two ingestion buffers, the evaluation of frames by a shared drift
monitor, the closed optimization loop with its policy guardrails, the offline
analysis of a history that grows under it, a benchmark over a connection pool
that signals may close, the streaming buffer and the latent drift engine, and
the JSON history store. The modules are translated from the Python source,
model-checked with TLC on small instances, and the main safety properties are
proved with TLAPS for every value of the constants. `PROJECT.json` maps every
definition to the lines it stands for and lists the runs, the mutants that show
each property can fail, the findings, the hazards and the theorems.

## 1. Inventory

### Ingestion

| component | state | operations | partners |
|---|---|---|---|
| `AsyncIngestionBuffer` (`ingestion/queue.py`) | an unbounded `asyncio.Queue`, the worker task, the flag `_stopped` | `enqueue`, `start_worker`, `_run`, `_flush`, `stop_worker` | called by the gateway's lifespan and by `POST /v1/telemetry/frames`; writes through `DriftStore.batch_store_frames` |
| `RedisStreamBuffer` (`ingestion/redis_queue.py`) | one Redis stream and one consumer group shared by every process; per process a task, a flag, the batch in hand | the same five, and `_ensure_consumer_group` | Redis (XADD, XGROUP CREATE, XREADGROUP, XACK), `DriftStore` |
| gateway (`api/`) | the lifespan of each of four uvicorn processes, rate-limit windows | `/frames`, `/evaluate`, `/readyz`, lifespan | buffers, monitor, pool |
| `DriftStore` (`evaluator/drift_store.py`) | the table `telemetry_evaluations`; `_ready`, an optional pool of its own | `batch_store_frames`, `record_evaluation`, windowed reads, `clear_history`, `close` | PostgreSQL through `evaluator/db/pool.py` |

What makes them hard: frames arrive while the worker fills or flushes a batch;
workers are stopped and restarted; a batch may fail before or after its commit;
processes are killed between a commit and its acknowledgement; several
processes use one consumer name; Redis may come back empty.
What makes them correct: an accepted frame is never lost from sight and gets at
most one row; acknowledged means stored; rows keep the order of acceptance;
`stop_worker` returns with everything earlier flushed; a readable frame is read.

### Evaluation

| component | state | operations | partners |
|---|---|---|---|
| `DriftMonitor` (`evaluator/drift_monitor.py`) | its thresholds, saved ones during a dynamic evaluation | `evaluate_frames`, `calibrate_thresholds`, `compute_*` | baseline service, notifier, store |
| `DynamicBaselineService` | none | window read, bootstrap calibration | store, a monitor of its own |
| `AlertManager`, `DriftAlertNotifier` | time of the last alert per severity | `send_alert`, `notify_if_drifted` | webhooks |

What makes them hard: thresholds are swapped in an object that all requests
share; evaluated frames become part of later baselines; persistence fails half
way after the alert was sent; the alert's rate limit is consumed before the
alert is delivered.
What makes them correct: an evaluation uses either the static thresholds or the
ones calibrated from its own baseline and leaves the static ones behind; its
rows are a prefix of its frames; nothing is stored before the alert was tried.

### Streaming and latent drift

| component | state | operations | partners |
|---|---|---|---|
| `StreamingDriftBuffer` (`latent_drift/streaming.py`) | a list of vectors per track | `ingest`, `flush_batch`, `is_track_ready`, `clear_track`, `clear` | the production gateway's `/v1/stream`, `sentrix stream` |
| `LatentDriftEngine`, `AdaptiveThresholdManager` | the reference, the window of scores | `fit`, `compute_drift`, `compute_dual_track_drift`, `update`, `get_threshold` | `causal/fusion.py` |
| fusion (`causal/fusion.py`) | the priors of a causal graph | `fuse_drift_into_causal_graph`, `fuse_dual_track` | optimization loop |

What makes them hard: replacement in a full buffer, vectors of several widths,
a threshold computed over a window that ends with the score it judges, results
that are fused in any order, twice or not at all.
What makes them correct: the buffer is a sample of what arrived; a flush fails
for a cause; a prior is the highest evidence.

### Offline analysis and optimization

| component | state | operations | partners |
|---|---|---|---|
| temporal detection, causal attribution (`temporal/`, `causal/`) | none: functions of a history | `detect_drift_from_store`, `extract_change_events`, `attribute_drift` | history stores |
| counterfactuals (`counterfactual/`) | a copy of the history | `build_counterfactual_scenarios`, `apply_scenario`, `run_counterfactual_analysis` | history stores |
| offline optimizer (`optimization/optimizer.py`, `scorer.py`, `actions.py`) | none | `generate_optimization_plan` | |
| history API (`api/routes/`) | none | `/drift`, `/attribution`, `/counterfactual`, `/optimize` | all of the above |
| `OptimizationRunner` (`optimization/runner.py`) | `execution_history` | `run_optimization_cycle` | simulator, engine, policy |
| `PolicyEvaluator` (`guardrails/policy.py`) | none; judges by the history it is given | bounds, cooldown and flapping checks | |

What makes them hard: each function loads the history for itself while others
save records, late ones among them; a change is found again by an id made of
run, time and type, in a store that an earlier intervention altered; windows,
edges and ties; a verdict that depends on all earlier ones, by a clock that is
read three times in a cycle and is not monotonic.
What makes them correct: an event found stays found; an intervention takes back
its change and nothing else; estimates rest on records before the drift; two
approvals of one action are apart by the cooldown; no approval exceeds the
flapping bound; an action is blocked only for a cause.

### Benchmark, pool and storage

| component | state | operations | partners |
|---|---|---|---|
| connection pool (`evaluator/db/pool.py`) | the global `_pool`, `_pool_lock` | `get_pool`, `close_pool`, `check_health` | every database user |
| lifecycle (`evaluator/lifecycle.py`) | none | `run_with_lifecycle`, `graceful_shutdown` | signals, pool |
| RAG pipelines, retry (`rag_pipelines/`, `utils/retry.py`) | one execution's context | `NaiveRAG.execute`, `AgenticRAG.execute` | LLM service, caches, pool |
| caches (`evaluator/cache.py`) | entries with a time to live | `get`, `set` | Redis |
| benchmark (`evaluator/benchmark.py`) | its runs | runs, validation, recording, summary | pipelines, `DriftStore` |
| `JSONHistoryStore` (`evaluator/storage/json_store.py`) | the history file and `<path>.tmp` | `save`, `load_all`, queries, `clone` | production gateway, CLI, pipeline: one process each |
| exporters, auth, rate limit, other CLIs, dashboards | small or none | | |

What makes them hard: a close that awaits outside the lock, twice, while the
benchmark goes on and re-creates the pool; failures that turn into context and
outlive the process in a cache that others write to; a
verdict about one answer beside another; kills between write and rename, two
writers over one temporary file.
What makes them correct: few pools are forgotten; the run ends; a placeholder
answer has a cause, here or where its cache entry was made; the reported confidence is about the returned answer; a
saved record is loaded from then on; the published file is never written to.

The complete list of components, with those left out and why, is in
`PROJECT.json` ("components"); the hazards, each at its line, are under
"hazards".

## 2. Modules

    FrameDelivery            what any ingestion buffer promises (abstract)
      ^ refined by
    MemoryIngestion          AsyncIngestionBuffer, its callers and its workers
    RedisIngestion           RedisStreamBuffer in several processes, with Redis
    DriftEvaluation          POST /evaluate: monitor, baselines, alert, rows
    OptimizationLoop         run_optimization_cycle, engine and policy
    ChangeExtraction         changes, drift events, reversals: pure operators
      ^ extended by
    HistoryAnalysis          detection to plan, over a history that grows
    DatabasePool             get_pool and close_pool among users and closers
      ^ extended and refined by
    BenchmarkRun             run_with_lifecycle, both pipelines, recording
    StreamingBuffer          StreamingDriftBuffer
    LatentDrift              engine, adaptive threshold, fusion into priors
    JsonHistoryStore         save and load_all over an external file system
    MC*                      what TLC needs besides (values, symmetry sets)
    *_proofs                 theorems and proofs: one module for each of
                             MemoryIngestion (with FrameDelivery),
                             RedisIngestion, DriftEvaluation, OptimizationLoop,
                             HistoryAnalysis (with ChangeExtraction),
                             BenchmarkRun (with DatabasePool), JsonHistoryStore;
                             LatentStream_proofs is about StreamingBuffer and
                             LatentDrift

**FrameDelivery.** Frames are numbered in the order of acceptance. State:
`accepted` (how many), `table` (the rows, in order), `discarded` (given up). A
frame is outstanding until it is written or given up; `Persist` writes distinct
outstanding frames, `Discard` gives some up. A frame is never written twice.

**MemoryIngestion.** `queue` is `_queue` (0 is the `_STOP` object), `workerTask`
and `stopped` are the two attributes, `pc` and `hand` are where each worker task
is suspended and what it holds, `awaiting` is the task a caller in `stop_worker`
awaits. asyncio runs the code between two awaits without interruption, so every
such stretch is one action:

| action | code |
|---|---|
| `Enqueue` | `enqueue` (all frames of a POST, no await in between) |
| `Start`, `StopRequest`, `StopNoWorker`, `StopReturn` | `start_worker`; `stop_worker` up to its await, its early return, its end |
| `Retry` | a task's first step; `asyncio.TimeoutError`, back to the loop's test |
| `Dequeue` | `queue.get()` inside `wait_for` (Python 3.11: a task of its own takes the item before the worker resumes) |
| `GotStop`, `GotFrame` | the rest of the turn: fill the batch with `get_nowait`, stop at `_STOP`, begin to flush |
| `FlushOk`, `FlushFails` | `_flush`: the batch commits; or it raises, having committed or not |

**RedisIngestion.** Per process `pc`, `stopped`, `hand`; shared `base` (entries
lost in a reset), `group` (where it started, last delivered), `pel` (pending
entries) and the table. Redis is external and modelled by the commands the code
uses. Every call that can fail has an action in which it raises, having taken
effect or not (`StartFails`, `ReadFails`, `SkipFails`, `FlushFails`,
`AckFails`); `Crash` kills a process at any point, with a commit that may still
happen; `Reset` empties Redis. An XACK that raises kills the worker task, as in
the code (it is outside the try). Requests are enqueued while some process is
in its lifespan. "Given up" in the refinement is derived: a frame that no worker
will ever store (`Abandoned`).

**DriftEvaluation.** Concurrent requests share one monitor (`thresholds`,
`saved`), one event loop and the table. Per request: `pc`, the frames it
brought, what it read, its verdict, the thresholds in force when that was
reached (`judgedBy`, a history variable), its alert and how many frames it has
recorded. A frame is its timestamp; what a threshold is worth is the set of rows
it was calibrated from, `{}` for a configured one; divergences are not computed,
a verdict is chosen.

| action | code |
|---|---|
| `Begin` | `evaluate_telemetry`: frames of its own, a batch id, or neither |
| `ReadRecent`, `ReadWindow`, `ReadFails` | `get_recent_frames` (no row: on to the window); the oldest rows since the cutoff; either raises |
| `Calibrate`, `CalibrateFails` | `compute_calibrated_thresholds` and `_apply_calibrated_thresholds`, or the fall-back without enough rows; it raises, outside the `try` |
| `Judge`, `Restore` | the three computations, which may raise; the `finally` clause and on to the next await |
| `Alert` | `notify_if_drifted`, which swallows every failure |
| `Record`, `RecordFails` | `record_evaluation` of one frame; it raises, having committed or not |
| `Ingest`, `Slide`, `Crash` | the ingestion buffer's rows; time passes; the process is killed and returns with a new monitor |

`Calibrate`, `Judge` and `Restore` have no await between them: `Turn` says that
nobody else runs while a request is there. They are kept apart because an
exception ends one and not the others. Each request has the chance of every
interleaving at its awaits. The monitor that `create_app` builds has no notifier
(a monitor passed to it may, and the command line's has), hence the constant
`Notifier`. The command line runs one evaluation at a time and is an instance
with one request.

**OptimizationLoop.** `history` is `execution_history`; `Cycle` is the whole
method: simulation and selection (`Selectable`), the policy's checks at two
clock readings (`RuleViolated`), and the append of a blocked or an approved
entry with or without a time. `Tick` and `SetBack` move the clock between
cycles. Three facts about the code shrink the data: an intervention changes no
metric, so all counterfactual deltas are equal and the engine takes the factor
of the highest score; no action has parameters, so the bounds check never fires
here; and no result names a run, so the flapping check counts the whole history.

**ChangeExtraction, HistoryAnalysis.** `ChangeExtraction` holds the pure part:
`Chronological` (the stable sort by time), `DriftEvents` (adjacent full windows
whose sums differ by more than the threshold), `Changes` (one per consecutive
pair that differs, with the old values its details keep and its `change_id`) and
`Intervened` (the reversal of one change on a copy). `HistoryAnalysis` is a
client of the history API, or the one request of `/optimize`, and a writer:

| action | code |
|---|---|
| `Save` | another writer's `save`: in order or late, of a new run or of the last one again |
| `Detect` | `/drift`; the client goes on with one of the events, `/optimize` with the first |
| `Attribute` | `/attribution`: scores, ranking, confidence, and the scenarios built of the answer |
| `Simulate` | one turn of the loop of `run_counterfactual_analysis`: all interventions of a scenario, the estimate, the result |
| `Plan` | `generate_optimization_plan`: one action per factor, scored by the last result that names it |

Every action but `Save` reads the history as it is then. Arithmetic is kept as
integers: scores in ten-thousandths, as the code rounds them, estimates in
thousandths. A deployment is the four fields whose differences are changes; the
special values of `system_info` (absent, empty, a dict with `None`) are kept apart,
because the reversal treats them differently. The empty dict and the one whose
only entry is `None` are made by reversals alone: what is saved is
`asdict(RAGSystemInfo(...))`, which has all its fields, or nothing
(`AnalysisConstants`). A sort is a function of the ranks of the keys
(`StableSort`), a filter of the ranks of the places kept (`Kept`), a sum a
recursive function: in this form TLC evaluates them and the proofs reason about
them.

**DatabasePool, BenchmarkRun.** `DatabasePool` has the global `pool`, the state
of every pool asyncpg made, the lock, and where each user and each closer is.
Every stretch between two awaits is an action: `Request` (up to the first
await), `Locked` (the second test under the lock), `Create`, `CreateFails`,
`Acquire` (which raises on a pool that is closing), `Release`, `UseFails`,
`Catch`; `Close` up to its await, and `Closed`, which resets `_pool` whatever it
names by then. `BenchmarkRun` uses it:

| action | code |
|---|---|
| `Start`, `CacheHit` | `execute` begins; NaiveRAG's cached answer |
| `Expire`, `OthersCache` | a cache entry's time to live ends; another process writes one |
| `Plan`, `Embed`, `Complete`, `Reflect` | the LLM calls of an execution and what follows each |
| `CallFails` | an LLM call raises: tried again, or the benchmark ends |
| `Connect`, `Search`, `SearchFails` | a vector search begins, returns chunks or none, or yields the placeholder |
| `Validate`, `Prepare`, `Record`, `RecordFails` | a run without a document is skipped; `_ensure_ready`, `record_evaluation`, and the handler that swallows their failure |
| `Probe`, `ProbeEnds` | `check_health`, for whoever watches the process |
| `Signal`, `Shutdown`, `Finally` | a signal's task, `close_pool` returning, the `finally` clause |

A context is kept as the set of what it holds ("chunk", "placeholder"), an
answer as the number of its synthesis. The result cache is in Redis and outlives
the process: `cached` begins with any entries, placeholders among them. Two
history variables keep why a placeholder may be there: `broken` has the
executions in which PostgreSQL failed a search, `foreign` the queries for which
somebody else (an earlier run, another process) cached one. A signal closes the
pool and stops nothing; signals and probes come also while the final shutdown
waits, since the handlers stay installed and the loop runs; the process ends when
`Final`, the shutdown of the `finally` clause, is done.

**StreamingBuffer, LatentDrift.** A vector is its number of arrival and its
width. `Ingest` appends, or replaces the oldest ("fifo") or any element
("reservoir"); `FlushFails` is the condition under which `vstack` raises, and
`Examined` the track the gateway's flush looks at. The latent engine's score is
any of `Scores`; `ComputeDrift` updates the manager's window and takes the
threshold from it (`Exceeds`, with the variance kept exact by squaring both
sides), `ComputeOnce` and `ComputeDual` use the static threshold, `Fuse` and
`FuseDual` raise priors. `arrived` and `evidence` are history variables.

**JsonHistoryStore.** Names (`path`, `tmp`) refer to inodes, an open file keeps
its inode, mode "a" appends, mode "w" truncates at open and then overwrites from
its own offset. `Open`, `Copy`, `Close`, `Replace` are the four file operations
of `save`; `Crash` kills the writer, after any part of its buffer reached the
file (`TORN` is the beginning of a line). `Loaded` is what `load_all` returns,
malformed lines skipped.

## 3. Runs

| run | instance | what it shows |
|---|---|---|
| `memory_lifespan` | 1 caller, batch 2, posts of up to 2, 5 frames, 2 workers | order of rows, one live worker, complete stop, and, under fairness, stop returns and frames are flushed |
| `memory_overlap` | 2 callers, batch 2, 3 frames, 3 workers | types, conservation of frames, refinement of FrameDelivery with overlapping workers |
| `redis_delivery` | 2 processes, batch 2, 3 entries, 1 fault, 1 reset | types, recoverability, acknowledged means stored, refinement of FrameDelivery; under fairness shutdown completes and a running worker reads everything |
| `redis_at_least_once` | 1 process, 2 entries, 1 fault | **violated**: a pending entry is never read again |
| `drift_evaluation` | 2 requests, the buffer, 2 timestamps, baselines of 2 rows, requests without frames or with 2, 1 crash, with a notifier | own thresholds, rows follow the answer, alert before rows, every request ends |
| `optimization_policy` | 3 tracks, 2 changes, history of 3, times 0..5, cooldown 2, window 3, bound 2, 1 set-back | cooldown and flapping bound of approvals |
| `optimization_cooldown` | 1 track, 1 change | **violated**: blocked for the cooldown without a recent execution |
| `history_analysis` | window 1, threshold 0, 4 records of which 1 late or of a repeated run, 3 deployments, values 0 and 1, top 2 | which interventions are skipped, what a reversal restores, what an estimate rests on, how unsimulated actions rank, that events persist |
| `benchmark_run` | one query, any cache, the benchmark and a probe, a signal and the final shutdown, 2 pools, 0 or 1 sub-queries, 2 reflections, 3 attempts, 1 fault | few pools are forgotten, a placeholder has a cause, what the confidence is about; under fairness the run ends |
| `latent_stream` | capacities 1, 3, 4, widths 2 and 3, 3 arrivals per track; window 3, z 1, 3 scores, 2 fusions | what a buffer holds, why a flush fails, which scores cannot be detected, what a prior is |
| `json_store_crash` | 1 writer, 7 saves, 4 kills, torn files | only the oldest record can be lost, published files are final, replacing preserves records |
| `json_store_concurrent` | 2 writers, 3 saves | **violated**: a saved record is lost |

*What the properties of the later runs say.* `SkippedOnlyBehindRevert`: with a
history that grew in order, an intervention of a scenario misses its change only
if an earlier one reverted the record just before (the change then has another
id). `RevertIsExact`: a single reversal gives the record its predecessor's
deployment and touches nothing else, unless `system_info` came or went as a
whole. `EventsPersist`: saving in order only adds drift events. `FewOrphans`:
pools that nobody closes any more are fewer than calls of `close_pool` that
closed one, so that one shutdown, whenever it runs, forgets none.
`PlaceholderHasCause`: until somebody begins to close the pool, an answer made
without the documents, cached or recorded, is traced to a search that PostgreSQL
failed in the execution itself or, for NaiveRAG, in one of the same query, by this
process or another: a placeholder of an earlier run is served for as long as its
entry lives, but never for another query or pipeline, and no failure of the LLM, of
a probe or of another query's search brings one about.
`ConfidenceIsOfAnswer`: when the iterations run out the confidence is of the
answer before the returned one. `FlushFailsForCause`: a flush fails only because
of vectors that may still be buffered, under "reservoir" any since the last
clear. `OutliersNeedClamp`: a score in a window of n cannot exceed mean plus z
deviations while z is at least (n - 1)/sqrt(n), with the default z = 2 for the
second to the fifth score (the first is compared with the base threshold), unless
it is above the absolute maximum.

*Bounds.* A batch of two is the smallest that can be partly filled, full, and
cut short by `_STOP`; two workers show a restart, three with two callers let two
overlap while a third starts. Five frames fill two batches and leave one over.
For Redis two processes are the smallest number that share a group, three
entries a full batch and a rest; one fault and one reset meet every place of
both workers, and the proofs have no such bounds. In the loop a history of three
holds two approvals with a decision in between, times 0..5 reach past one
cooldown and one window. In the store four kills and seven saves let torn files
of several saves pile up and be published. Two requests are the smallest number
that share a monitor; a minimum of two baseline rows makes windows that are too
small, sufficient, and cut at the limit; a payload whose frames are in the
opposite order of their timestamps tells the order of recording from the order
of reading; one crash meets a request at each of its places. Four records hold
three changes, one more than `TopK`, so that an action goes without a simulation
and a scenario has two interventions on adjacent records; a window of one makes
an event of any two records. One query meets every interleaving of a benchmark
with the pool, and finds in the cache what others left or put there, or nothing;
that entries of several queries, or of an earlier execution of the same one, are
told apart is left to the proof, which has any queries. Two closers overlap each
other; two pools are one that a close takes away and one made after it. Capacity
1 gives tracks that take nothing, 3 and 4 tracks of one and of two vectors, and
three arrivals overflow both; a window of three scores slides after the third,
and with z = 1 a window of two is too short to detect anything and one of three
is not.

`MaxFrames`, `MaxStarts`, `MaxFaults`, `MaxResets`, `MaxCycles`, `MaxTime`,
`MaxCycleTime`, `MaxSetBacks`, `MaxRecords`, `MaxOdd`, `MaxPools`,
`MaxArrivals`, `MaxFusions`, `Payloads` and `MaxCrashes` bound behaviours only
and stand in guards of the environment's or the first action of an operation,
never in the middle of one. `MaxPools` stands in `Create`, but does not bind: with
two closers no behaviour asks for a third pool before the process exits. `MCLatentStream` runs the buffer
or the engine in a behaviour, which share no state. Symmetry (changes) is used
for safety only.

*Deadlock* is checked for the two buffers, the evaluation (where the ingestion
buffer and the clock go on when all requests have ended) and the latent engine. The
loop and the store stop at their bounds, the analysis when the plan is made, the
benchmark when the process exits, and their cfgs say so.

*Fairness.* `MemoryIngestion` assumes that the event loop eventually runs a
worker task that can step, that the database call returns or raises, and that a
caller whose awaited task is done resumes: weak fairness of `Worker(w)` and
`StopReturn(c)`. `RedisIngestion` assumes the same of worker tasks and of a
shutdown under way. No client is made to post, no process to start or stop, and
no fault to happen or to cease (faults are finitely many by the bound).
`DriftEvaluation` assumes weak fairness of `Step(r)`: asyncio resumes every task
that is ready, the notifier's call has a timeout, and a database call returns or
raises. That is one fairness condition per request, not per action, so nothing
forces a call to succeed. `BenchmarkRun` assumes that the benchmark goes on when
it can, that what a user of the pool has begun goes on, and that a close whose
connections are back returns. Probes, signals, faults, expiry and the entries of
other processes are never made to happen.

### Findings

* `RedisStreamBuffer` does not deliver at least once. It reads `">"` only and
  never claims pending entries (`redis_queue.py:130`), so a frame whose batch
  failed, whose reply was lost, or whose worker crashed remains pending for
  ever. What does hold is `Recoverable`: the entry is still in the group's
  pending list, so that a reader of pending entries would find it.
* The cooldown blocks without cause. A blocked action is remembered without a
  time and counts as executed now (`policy.py:147`); an action blocked once for
  the cooldown is blocked ever after.
* Concurrent saves lose records: the temporary file is shared and the copy and
  the replace are not atomic (`json_store.py:35-43`).

A further limit is stated by a property that holds: with a single writer that
is killed while the file object writes a long buffer, the oldest record can be
lost (`OnlyOldestIsLost` allows exactly that one), because the next save appends
its copy to the torn line. With two or more callers of `stop_worker`, the
properties of `memory_lifespan` do not hold; the application has one.

Observations made while modelling, which no run states as a violation; the
models do what the code does:

* `/optimize` analyses the earliest drift event, which its comment calls the
  most significant (`api/routes/optimization.py:55`).
* A combined scenario passes over an intervention whose change was renamed by
  reverting the record before it, although `scenario.py:24-25` says that all are
  removed; the exceptions of `SkippedOnlyBehindRevert` are exactly these.
* A `system_info` that was added or removed as a whole is not restored
  (`simulator.py:46-48`, `102`), and a run that was evaluated twice is reverted in
  its first record.
* The estimate is made of the metric's values, which no intervention alters, so
  that all scenarios over one history have the same improvement; an action that
  was never simulated has an improvement of 0 and precedes simulated ones below
  0; changes after the drift are candidates, and the boost for a change inside
  the window changes nothing.
* In the threshold manager a higher sensitivity makes detection rarer, contrary
  to `adaptive.py:26`; the manager is not passed to any engine by the
  application.
* The reservoir replaces an element on every arrival, with the newest always in
  the buffer: not the uniform sample of `streaming.py:24`. The gateway's flush
  compares with a synthetic reference, not with a buffered one.
* A signal closes the pool without stopping the benchmark, which creates it
  anew; nothing schedules `check_health`.

## 4. Proofs

Every invariant and action property of the passing runs is also a theorem, for
all values of the constants; what liveness says stays with TLC.

**MemoryIngestion_proofs**, for every batch size, set of callers and bound:

* `TypeCorrect`: `Spec => []TypeOK`;
* `FramesConserved`: `Spec => []EveryFrameInOnePlace`;
* `ImplementsDelivery`: `Spec => DeliverySpec`, the refinement of FrameDelivery.

The inductive invariant `IInv` has four parts. `EveryFrameInOnePlace` speaks of
sets only and is not inductive: a frame could be twice in the queue, and a
worker's hand could hold something while it has nothing to do. `ControlOK` gives
the types of the control state, `SequencesOK` says that queue, hands and table
hold no frame twice, and `HandOK` ties what a worker holds to where it is
(nothing outside "got" and "flush", one item at "got", frames only at "flush").
Every action is a lemma of its own; the refinement shows that `Enqueue` with
frames is `Accept`, `FlushOk` is `Persist`, `FlushFails` is `Discard` or
`Persist`, and every other action a stutter. `AcceptedOnceStoredOnce` proves of
FrameDelivery alone what it is worth, no second row for a frame and none after it
was given up; with the refinement this is `NoSecondRow` here, and holds of the
Redis buffer in the same way.

Three more theorems assume `OneCaller`, that one coroutine calls `start_worker`
and `stop_worker`, which is what the lifespan of `api/app.py` does:
`RowsInOrder`, `OneWorkerAtATime` and `StopLeavesNothingBehind`. Without it they
are false, as TLC finds: overlapping calls leave two workers. `LInv`
adds four parts to `IInv`. `StopOnce` follows the one `_STOP`: it is in the queue
or in a hand, not in both, and gone once `_stopped` is set. `CurrentOK` ties the
tasks to `_worker_task`. `MarkOK` says that what is queued behind the `_STOP` of
the `stop_worker` under way was accepted after its call. `OrderOK` says that
table, hand and queue are ascending and follow each other.

**RedisIngestion_proofs**, for any number of processes, batch size, faults and
resets: `TypeCorrect`, `AckedIsStoredHolds`, `RecoverableHolds` and
`ImplementsDelivery`. `IInv` adds two parts to the types and to `AckedIsStored`.
`HandOK` says that what a worker holds was delivered, is held by nobody else and
at most once in its batch, not yet stored at "got" and stored at "ack"; new
deliveries are beyond everything held or stored, which is how two processes
never store one entry. `GroupOK` says where a group starts: behind what a reset
lost, and, while there was none, at the beginning of the stream, because no
process serves before the group exists. `Recoverable` follows without an
induction of its own: an entry beyond the last delivered one is unread, and the
others are `AckedIsStored`'s. The steps are grouped by what they do (move, drop
the batch, commit it, deliver), since most failures differ from a success only
in that. In the refinement a frame is given up when it is neither stored, nor
unread, nor held (`Abandoned`): a lemma shows that this set never shrinks and
never meets the table, so that every step that commits nothing is `Discard`, an
enqueue is `Accept`, and a commit is `Persist`, in whichever of the three actions
it happens.

**OptimizationLoop_proofs** proves `TypeCorrect`, `CooldownHolds`
(`Spec => []CooldownRespected`) and `FlappingHolds` (`Spec => []FlappingBounded`)
for every history length, policy and clock. The cooldown check subtracts the
time of an entry only if it has one, so the induction adds `ApprovedIsStamped`.
`CycleAppends` says what a cycle does to the history: one entry, blocked, or
approved after both checks passed. The cooldown then follows because the check
at `now` found the last approval old enough and the stamp is taken later; the
flapping bound because the approvals in the new window are among the entries
the check counted (a subset of a finite set).

**DriftEvaluation_proofs** proves `TypeCorrect`, `OwnThresholdsHold`,
`RowsFollowAnswerHolds` and `AlertedFirstHolds` for any number of requests and
frames, any limits, with or without a notifier. None of the three properties is
inductive. For the thresholds, `OneTurn` says that one request at most is between
two awaits, and `MonitorOK` that the monitor is configured unless that request
overrides it, in which case the thresholds are its own and the saved ones the
configured: together they give the value `Judge` reads and the value `Restore`
puts back, also after an exception. For rows and alerts, `RowsOK` says which
rows a request has at each place (exactly those of its first `written` frames
while it records) and `AlertOK` what alert and verdict it may have there.
`Ingest` cannot disturb this because its rows carry another writer, and a
request's own rows are tied to no other request's.

**BenchmarkRun_proofs** proves `PoolForgetsFew` about `DatabasePool` among any
users and closers, `UsesPool` (a benchmark implements `PoolSpec`: each of its
steps is one of the pool's or leaves it alone), hence `FewOrphansHold`, and
`ConfidenceHolds`, `PlaceholderHolds` and `BenchmarkTypes` (which no run
checks). `FewOrphans` needs `LockOK` (whoever creates a pool holds the lock and
there is none yet) and `ClosingOK` (until one close has returned, the pool every
other one closes is still `_pool`): a close that returns adds itself to
`Finished` and at most one pool to `Orphans`, and the first one adds none.
`VerdictOK` says at each await of an execution which answer the last verdict is
about. `PlaceholderHolds` is about the time before a shutdown begins:
`PoolServes` says that every pool handed out is open then, so that a use fails
by a failure of the database only, and `Traced` follows the placeholder from a
failed search (`broken`) through the context into the cache and the rows, and
from the entries of others (`foreign`) through a hit; causes are never taken
back (`CausesStay`). `BenchmarkTypes` needs `Progress`: how many syntheses and
reflections an execution has made at each await, and that there is a context
where a run is recorded.

**LatentStream_proofs** proves `BufferSamples` and `FlushHolds` about the
streaming buffer, for every capacity and both strategies. `BufferInv` adds
`Numbered` (the k-th arrival has the number k), by which replacing an element
keeps the numbers distinct. About the latent engine it proves `PriorHolds`, for
any scores, sensitivity and sequence of fusions, from `ResultsOK` (what a result
may carry) and `EvidenceOK` (the evidence is a set of probabilities with the
prior as maximum), and `OutliersAreClamped`: no element of a sample of n is more
than (n - 1) / sqrt(n) deviations above its mean. The lemma behind it is
Cauchy's inequality for the sum and the sum of squares of a prefix, by induction
on its length; the property then follows from the window alone.

**HistoryAnalysis_proofs** proves `AnalysisTypes`, `EventsStayEvents` (an action
property), `ReferenceIsBeforeDrift`, `UnsimulatedFirstOnlyBeforeHarm`,
`SkipsComeOfReverts` and `RevertsAreExact` for any deployments, window, threshold,
top-k and history. Most of it is about operators:

* `StableSort` is a permutation, in order of the keys, with equal keys in their
  old order (`SortingPermutes`: ranks are distinct and fill 1..n); sorting a
  history that one record was appended to in order appends it to the sorted one;
* `Kept` gives the kept elements in order; what it keeps of a longer sequence
  begins with what it keeps of the shorter one;
* scores and confidences are shares of 1, since the rounding of a ratio of at
  most 1 is at most 1;
* an intervention keeps every record's run, time and place (`Like`), and changes
  one record at most (`TouchesOnePlace`); so along a scenario the records of
  changes not yet reverted are those of the history (`SparedStays`), and a change
  is found unless the record before its own was reverted (`FoundOrBehind`).

The invariants are `HistoryInv` (records of the given deployments, runs numbered
as evaluated), `RequestInv` (what each step of the request leaves empty or has
filled), `ScenarioInv` (the scenarios to come are about changes of the history as
it is now, unless a record came late, and about different runs where none was
evaluated twice) and `EarlyInv` (a window of records lies before the drift).
`SkippedOnlyBehindRevert` and `RevertIsExact` need `ScenarioInv`: the attribution
names changes of a history that other writers extend before the simulation looks
them up.

**JsonHistoryStore_proofs** proves `StoreTypes` for any writers, and
`OthersSurvive`, `PublishedFilesAreFinal` and `ReplacePreserves` under `OneWriter`;
with two writers TLC finds each of the three violated. `JInv` follows the lines that
`load_all` can parse (`Whole`): the published file ends with one, begins with the
oldest saved record or a torn line, and has every saved record but the oldest
(`PathOK`); whatever kills left in the temporary file begins in the same way
(`TmpOK`), so that a torn line can only swallow the oldest record of the copy that
the next `save` appends; and a temporary file that is closed has all of them and
the new record (`WriterOK`).

The assumptions are those named in the modules (`IngestionConstants`,
`RedisConstants`, `LoopConstants`, `EvaluationConstants`, `PoolConstants`,
`BenchmarkConstants`, `BufferConstants`, `LatentConstants`, `StoreConstants`,
`ExtractionConstants`, `AnalysisConstants`): the ranges of the constants, what a
deployment's `system_info` is, and that there are finitely many closers, whose
number `FewOrphans` speaks of. TLC evaluates them in every run.

Recursive definitions are recursive functions, and the inductions over them go by
a set instead of a predicate (`SetInduction`: a set that holds 0, and n + 1 with
n, holds every natural number; by a least counterexample).

*Only model-checked:* liveness and the fairness it rests on (`StopReturns`,
`FramesAreFlushed`, `ShutdownCompletes`, `FramesAreRead`, `RequestsEnd`,
`RunEnds`), which are out of the prover's reach; and the three violations, whose
counterexamples are the result.

## 5. Plan

1. *Done:* FrameDelivery and both buffers, OptimizationLoop, DriftEvaluation,
   BenchmarkRun over DatabasePool, StreamingBuffer and LatentDrift,
   HistoryAnalysis over ChangeExtraction, JsonHistoryStore, all with proofs.
2. *Evaluation, continued:* an abstract evaluator (each request judged at one
   instant by its own baseline) as a refinement target of DriftEvaluation, and
   `AlertManager` with its rate limit per severity.
3. *Proofs:* that the JSON store of one writer implements a history that only
   grows; what the candidates' ranking promises (the first factor has the
   highest score).
4. *Request limits:* the sliding windows of the rate limiter (with a limit of 0
   it would read the first element of an empty list).

## 6. Not modelled

Floating-point statistics (divergences, PCA, KDE, kernel distances): a model
chooses their outcome. The propagation of probabilities through a causal graph and its
explanation texts; interventions of action `modify`, which nothing builds; what
language models and vector databases answer; dashboards, most command
lines, deployment files, metrics and logging, the `_pending` gauge of the Redis
buffer among them, which other processes' entries let drift. Overlapping calls
of the Redis buffer's `start_worker` in one process, which the lifespan does not
make. Process crashes keep the file system and PostgreSQL as they are: a loss of
power (no fsync in `save`) is not modelled. The evaluation leaves out rows that
cannot be decoded as frames and the `calibrate_thresholds` of the command line;
the repetition of a failed request is a new request, and that evaluated, drifted
rows become part of later baselines is in the model but no property. In the
benchmark a text, a score and a token count are left out, a call that times
out is a failed call, and a `pool.close()` never raises. `WORKER_FLUSH_INTERVAL = 0`, with which the
in-memory worker never takes an item, is a constant of `MemoryIngestion` that
no run uses.
