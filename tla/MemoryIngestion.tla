-------------------------- MODULE MemoryIngestion --------------------------
(***************************************************************************)
(* AsyncIngestionBuffer (ingestion/queue.py): the in-process buffer between*)
(* POST /v1/telemetry/frames and DriftStore.  Tasks run on one asyncio     *)
(* event loop, so code between two awaits is one step.  The parties are    *)
(* the HTTP handlers (enqueue), the Callers of start_worker / stop_worker, *)
(* and the worker tasks (_run, _flush).  Frames are numbered in the order  *)
(* in which they are accepted.                                             *)
(*                                                                         *)
(* The loop that runs this code is Python 3.11's, where                    *)
(* wait_for(queue.get()) runs the get in a task of its own: the item is    *)
(* taken (Dequeue) before the worker resumes and fills its batch (GotStop, *)
(* GotFrame).                                                              *)
(***************************************************************************)
EXTENDS Integers, Sequences, Functions

CONSTANTS
    BatchSize,      \* batch_size, after max(1, batch_size)
    FlushInterval,  \* flush_interval in seconds, after max(0.0, ...)
    Callers,        \* coroutines that call start_worker and stop_worker
    MaxPost,        \* bound: frames in one POST
    MaxFrames,      \* bound: frames accepted in a behaviour
    MaxStarts       \* bound: worker tasks created in a behaviour

ASSUME IngestionConstants ==
    /\ BatchSize \in Nat \ {0}
    /\ FlushInterval \in Nat
    /\ MaxPost \in Nat
    /\ MaxFrames \in Nat
    /\ MaxStarts \in Nat

Tasks == 1..MaxStarts
NoTask == 0
STOP == 0           \* the _STOP sentinel; frames are numbered from 1

VARIABLES
    queue,          \* self._queue
    workerTask,     \* self._worker_task
    stopped,        \* self._stopped, shared by every worker task
    pc,             \* where each worker task is suspended
    hand,           \* what a worker task holds: the item it got, then its batch
    awaiting,       \* the task a caller inside stop_worker awaits
    mark,           \* history: frames accepted when the caller queued its _STOP
    accepted,       \* frames accepted (answered 202)
    table,          \* rows written to telemetry_evaluations, by frame
    discarded       \* frames of batches that were logged as failed and not written

workerVars == <<workerTask, stopped, pc, hand>>
callerVars == <<awaiting, mark>>
deliveryVars == <<accepted, table, discarded>>
vars == <<queue, workerVars, callerVars, deliveryVars>>

(* is_running: the worker task exists and is not done().                   *)
Running == workerTask # NoTask /\ pc[workerTask] # "done"
Live(w) == pc[w] \notin {"unborn", "done"}

Init ==
    /\ queue = << >>
    /\ workerTask = NoTask
    /\ stopped = FALSE
    /\ pc = [w \in Tasks |-> "unborn"]
    /\ hand = [w \in Tasks |-> << >>]
    /\ awaiting = [c \in Callers |-> NoTask]
    /\ mark = [c \in Callers |-> 0]
    /\ accepted = 0
    /\ table = << >>
    /\ discarded = {}
-----------------------------------------------------------------------------
(* enqueue: every frame of the POST is put without an await in between.    *)
Enqueue(n) ==
    /\ accepted + n <= MaxFrames
    /\ queue' = queue \o [i \in 1..n |-> accepted + i]
    /\ accepted' = accepted + n
    /\ UNCHANGED <<workerVars, callerVars, table, discarded>>

(* start_worker when no worker runs; when one does, it returns at once.    *)
Start(c) ==
    /\ awaiting[c] = NoTask
    /\ ~Running
    /\ \E w \in Tasks :
        /\ pc[w] = "unborn"
        /\ \A v \in 1..(w - 1) : pc[v] # "unborn"
        /\ workerTask' = w
        /\ pc' = [pc EXCEPT ![w] = "created"]
    /\ stopped' = FALSE
    /\ UNCHANGED <<queue, hand, callerVars, deliveryVars>>

(* Mutants of StopRequest: stops the loop by the flag and queues no _STOP; *)
(* does not await the task.                                                *)
StopDetaches(c) ==
    /\ awaiting[c] = NoTask
    /\ Running
    /\ queue' = Append(queue, STOP)
    /\ workerTask' = NoTask
    /\ UNCHANGED <<stopped, pc, hand, callerVars, deliveryVars>>

StopByFlag(c) ==
    /\ awaiting[c] = NoTask
    /\ Running
    /\ stopped' = TRUE
    /\ awaiting' = [awaiting EXCEPT ![c] = workerTask]
    /\ mark' = [mark EXCEPT ![c] = accepted]
    /\ UNCHANGED <<queue, workerTask, pc, hand, deliveryVars>>

(* stop_worker while a worker runs: queue _STOP, then await the task.      *)
StopRequest(c) ==
    /\ awaiting[c] = NoTask
    /\ Running
    /\ queue' = Append(queue, STOP)
    /\ awaiting' = [awaiting EXCEPT ![c] = workerTask]
    /\ mark' = [mark EXCEPT ![c] = accepted]
    /\ UNCHANGED <<workerVars, deliveryVars>>

(* stop_worker's early return.                                             *)
StopNoWorker(c) ==
    /\ awaiting[c] = NoTask
    /\ ~Running
    /\ workerTask' = NoTask
    /\ UNCHANGED <<queue, stopped, pc, hand, callerVars, deliveryVars>>

(* The awaited task is done: stop_worker resumes and returns.              *)
StopReturn(c) ==
    /\ awaiting[c] # NoTask
    /\ pc[awaiting[c]] = "done"
    /\ workerTask' = NoTask
    /\ awaiting' = [awaiting EXCEPT ![c] = NoTask]
    /\ UNCHANGED <<queue, stopped, pc, hand, mark, deliveryVars>>
-----------------------------------------------------------------------------
(* Mutant of LoopHead: "while True".                                       *)
LoopForever(s) == "get"

(* The test of "while not self._stopped".                                  *)
LoopHead(s) == IF s THEN "done" ELSE "get"

(* A new task's first step, and a wait_for that timed out: back to the     *)
(* loop's test.  With flush_interval 0 every wait_for times out.           *)
Retry(w) ==
    /\ pc[w] \in {"created", "get"}
    /\ pc' = [pc EXCEPT ![w] = LoopHead(stopped)]
    /\ UNCHANGED <<queue, workerTask, stopped, hand, callerVars, deliveryVars>>

(* Mutants of Dequeue: the newest item first; only full batches.           *)
DequeueNewest(w) ==
    /\ pc[w] = "get"
    /\ FlushInterval > 0
    /\ queue # << >>
    /\ hand' = [hand EXCEPT ![w] = <<queue[Len(queue)]>>]
    /\ queue' = SubSeq(queue, 1, Len(queue) - 1)
    /\ pc' = [pc EXCEPT ![w] = "got"]
    /\ UNCHANGED <<workerTask, stopped, callerVars, deliveryVars>>

DequeueWhenFull(w) ==
    /\ pc[w] = "get"
    /\ FlushInterval > 0
    /\ Len(queue) >= BatchSize \/ STOP \in Range(queue)
    /\ hand' = [hand EXCEPT ![w] = <<Head(queue)>>]
    /\ queue' = Tail(queue)
    /\ pc' = [pc EXCEPT ![w] = "got"]
    /\ UNCHANGED <<workerTask, stopped, callerVars, deliveryVars>>

(* queue.get() completes before the timeout.                               *)
Dequeue(w) ==
    /\ pc[w] = "get"
    /\ FlushInterval > 0
    /\ queue # << >>
    /\ hand' = [hand EXCEPT ![w] = <<Head(queue)>>]
    /\ queue' = Tail(queue)
    /\ pc' = [pc EXCEPT ![w] = "got"]
    /\ UNCHANGED <<workerTask, stopped, callerVars, deliveryVars>>

(* The item is _STOP: no batch, and the loop's test ends the task.         *)
GotStop(w) ==
    /\ pc[w] = "got"
    /\ hand[w] = <<STOP>>
    /\ hand' = [hand EXCEPT ![w] = << >>]
    /\ stopped' = TRUE
    /\ pc' = [pc EXCEPT ![w] = "done"]
    /\ UNCHANGED <<queue, workerTask, callerVars, deliveryVars>>

(* Mutant of Takes: the inner loop does not look for _STOP.                *)
TakesAnything(n) ==
    /\ n \in 0..(BatchSize - 1)
    /\ n <= Len(queue)
    /\ n < BatchSize - 1 => n = Len(queue)

(* get_nowait takes n frames: until the batch is full, the queue empty, or *)
(* the next item a _STOP.                                                  *)
Takes(n) ==
    /\ n \in 0..(BatchSize - 1)
    /\ n <= Len(queue)
    /\ \A i \in 1..n : queue[i] # STOP
    /\ n < BatchSize - 1 /\ n < Len(queue) => queue[n + 1] = STOP

(* The item is a frame: fill the batch and start to flush it.  A _STOP met *)
(* while there was room in the batch is consumed.                          *)
GotFrame(w) ==
    /\ pc[w] = "got"
    /\ hand[w] # <<STOP>>
    /\ \E n \in 0..(BatchSize - 1) :
        /\ Takes(n)
        /\ hand' = [hand EXCEPT ![w] = @ \o SubSeq(queue, 1, n)]
        /\ IF n < BatchSize - 1 /\ n < Len(queue)
           THEN /\ queue' = SubSeq(queue, n + 2, Len(queue))
                /\ stopped' = TRUE
           ELSE /\ queue' = SubSeq(queue, n + 1, Len(queue))
                /\ UNCHANGED stopped
    /\ pc' = [pc EXCEPT ![w] = "flush"]
    /\ UNCHANGED <<workerTask, callerVars, deliveryVars>>

(* Mutant of FlushOk: the batch is not a new list on each turn.            *)
FlushOkKeepsBatch(w) ==
    /\ pc[w] = "flush"
    /\ table' = table \o hand[w]
    /\ pc' = [pc EXCEPT ![w] = LoopHead(stopped)]
    /\ UNCHANGED <<queue, workerTask, stopped, hand, callerVars, accepted, discarded>>

(* batch_store_frames commits the rows (executemany is one transaction).   *)
FlushOk(w) ==
    /\ pc[w] = "flush"
    /\ table' = table \o hand[w]
    /\ hand' = [hand EXCEPT ![w] = << >>]
    /\ pc' = [pc EXCEPT ![w] = LoopHead(stopped)]
    /\ UNCHANGED <<queue, workerTask, stopped, callerVars, accepted, discarded>>

(* Mutant of FlushFails: a failed batch is queued again.                   *)
FlushFailsRequeues(w) ==
    /\ pc[w] = "flush"
    /\ table' \in {table, table \o hand[w]}
    /\ queue' = queue \o hand[w]
    /\ hand' = [hand EXCEPT ![w] = << >>]
    /\ pc' = [pc EXCEPT ![w] = LoopHead(stopped)]
    /\ UNCHANGED <<workerTask, stopped, callerVars, accepted, discarded>>

(* batch_store_frames raises: the error is logged and the batch dropped.   *)
(* The transaction rolled back, or it committed and the reply was lost.    *)
FlushFails(w) ==
    /\ pc[w] = "flush"
    /\ \/ /\ discarded' = discarded \cup Range(hand[w])
          /\ UNCHANGED table
       \/ /\ table' = table \o hand[w]
          /\ UNCHANGED discarded
    /\ hand' = [hand EXCEPT ![w] = << >>]
    /\ pc' = [pc EXCEPT ![w] = LoopHead(stopped)]
    /\ UNCHANGED <<queue, workerTask, stopped, callerVars, accepted>>

Worker(w) ==
    \/ Retry(w)
    \/ Dequeue(w)
    \/ GotStop(w)
    \/ GotFrame(w)
    \/ FlushOk(w)
    \/ FlushFails(w)

Next ==
    \/ \E n \in 1..MaxPost : Enqueue(n)
    \/ \E c \in Callers : Start(c)
    \/ \E c \in Callers : StopRequest(c)
    \/ \E c \in Callers : StopNoWorker(c)
    \/ \E c \in Callers : StopReturn(c)
    \/ \E w \in Tasks : Worker(w)

Spec == Init /\ [][Next]_vars

(* The event loop runs every ready task, and batch_store_frames returns or *)
(* raises: a worker that can step does, and a caller whose task is done    *)
(* resumes.  Nothing makes a client post or a caller start or stop.        *)
Fairness ==
    /\ \A w \in Tasks : WF_vars(Worker(w))
    /\ \A c \in Callers : WF_vars(StopReturn(c))

FairSpec == Spec /\ Fairness
-----------------------------------------------------------------------------
(* Every variable ranges over the values its Python counterpart can have.  *)
TypeOK ==
    /\ queue \in Seq(0..accepted)
    /\ workerTask \in Tasks \cup {NoTask}
    /\ stopped \in BOOLEAN
    /\ pc \in [Tasks -> {"unborn", "created", "get", "got", "flush", "done"}]
    /\ hand \in [Tasks -> Seq(0..accepted)]
    /\ awaiting \in [Callers -> Tasks \cup {NoTask}]
    /\ mark \in [Callers -> 0..accepted]
    /\ accepted \in 0..MaxFrames
    /\ table \in Seq(1..accepted)
    /\ discarded \in SUBSET (1..accepted)

Queued == Range(queue) \ {STOP}
Held(w) == Range(hand[w]) \ {STOP}

(* No accepted frame is lost from sight or duplicated between enqueue,     *)
(* _run and _flush, however many workers overlap: it waits in the queue,   *)
(* or is held by one worker, or is written, or was in a failed batch.      *)
EveryFrameInOnePlace ==
    /\ 1..accepted = Queued \cup (UNION {Held(w) : w \in Tasks})
                         \cup Range(table) \cup discarded
    /\ Queued \cap (Range(table) \cup discarded) = {}
    /\ \A w \in Tasks : Held(w) \cap (Queued \cup Range(table) \cup discarded) = {}
    /\ \A v, w \in Tasks : v # w => Held(v) \cap Held(w) = {}
    /\ Range(table) \cap discarded = {}

(* The buffer implements the abstract delivery specification: whatever     *)
(* start_worker, stop_worker and the database do, a frame gets at most one *)
(* row, and none once its batch was given up.                              *)
Delivery == INSTANCE FrameDelivery
DeliverySpec == Delivery!Spec

(* With start_worker and stop_worker called by one coroutine, rows are     *)
(* written in the order in which the frames were accepted, across restarts *)
(* of the worker and failed batches.                                       *)
StoredInOrder ==
    \A i, j \in DOMAIN table : i < j => table[i] < table[j]

(* is_running tells the truth (readyz relies on it): a task that can still *)
(* run is the one _worker_task names, so a second worker is never started. *)
LiveWorkerIsCurrent ==
    \A w \in Tasks : Live(w) => workerTask = w

(* When stop_worker returns, no frame accepted before it was called is     *)
(* still buffered: each is written or was in a batch that failed.          *)
StopFlushesEarlierFrames ==
    \A c \in Callers :
        awaiting[c] # NoTask /\ pc[awaiting[c]] = "done"
            => 1..mark[c] \subseteq Range(table) \cup discarded

(* stop_worker returns: the worker reaches the _STOP, whatever the clients *)
(* post and the database does meanwhile.                                   *)
StopReturns ==
    \A c \in Callers : awaiting[c] # NoTask ~> awaiting[c] = NoTask

(* A queued frame is eventually flushed, unless the worker is stopped.     *)
FramesAreFlushed ==
    \A f \in 1..MaxFrames :
        f \in Queued ~> f \in Range(table) \cup discarded \/ ~Running
=============================================================================
