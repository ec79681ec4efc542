--------------------------- MODULE RedisIngestion ---------------------------
(***************************************************************************)
(* RedisStreamBuffer (ingestion/redis_queue.py) as the service deploys it: *)
(* several uvicorn worker processes, each with its own buffer object and   *)
(* worker task, over one Redis stream and one consumer group, all under    *)
(* the same consumer name.  A process follows the lifespan of api/app.py:  *)
(* start_worker, then serve requests (enqueue), then stop_worker.          *)
(*                                                                         *)
(* Redis itself is external: XADD in a MULTI, XGROUP CREATE at "$",        *)
(* XREADGROUP ">" and XACK as this code uses them.  Stream entries are     *)
(* numbered in the order in which they land in the stream.                 *)
(***************************************************************************)
EXTENDS Integers, Sequences, SequencesExt

CONSTANTS
    Procs,          \* processes of the service
    BatchSize,      \* batch_size, after max(1, batch_size)
    MaxPost,        \* bound: frames in one POST
    MaxFrames,      \* bound: entries added in a behaviour
    MaxFaults,      \* bound: crashes, failed calls and lost replies
    MaxResets       \* bound: times Redis comes back without its data

ASSUME RedisConstants ==
    /\ BatchSize \in Nat \ {0}
    /\ MaxPost \in Nat
    /\ MaxFrames \in Nat
    /\ MaxFaults \in Nat
    /\ MaxResets \in Nat

VARIABLES
    pc,             \* where each process, and its worker task in _run, is
    stopped,        \* self._stopped of each process
    hand,           \* msg_ids a worker task read and has not disposed of
    base,           \* entries up to this one were lost in a reset of Redis
    group,          \* the consumer group: where it started, last delivered
    pel,            \* the group's pending entries: delivered, not acknowledged
    undecodable,    \* entries the worker cannot turn into a frame
    accepted,       \* number of entries that landed in the stream
    table,          \* rows of telemetry_evaluations, by entry
    faults,         \* faults so far
    resets          \* resets so far

procVars == <<pc, stopped, hand>>
redisVars == <<base, group, pel>>
entryVars == <<undecodable, accepted>>
boundVars == <<faults, resets>>
vars == <<procVars, redisVars, entryVars, table, boundVars>>

NoGroup == [start |-> -1, last |-> -1]

(* is_running: the worker task exists and is not done().                   *)
Running(p) == pc[p] \in {"head", "read", "got", "ack"}

(* Between start_worker's return and the shutdown of the lifespan.         *)
Serving(p) == pc[p] # "down" /\ ~stopped[p]

Unread == (IF group = NoGroup THEN base + 1 ELSE group.last + 1)..accepted

Init ==
    /\ pc = [p \in Procs |-> "down"]
    /\ stopped = [p \in Procs |-> FALSE]
    /\ hand = [p \in Procs |-> << >>]
    /\ base = 0
    /\ group = NoGroup
    /\ pel = {}
    /\ undecodable = {}
    /\ accepted = 0
    /\ table = << >>
    /\ faults = 0
    /\ resets = 0

Fault == faults < MaxFaults /\ faults' = faults + 1 /\ UNCHANGED resets
NoFault == UNCHANGED boundVars
-----------------------------------------------------------------------------
(* enqueue: the XADDs of a POST land together (the pipeline is a MULTI).   *)
(* Whether the reply arrives makes no difference to the stream.            *)
Enqueue(n) ==
    /\ \E p \in Procs : Serving(p)
    /\ accepted + n <= MaxFrames
    /\ accepted' = accepted + n
    /\ \E bad \in SUBSET ((accepted + 1)..(accepted + n)) :
        undecodable' = undecodable \cup bad
    /\ UNCHANGED <<procVars, redisVars, table>>
    /\ NoFault

(* Mutant of EnsureConsumerGroup: starts after the next entry, not "$".    *)
EnsureConsumerGroupPastNext ==
    group' = IF group = NoGroup
             THEN [start |-> accepted + 1, last |-> accepted + 1] ELSE group

(* XGROUP CREATE id="$" mkstream: the group starts after the last entry;   *)
(* BUSYGROUP, an existing group, is left as it is.                         *)
EnsureConsumerGroup ==
    group' = IF group = NoGroup THEN [start |-> accepted, last |-> accepted] ELSE group

(* start_worker, at the start of the lifespan.                             *)
Start(p) ==
    /\ pc[p] = "down"
    /\ EnsureConsumerGroup
    /\ pc' = [pc EXCEPT ![p] = "head"]
    /\ stopped' = [stopped EXCEPT ![p] = FALSE]
    /\ UNCHANGED <<hand, base, pel, entryVars, table>>
    /\ NoFault

(* XGROUP CREATE fails, having landed or not: the process does not start.  *)
StartFails(p) ==
    /\ pc[p] = "down"
    /\ EnsureConsumerGroup \/ UNCHANGED group
    /\ UNCHANGED <<procVars, base, pel, entryVars, table>>
    /\ Fault

(* stop_worker, at the end of the lifespan: set the flag, await the task.  *)
StopRequest(p) ==
    /\ Serving(p)
    /\ Running(p)
    /\ stopped' = [stopped EXCEPT ![p] = TRUE]
    /\ UNCHANGED <<pc, hand, redisVars, entryVars, table>>
    /\ NoFault

(* stop_worker returns: the task ended, or had died before the call; or it *)
(* raises what the task raised.  The lifespan is over either way.          *)
StopReturn(p) ==
    /\ pc[p] = "ended" \/ pc[p] = "dead"
    /\ pc' = [pc EXCEPT ![p] = "down"]
    /\ UNCHANGED <<stopped, hand, redisVars, entryVars, table>>
    /\ NoFault
-----------------------------------------------------------------------------
(* Mutant of LoopHead: "while True".                                       *)
LoopForever(p) ==
    /\ pc[p] = "head"
    /\ pc' = [pc EXCEPT ![p] = "read"]
    /\ UNCHANGED <<stopped, hand, redisVars, entryVars, table>>
    /\ NoFault

(* The test of "while not self._stopped".                                  *)
LoopHead(p) ==
    /\ pc[p] = "head"
    /\ pc' = [pc EXCEPT ![p] = IF stopped[p] THEN "ended" ELSE "read"]
    /\ UNCHANGED <<stopped, hand, redisVars, entryVars, table>>
    /\ NoFault

(* XREADGROUP ">" delivers the next entries, count at most: they become    *)
(* pending for the group.                                                  *)
NextBatch ==
    LET unread == accepted - group.last IN
    [i \in 1..(IF unread < BatchSize THEN unread ELSE BatchSize) |-> group.last + i]

(* Mutant of Deliver: XREADGROUP with NOACK.                               *)
DeliverNoAck ==
    /\ group # NoGroup
    /\ Unread # {}
    /\ group' = [group EXCEPT !.last = @ + Len(NextBatch)]
    /\ UNCHANGED <<base, pel>>

Deliver ==
    /\ group # NoGroup
    /\ Unread # {}
    /\ group' = [group EXCEPT !.last = @ + Len(NextBatch)]
    /\ pel' = pel \cup Range(NextBatch)
    /\ UNCHANGED base

(* Mutant of Read: waits for a full batch.                                 *)
ReadWhenFull(p) ==
    /\ pc[p] = "read"
    /\ Len(NextBatch) = BatchSize
    /\ Deliver
    /\ hand' = [hand EXCEPT ![p] = NextBatch]
    /\ pc' = [pc EXCEPT ![p] = "got"]
    /\ UNCHANGED <<stopped, entryVars, table>>
    /\ NoFault

Read(p) ==
    /\ pc[p] = "read"
    /\ Deliver
    /\ hand' = [hand EXCEPT ![p] = NextBatch]
    /\ pc' = [pc EXCEPT ![p] = "got"]
    /\ UNCHANGED <<stopped, entryVars, table>>
    /\ NoFault

(* block expires, or the group is gone (NOGROUP): sleep and try again.     *)
ReadNothing(p) ==
    /\ pc[p] = "read"
    /\ group = NoGroup \/ Unread = {}
    /\ pc' = [pc EXCEPT ![p] = "head"]
    /\ UNCHANGED <<stopped, hand, redisVars, entryVars, table>>
    /\ NoFault

(* The call raises; Redis had executed it, and the reply is lost, or not.  *)
ReadFails(p) ==
    /\ pc[p] = "read"
    /\ Deliver \/ UNCHANGED redisVars
    /\ pc' = [pc EXCEPT ![p] = "head"]
    /\ UNCHANGED <<stopped, hand, entryVars, table>>
    /\ Fault
-----------------------------------------------------------------------------
Decoded(p) == Range(hand[p]) \cap undecodable = {}

(* The entries without a frame are acknowledged one by one and skipped.    *)
SkipUndecodable(p) ==
    /\ pc[p] = "got"
    /\ \E i \in DOMAIN hand[p] :
        /\ hand[p][i] \in undecodable
        /\ pel' = pel \ {hand[p][i]}
        /\ hand' = [hand EXCEPT ![p] = RemoveAt(@, i)]
    /\ UNCHANGED <<pc, stopped, base, group, entryVars, table>>
    /\ NoFault

(* That XACK raises, inside _run and outside its try: the task dies.       *)
SkipFails(p) ==
    /\ pc[p] = "got"
    /\ \E f \in Range(hand[p]) \cap undecodable : pel' \in {pel, pel \ {f}}
    /\ hand' = [hand EXCEPT ![p] = << >>]
    /\ pc' = [pc EXCEPT ![p] = "dead"]
    /\ UNCHANGED <<stopped, base, group, entryVars, table>>
    /\ Fault

(* No frame is left of the batch.                                          *)
NothingToFlush(p) ==
    /\ pc[p] = "got"
    /\ hand[p] = << >>
    /\ pc' = [pc EXCEPT ![p] = "head"]
    /\ UNCHANGED <<stopped, hand, redisVars, entryVars, table>>
    /\ NoFault

(* _flush: batch_store_frames commits ...                                  *)
FlushOk(p) ==
    /\ pc[p] = "got"
    /\ hand[p] # << >>
    /\ Decoded(p)
    /\ table' = table \o hand[p]
    /\ pc' = [pc EXCEPT ![p] = "ack"]
    /\ UNCHANGED <<stopped, hand, redisVars, entryVars>>
    /\ NoFault

(* Mutants of FlushFails: acknowledges in any case; retries in place.      *)
FlushFailsAcks(p) ==
    /\ pc[p] = "got"
    /\ hand[p] # << >>
    /\ Decoded(p)
    /\ table' \in {table, table \o hand[p]}
    /\ pel' = pel \ Range(hand[p])
    /\ hand' = [hand EXCEPT ![p] = << >>]
    /\ pc' = [pc EXCEPT ![p] = "head"]
    /\ UNCHANGED <<stopped, base, group, entryVars>>
    /\ Fault

FlushFailsRetries(p) ==
    /\ pc[p] = "got"
    /\ hand[p] # << >>
    /\ Decoded(p)
    /\ table' \in {table, table \o hand[p]}
    /\ UNCHANGED <<procVars, redisVars, entryVars>>
    /\ Fault

(* ... or raises, having committed or not: logged, and the batch left.     *)
FlushFails(p) ==
    /\ pc[p] = "got"
    /\ hand[p] # << >>
    /\ Decoded(p)
    /\ table' \in {table, table \o hand[p]}
    /\ hand' = [hand EXCEPT ![p] = << >>]
    /\ pc' = [pc EXCEPT ![p] = "head"]
    /\ UNCHANGED <<stopped, redisVars, entryVars>>
    /\ Fault

(* The XACK of the stored batch.                                           *)
Ack(p) ==
    /\ pc[p] = "ack"
    /\ pel' = pel \ Range(hand[p])
    /\ hand' = [hand EXCEPT ![p] = << >>]
    /\ pc' = [pc EXCEPT ![p] = "head"]
    /\ UNCHANGED <<stopped, base, group, entryVars, table>>
    /\ NoFault

(* It raises, in the else clause of _flush's try: the task dies.           *)
AckFails(p) ==
    /\ pc[p] = "ack"
    /\ pel' \in {pel, pel \ Range(hand[p])}
    /\ hand' = [hand EXCEPT ![p] = << >>]
    /\ pc' = [pc EXCEPT ![p] = "dead"]
    /\ UNCHANGED <<stopped, base, group, entryVars, table>>
    /\ Fault
-----------------------------------------------------------------------------
(* The process is killed; a commit under way may still happen.             *)
Crash(p) ==
    /\ pc[p] # "down"
    /\ \/ UNCHANGED table
       \/ pc[p] = "got" /\ hand[p] # << >> /\ Decoded(p) /\ table' = table \o hand[p]
    /\ pc' = [pc EXCEPT ![p] = "down"]
    /\ hand' = [hand EXCEPT ![p] = << >>]
    /\ UNCHANGED <<stopped, redisVars, entryVars>>
    /\ Fault

(* Redis restarts empty: stream, group and pending entries are gone.       *)
Reset ==
    /\ resets < MaxResets
    /\ resets' = resets + 1
    /\ base' = accepted
    /\ group' = NoGroup
    /\ pel' = {}
    /\ UNCHANGED <<procVars, entryVars, table, faults>>

Worker(p) ==
    \/ LoopHead(p)
    \/ Read(p)
    \/ ReadNothing(p)
    \/ SkipUndecodable(p)
    \/ NothingToFlush(p)
    \/ FlushOk(p)
    \/ Ack(p)

Failure(p) ==
    \/ StartFails(p)
    \/ ReadFails(p)
    \/ SkipFails(p)
    \/ FlushFails(p)
    \/ AckFails(p)
    \/ Crash(p)

Next ==
    \/ \E n \in 1..MaxPost : Enqueue(n)
    \/ \E p \in Procs : Start(p)
    \/ \E p \in Procs : StopRequest(p)
    \/ \E p \in Procs : StopReturn(p)
    \/ \E p \in Procs : Worker(p)
    \/ \E p \in Procs : Failure(p)
    \/ Reset

Spec == Init /\ [][Next]_vars

(* A worker task that can step does, and a shutdown under way completes.   *)
(* Nothing makes a process start or stop, and nothing has to fail.         *)
Fairness ==
    /\ \A p \in Procs : WF_vars(Worker(p))
    /\ \A p \in Procs : WF_vars(stopped[p] /\ StopReturn(p))

FairSpec == Spec /\ Fairness
-----------------------------------------------------------------------------
Frames == 1..accepted
Stored == Range(table)
InHand == UNION {Range(hand[p]) : p \in Procs}

(* Every variable ranges over the values its counterpart can have.         *)
TypeOK ==
    /\ pc \in [Procs -> {"down", "head", "read", "got", "ack", "ended", "dead"}]
    /\ stopped \in [Procs -> BOOLEAN]
    /\ hand \in [Procs -> Seq(Frames)]
    /\ base \in 0..accepted
    /\ group \in [start : 0..accepted, last : 0..accepted] \cup {NoGroup}
    /\ pel \subseteq Frames
    /\ undecodable \subseteq Frames
    /\ accepted \in 0..MaxFrames
    /\ table \in Seq(Frames)

(* Frames no worker will ever store: not stored, not held by a worker, and *)
(* not to be delivered any more.                                           *)
Abandoned == Frames \ (Stored \cup Unread \cup InHand)

(* The buffer implements the abstract delivery specification: whatever     *)
(* crashes, fails, restarts or overlaps, a frame gets at most one row, and *)
(* none once it was abandoned.                                             *)
Delivery == INSTANCE FrameDelivery WITH discarded <- Abandoned
DeliverySpec == Delivery!Spec

(* While Redis keeps its data, a frame can be recovered until it is in the *)
(* table: it is still to be delivered, or pending in the group, or stored. *)
(* XACK follows the commit, and a group created at "$" skips nothing,      *)
(* because no process serves before it.                                    *)
Recoverable ==
    resets = 0 => \A f \in Frames :
        f \in Unread \cup pel \cup Stored \cup undecodable

(* XACK is for good reason even across a reset: of what the group has      *)
(* delivered, only stored or undecodable entries are not pending.          *)
AckedIsStored ==
    group # NoGroup =>
        \A f \in (group.start + 1)..group.last :
            f \in pel \cup Stored \cup undecodable

(* Shutdown terminates: stop_worker returns or raises, whatever happens to *)
(* Redis, the database and the other processes.                            *)
ShutdownCompletes ==
    \A p \in Procs : stopped[p] /\ pc[p] # "down" ~> pc[p] = "down"

(* A frame in the stream is delivered, however the other processes come    *)
(* and go, if from some time on one worker runs and the group exists.      *)
FramesAreRead ==
    \A p \in Procs :
        <>[](Running(p) /\ group # NoGroup) =>
            \A f \in 1..MaxFrames : f \in Unread ~> f \notin Unread

(* The class docstring, "guaranteeing at-least-once delivery": if from     *)
(* some time on a worker runs, every frame that can be decoded is stored.  *)
AtLeastOnce ==
    <>[](\E p \in Procs : Running(p)) =>
        \A f \in 1..MaxFrames :
            f \in Frames \ undecodable ~> f \in Stored
=============================================================================
