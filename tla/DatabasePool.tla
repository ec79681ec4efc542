---------------------------- MODULE DatabasePool ----------------------------
(***************************************************************************)
(* The shared connection pool (evaluator/db/pool.py): coroutines that use  *)
(* a connection, and coroutines that close the pool, on one event loop.    *)
(* Control passes from one to another at an await only.                    *)
(*                                                                         *)
(* asyncpg is external: a pool that is closing or closed raises when a     *)
(* connection is asked of it; close waits for the connections in use, in   *)
(* each of the calls that overlap.                                         *)
(***************************************************************************)
EXTENDS Integers, FiniteSets

CONSTANTS
    Users,          \* coroutines that use connections
    Closers,        \* coroutines that call close_pool once
    NoUser,         \* nobody
    MaxPools        \* bound: pools created

ASSUME PoolConstants ==
    MaxPools \in Nat /\ NoUser \notin Users /\ IsFiniteSet(Closers)

VARIABLES
    pool,           \* _pool: a number, or NONE_POOL
    pools,          \* what asyncpg made of each pool
    lock,           \* who holds _pool_lock
    user,           \* where each user is
    got,            \* the pool get_pool gave the user
    held,           \* the pool whose connection the user holds
    closer,         \* where each closer is
    closes          \* the pool it closes

poolVars == <<pool, pools, lock, user, got, held, closer, closes>>

NONE_POOL == 0
Numbers == 1..MaxPools

PoolInit ==
    /\ pool = NONE_POOL
    /\ pools = [n \in Numbers |-> "none"]
    /\ lock = NoUser
    /\ user = [u \in Users |-> "idle"]
    /\ got = [u \in Users |-> NONE_POOL]
    /\ held = [u \in Users |-> NONE_POOL]
    /\ closer = [c \in Closers |-> "idle"]
    /\ closes = [c \in Closers |-> NONE_POOL]

Created == {n \in Numbers : pools[n] # "none"}
-----------------------------------------------------------------------------
(* Mutant of Request: the pool has to be there.                            *)
RequestExisting(u) ==
    /\ user[u] = "idle"
    /\ user' = [user EXCEPT ![u] = IF pool = NONE_POOL THEN "failed" ELSE "acquire"]
    /\ got' = [got EXCEPT ![u] = pool]
    /\ UNCHANGED <<pool, pools, lock, held, closer, closes>>

(* get_pool up to its first await: the pool is there, or the lock is free, *)
(* or it is not.                                                           *)
Request(u) ==
    /\ user[u] = "idle"
    /\ IF pool # NONE_POOL
       THEN user' = [user EXCEPT ![u] = "acquire"] /\ got' = [got EXCEPT ![u] = pool]
            /\ UNCHANGED lock
       ELSE /\ user' = [user EXCEPT ![u] = IF lock = NoUser THEN "create" ELSE "wait"]
            /\ lock' = IF lock = NoUser THEN u ELSE lock
            /\ UNCHANGED got
    /\ UNCHANGED <<pool, pools, held, closer, closes>>

(* The lock is free again: the second test of _pool.                       *)
Locked(u) ==
    /\ user[u] = "wait"
    /\ lock = NoUser
    /\ IF pool # NONE_POOL
       THEN user' = [user EXCEPT ![u] = "acquire"] /\ got' = [got EXCEPT ![u] = pool]
            /\ UNCHANGED lock
       ELSE user' = [user EXCEPT ![u] = "create"] /\ lock' = u /\ UNCHANGED got
    /\ UNCHANGED <<pool, pools, held, closer, closes>>

(* Mutant of Create: the lock is not released.                             *)
CreateLocked(u) ==
    /\ user[u] = "create"
    /\ \E n \in Numbers \ Created :
        /\ pools' = [pools EXCEPT ![n] = "open"]
        /\ pool' = n
        /\ got' = [got EXCEPT ![u] = n]
    /\ user' = [user EXCEPT ![u] = "acquire"]
    /\ UNCHANGED <<lock, held, closer, closes>>

(* create_pool returns; get_pool goes on to its end.                       *)
Create(u) ==
    /\ user[u] = "create"
    /\ \E n \in Numbers \ Created :
        /\ \A m \in Numbers \ Created : n <= m
        /\ pools' = [pools EXCEPT ![n] = "open"]
        /\ pool' = n
        /\ got' = [got EXCEPT ![u] = n]
    /\ lock' = NoUser
    /\ user' = [user EXCEPT ![u] = "acquire"]
    /\ UNCHANGED <<held, closer, closes>>

(* create_pool raises.                                                     *)
CreateFails(u) ==
    /\ user[u] = "create"
    /\ lock' = NoUser
    /\ user' = [user EXCEPT ![u] = "failed"]
    /\ UNCHANGED <<pool, pools, got, held, closer, closes>>

(* async with pool.acquire().                                              *)
Acquire(u) ==
    /\ user[u] = "acquire"
    /\ IF pools[got[u]] = "open"
       THEN user' = [user EXCEPT ![u] = "using"] /\ held' = [held EXCEPT ![u] = got[u]]
       ELSE user' = [user EXCEPT ![u] = "failed"] /\ UNCHANGED held
    /\ UNCHANGED <<pool, pools, lock, got, closer, closes>>

(* The block ends: the connection goes back to its pool.                   *)
Release(u) ==
    /\ user[u] = "using"
    /\ user' = [user EXCEPT ![u] = "idle"]
    /\ held' = [held EXCEPT ![u] = NONE_POOL]
    /\ UNCHANGED <<pool, pools, lock, got, closer, closes>>

(* Mutant of UseFails: the connection is not released.                     *)
UseFailsHolding(u) ==
    /\ user[u] = "using"
    /\ user' = [user EXCEPT ![u] = "failed"]
    /\ UNCHANGED <<pool, pools, lock, got, held, closer, closes>>

(* The block raises, or the connection to the server is lost: released all *)
(* the same.                                                               *)
UseFails(u) ==
    /\ user[u] = "using"
    /\ user' = [user EXCEPT ![u] = "failed"]
    /\ held' = [held EXCEPT ![u] = NONE_POOL]
    /\ UNCHANGED <<pool, pools, lock, got, closer, closes>>

(* The user's handler catches the exception.                               *)
Catch(u) ==
    /\ user[u] = "failed"
    /\ user' = [user EXCEPT ![u] = "idle"]
    /\ UNCHANGED <<pool, pools, lock, got, held, closer, closes>>
-----------------------------------------------------------------------------
(* Mutant of Close: forgets the pool and does not close it.                *)
Forget(c) ==
    /\ closer[c] = "idle"
    /\ closer' = [closer EXCEPT ![c] = "done"]
    /\ pool' = NONE_POOL
    /\ UNCHANGED <<pools, lock, user, got, held, closes>>

(* close_pool up to its await.                                             *)
Close(c) ==
    /\ closer[c] = "idle"
    /\ closes' = [closes EXCEPT ![c] = pool]
    /\ IF pool = NONE_POOL
       THEN closer' = [closer EXCEPT ![c] = "done"] /\ UNCHANGED pools
       ELSE /\ closer' = [closer EXCEPT ![c] = "closing"]
            /\ pools' = [pools EXCEPT ![pool] = IF @ = "open" THEN "closing" ELSE @]
    /\ UNCHANGED <<pool, lock, user, got, held>>

(* Its own call of pool.close() returns: _pool is reset, whatever pool it  *)
(* names by now.                                                           *)
Closed(c) ==
    /\ closer[c] = "closing"
    /\ \A u \in Users : held[u] # closes[c]
    /\ pools' = [pools EXCEPT ![closes[c]] = "closed"]
    /\ pool' = NONE_POOL
    /\ closer' = [closer EXCEPT ![c] = "done"]
    /\ UNCHANGED <<lock, user, got, held, closes>>

PoolStep(u) == Locked(u) \/ Create(u) \/ Acquire(u)

PoolNext ==
    \/ \E u \in Users :
        \/ Request(u) \/ PoolStep(u) \/ CreateFails(u)
        \/ Release(u) \/ UseFails(u) \/ Catch(u)
    \/ \E c \in Closers : Close(c) \/ Closed(c)

(* The pool among any users and closers.                                   *)
PoolSpec == PoolInit /\ [][PoolNext]_poolVars
-----------------------------------------------------------------------------
PoolTypeOK ==
    /\ pool \in Numbers \cup {NONE_POOL}
    /\ pools \in [Numbers -> {"none", "open", "closing", "closed"}]
    /\ lock \in Users \cup {NoUser}
    /\ user \in [Users -> {"idle", "wait", "create", "acquire", "using", "failed"}]
    /\ got \in [Users -> Numbers \cup {NONE_POOL}]
    /\ held \in [Users -> Numbers \cup {NONE_POOL}]
    /\ closer \in [Closers -> {"idle", "closing", "done"}]
    /\ closes \in [Closers -> Numbers \cup {NONE_POOL}]

(* Pools nobody will close any more: open, and not the one close_pool sees.*)
Orphans == {n \in Numbers : pools[n] = "open" /\ n # pool}

(* The calls of close_pool that have closed a pool.                        *)
Finished == {c \in Closers : closer[c] = "done" /\ closes[c] # NONE_POOL}

(* A pool is left open with nobody to close it only by a close that        *)
(* returns after another one did and a new pool was made in between: one   *)
(* shutdown, whenever it runs, loses none.                                 *)
FewOrphans == Orphans = {} \/ Cardinality(Orphans) < Cardinality(Finished)
=============================================================================
