---------------------------- MODULE CacheBackend ---------------------------
(***************************************************************************)
(* The cache backends (src/cache/memory.rs, src/cache/redis.rs) behind     *)
(* CacheBackendTrait.  Every command of RedisCache first calls get_conn,   *)
(* which keeps its mutex while it opens the one ConnectionManager all      *)
(* commands share; MemoryCache is a moka cache and needs no connection.    *)
(* Keys and values are opaque.                                             *)
(***************************************************************************)
EXTENDS Naturals, TokioMutex

CONSTANTS
    Backends,       \* the backends a configuration may name
    CacheUsers,     \* tasks that use the cache
    StoreKeys,      \* cache keys
    StoreValues,    \* cached responses
    Ttl             \* default_ttl_secs, in ticks of the clock

ASSUME BackendAssumption ==
    /\ Backends \subseteq {"memory", "redis"}
    /\ NoOne \notin CacheUsers
    /\ Ttl \in Nat

VARIABLES
    backend,    \* the backend of the configuration; it never changes
    store,      \* store[k]: {} or {e}, with e's value, its age and whether it expires
    manager,    \* RedisCache::conn is Some
    cmd,        \* cmd[t]: the command task t is in
    step,       \* step[t]: how far it is
    result      \* result[t]: {} for Err or None, {v} for a value

backVars == <<backend, store, manager, cmd, step, result, lockVars>>

Commands == [op : {"get"}, key : StoreKeys]
            \cup [op : {"set"}, key : StoreKeys, value : StoreValues]
            \cup [op : {"delete"}, key : StoreKeys]
            \cup [op : {"clear"}]

\* No command.
NoCommand == [op |-> "none"]

StoreEntry == [value : StoreValues, age : 0..Ttl, expires : BOOLEAN]

BackTypeOK ==
    /\ backend \in Backends
    /\ store \in [StoreKeys -> SUBSET StoreEntry]
    /\ manager \in BOOLEAN
    /\ cmd \in [CacheUsers -> Commands \cup {NoCommand}]
    /\ step \in [CacheUsers -> {"idle", "lock", "connect", "io", "done"}]
    /\ result \in [CacheUsers -> SUBSET StoreValues]
    /\ LockTypeOK(CacheUsers)

BackInit ==
    /\ backend \in Backends
    /\ store = [k \in StoreKeys |-> {}]
    /\ manager = FALSE
    /\ cmd = [t \in CacheUsers |-> NoCommand]
    /\ step = [t \in CacheUsers |-> "idle"]
    /\ result = [t \in CacheUsers |-> {}]
    /\ LockInit

-----------------------------------------------------------------------------

StepTo(t, s) == step' = [step EXCEPT ![t] = s]

\* Task t calls get, set, delete or clear; the future is polled at once.
Issue(t, command) ==
    /\ cmd' = [cmd EXCEPT ![t] = command]
    /\ result' = [result EXCEPT ![t] = {}]
    /\ IF backend = "redis"
       THEN StepTo(t, "lock") /\ Lock(t)
       ELSE StepTo(t, "io") /\ UNCHANGED lockVars
    /\ UNCHANGED <<backend, store, manager>>

\* Fault: the guard is not kept while the connection is opened.
GetConnUnlocked(t) ==
    /\ step[t] = "lock"
    /\ holder = t
    /\ StepTo(t, IF manager THEN "io" ELSE "connect")
    /\ Unlock
    /\ UNCHANGED <<backend, store, manager, cmd, result>>

\* get_conn has the mutex: the manager is cloned, or is to be connected.
GetConn(t) ==
    /\ step[t] = "lock"
    /\ holder = t
    /\ IF manager
       THEN StepTo(t, "io") /\ Unlock
       ELSE StepTo(t, "connect") /\ UNCHANGED lockVars
    /\ UNCHANGED <<backend, store, manager, cmd, result>>

ConnectOk(t) ==
    /\ step[t] = "connect"
    /\ manager' = TRUE
    /\ StepTo(t, "io")
    /\ Unlock
    /\ UNCHANGED <<backend, store, cmd, result>>

\* Fault: the connection is tried again until it stands, the guard still held.
ConnectErrRetried(t) ==
    /\ step[t] = "connect"
    /\ StepTo(t, "lock")
    /\ UNCHANGED <<backend, store, manager, cmd, result, lockVars>>

\* Redis connection failed: the command returns Err.
ConnectErr(t) ==
    /\ step[t] = "connect"
    /\ StepTo(t, "done")
    /\ Unlock
    /\ UNCHANGED <<backend, store, manager, cmd, result>>

\* Fault: SET instead of SETEX.
AfterSetForever(c) == [store EXCEPT ![c.key] = {[value |-> c.value, age |-> 0, expires |-> FALSE]}]

\* The store after a set.  Redis is given the ttl (and refuses one of zero); MemoryCache
\* ignores it.
AfterSet(c) ==
    IF backend = "redis" /\ Ttl = 0
    THEN store
    ELSE [store EXCEPT ![c.key] =
             {[value |-> c.value, age |-> 0, expires |-> backend = "redis"]}]

After(c) ==
    CASE c.op = "get"    -> store
      [] c.op = "set"    -> AfterSet(c)
      [] c.op = "delete" -> [store EXCEPT ![c.key] = {}]
      [] c.op = "clear"  -> [k \in StoreKeys |-> {}]

\* The command is executed and answered.
Execute(t) ==
    /\ step[t] = "io"
    /\ store' = After(cmd[t])
    /\ result' = [result EXCEPT ![t] =
                     IF cmd[t].op = "get" THEN {e.value : e \in store[cmd[t].key]} ELSE {}]
    /\ StepTo(t, "done")
    /\ UNCHANGED <<backend, manager, cmd, lockVars>>

\* Redis fails the command, which may have been executed all the same, or holds bytes that
\* do not deserialize.
ExecuteErr(t) ==
    /\ step[t] = "io"
    /\ backend = "redis"
    /\ store' \in {store, After(cmd[t])}
    /\ StepTo(t, "done")
    /\ UNCHANGED <<backend, manager, cmd, result, lockVars>>

BackStep(t) == GetConn(t) \/ ConnectOk(t) \/ ConnectErr(t) \/ Execute(t) \/ ExecuteErr(t)

\* Task t is in no command any more.
Forget(t) ==
    /\ StepTo(t, "idle")
    /\ cmd' = [cmd EXCEPT ![t] = NoCommand]
    /\ result' = [result EXCEPT ![t] = {}]

\* The caller takes the result.
Take(t) ==
    /\ step[t] = "done"
    /\ Forget(t)
    /\ UNCHANGED <<backend, store, manager, lockVars>>

\* The future of the command is dropped; what was sent to Redis may still be executed.
DropCommand(t) ==
    /\ step[t] # "idle"
    /\ Forget(t)
    /\ IF step[t] \in {"lock", "connect"} THEN DropLock(t) ELSE UNCHANGED lockVars
    /\ store' \in IF step[t] = "io" /\ backend = "redis" THEN {store, After(cmd[t])} ELSE {store}
    /\ UNCHANGED <<backend, manager>>

\* External: moka evicts an entry at max_capacity, Redis under memory pressure.
Evict(k) ==
    /\ store[k] # {}
    /\ store' = [store EXCEPT ![k] = {}]
    /\ UNCHANGED <<backend, manager, cmd, step, result, lockVars>>

\* External: another program that shares the Redis store sets an entry, for as long.
SetByOthers(k, value) ==
    /\ backend = "redis"
    /\ Ttl > 0
    /\ store' = [store EXCEPT ![k] = {[value |-> value, age |-> 0, expires |-> TRUE]}]
    /\ UNCHANGED <<backend, manager, cmd, step, result, lockVars>>

\* External: a second passes, and Redis drops what has expired.  Ages beyond Ttl are not
\* told apart.
Second ==
    /\ \E k \in StoreKeys : \E e \in store[k] : e.age < Ttl
    /\ store' = [k \in StoreKeys |->
                    {[e EXCEPT !.age = IF @ < Ttl THEN @ + 1 ELSE @] :
                        e \in {x \in store[k] : ~ (x.expires /\ x.age + 1 >= Ttl)}}]
    /\ UNCHANGED <<backend, manager, cmd, step, result, lockVars>>

-----------------------------------------------------------------------------

\* RedisCache never opens a second ConnectionManager: whoever connects does so while there
\* is none and alone, however many commands start before the first connection stands
\* (redis.rs:25-37).
OneManager ==
    \A t \in CacheUsers : step[t] = "connect" =>
        ~ manager /\ \A u \in CacheUsers : step[u] = "connect" => u = t

\* The tasks that have called lock() in get_conn and are still in there.
InGetConn == {t \in CacheUsers : step[t] \in {"lock", "connect"}}

\* The tasks in get_conn are the holder of its mutex and its queue, each once, and the mutex
\* is not free while one of them waits, whichever commands are dropped or fail to connect
\* (redis.rs:26-37).
ManagerLockHandedOn == LockKept(InGetConn)

\* No entry in Redis outlives default_ttl_secs (redis.rs:68-78, CacheLayer::set).
RedisEntriesExpire ==
    backend = "redis" => \A k \in StoreKeys : \A e \in store[k] : e.age < Ttl
=============================================================================
