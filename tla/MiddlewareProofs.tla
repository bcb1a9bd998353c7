-------------------------- MODULE MiddlewareProofs -------------------------
(***************************************************************************)
(* The tower services and the cache backends for every configuration,      *)
(* every order of the layers and every set of calls.  The backends come    *)
(* first: what any use of the cache keeps, whoever uses it.  Then the      *)
(* calls of the stack, each of whose steps uses the cache and the limiter  *)
(* as they allow, or leaves them alone.                                    *)
(***************************************************************************)
EXTENDS Middleware, RateLimiterProofs, TokioMutexProofs

-----------------------------------------------------------------------------
(* The inductive invariant of the backends.                                *)

\* Who connects has the mutex, and there is no manager yet.
Connecting(t) == step[t] = "connect" => holder = t /\ ~ manager

Commanded(t) == step[t] # "idle" => cmd[t] \in Commands

Expiring == backend = "redis" => \A k \in StoreKeys : \A e \in store[k] : e.expires /\ e.age < Ttl

BackInv ==
    /\ BackTypeOK
    /\ ManagerLockHandedOn
    /\ \A t \in CacheUsers : Connecting(t) /\ Commanded(t)
    /\ Expiring

\* Every value stored for a key k, read for it or on its way to the store is one of V[k].
ValuesIn(V) ==
    /\ \A k \in StoreKeys : \A e \in store[k] : e.value \in V[k]
    /\ \A t \in CacheUsers : cmd[t].op = "get" => result[t] \subseteq V[cmd[t].key]
    /\ \A t \in CacheUsers : cmd[t].op = "set" => cmd[t].value \in V[cmd[t].key]

-----------------------------------------------------------------------------
(* The inductive invariant of the calls.                                   *)

\* How deep the calls of the layers got for a request q at progress p, and what that says of
\* its progress; b: the innermost service ran.
ReachOK(q, p, d, b) ==
    /\ p = "idle" => d = 0
    /\ p # "idle" => d \in 1..Reach(q)
    /\ d \in DOMAIN stack => stack[d] \in {"cors", "auth", "limit"}
    /\ p \in {"lookup", "store"} => d > Place("cache") /\ q.method = "GET"
    /\ p = "inner" \/ b => d = Len(stack) + 1

\* The origin an answer a to q may name.
OriginOK(q, a) ==
    \/ a.acao \in {NoOrigin, q.origin}
    \/ a.hit /\ Outside("cache", "cors") /\ a.acao \in OriginsOf(BuildKey(q))

\* What it has got and run at each point of its progress; a: its answer, s: its step in the cache.
AnswerOK(q, p, d, a, b, s) ==
    /\ p \in {"idle", "inner"} => s = "idle"
    /\ p \in {"idle", "lookup", "inner", "failed", "panicked"} => a = NoAnswer
    /\ p = "idle" => ~ b
    /\ p = "store" => a.by # "nobody"
    /\ a.hit => p = "done"
    /\ a.by = "inner" => d > Place("cache")
    /\ OriginOK(q, a)

CallOK(r) ==
    /\ ReachOK(input[r], pc[r], depth[r], ran[r])
    /\ AnswerOK(input[r], pc[r], depth[r], answer[r], ran[r], step[r])

\* A call that waits for the cache waits for the entry of its own request.
Looking ==
    \A r \in Requests :
        pc[r] = "lookup" => cmd[r].op = "get" /\ cmd[r].key = BuildKey(input[r])

\* The origins an entry may name: those of the requests with its key, and none at all if
\* CORS is outside the cache.
Named(k) == {NoOrigin} \cup (IF Outside("cors", "cache") THEN {} ELSE OriginsOf(k))

\* The values the cache may hold for each key.
Clean == [k \in StoreKeys |-> {v \in StoreValues : v.acao \in Named(k)}]

\* The calls that no layer refused.
Passed(k) == {r \in Requests : depth[r] = Len(stack) + 1 /\ LimitKey(input[r]) = k}

PassedHeld == \A k \in LimitKeys : Cardinality(Passed(k)) <= admitted[k]

\* The answer a of a call at progress p came through MetricsService.
Counts(p, d, a) ==
    /\ a.by # "nobody"
    /\ Place("metrics") < (IF a.hit THEN Place("cache") ELSE d)
    /\ \/ p = "done"
       \/ p \in {"store", "gone"} /\ Outside("cache", "metrics")

MwInv ==
    /\ MwTypeOK
    /\ BackInv
    /\ LimInv
    /\ \A r \in Requests : CallOK(r)
    /\ ValuesIn(Clean)
    /\ Looking
    /\ PassedHeld
    /\ CountedOnce

-----------------------------------------------------------------------------
(* What the backends keep.                                                 *)

\* A store of the right kind.
StoreFine(s, V) ==
    /\ s \in [StoreKeys -> SUBSET StoreEntry]
    /\ backend = "redis" => \A k \in StoreKeys : \A e \in s[k] : e.expires /\ e.age < Ttl
    /\ \A k \in StoreKeys : \A e \in s[k] : e.value \in V[k]

\* The parts of a command.
LEMMA CommandParts ==
    ASSUME NEW c \in Commands
    PROVE  /\ c.op \in {"get", "set", "delete", "clear"}
           /\ c.op \in {"get", "set", "delete"} => c.key \in StoreKeys
           /\ c.op = "set" => c.value \in StoreValues
BY DEF Commands

\* No command puts anything into the store but the value it was given.
LEMMA AfterFine ==
    ASSUME NEW V, StoreFine(store, V), NEW c \in Commands, c.op = "set" => c.value \in V[c.key]
    PROVE  StoreFine(After(c), V)
<1>1. /\ c.op \in {"get", "set", "delete", "clear"}
      /\ c.op \in {"get", "set", "delete"} => c.key \in StoreKeys
      /\ c.op = "set" => c.value \in StoreValues
  BY CommandParts
<1>2. CASE c.op = "get"
  BY <1>2 DEF After
<1>3. CASE c.op = "set"
  <2> DEFINE e == [value |-> c.value, age |-> 0, expires |-> backend = "redis"]
  <2>1. CASE backend = "redis" /\ Ttl = 0
    <3>1. After(c) = store
      BY <1>3, <2>1 DEF After, AfterSet
    <3> QED
      BY <3>1
  <2>2. CASE ~ (backend = "redis" /\ Ttl = 0)
    <3>1. After(c) = [store EXCEPT ![c.key] = {e}]
      BY <1>3, <2>2, Zenon DEF After, AfterSet
    <3>2. e.value = c.value /\ e.age = 0 /\ (backend = "redis" => e.expires)
      BY Zenon
    <3>3. 0 \in 0..Ttl /\ (backend = "redis" => 0 < Ttl)
      BY <2>2, BackendAssumption
    <3>4. (backend = "redis") \in BOOLEAN
      OBVIOUS
    <3>5. e \in StoreEntry
      BY <1>1, <1>3, <3>3, <3>4, Zenon DEF StoreEntry
    <3> HIDE DEF e
    <3> QED
      BY <1>1, <1>3, <3>1, <3>2, <3>3, <3>5 DEF StoreFine
  <2> QED
    BY <2>1, <2>2
<1>4. CASE c.op = "delete"
  <2>1. After(c) = [store EXCEPT ![c.key] = {}]
    BY <1>4 DEF After
  <2> QED
    BY <1>1, <1>4, <2>1 DEF StoreFine
<1>5. CASE c.op = "clear"
  <2>1. After(c) = [k \in StoreKeys |-> {}]
    BY <1>5 DEF After
  <2> QED
    BY <2>1 DEF StoreFine
<1> QED
  BY <1>1, <1>2, <1>3, <1>4, <1>5

\* The store part of the invariant.
LEMMA StoreParts ==
    ASSUME NEW V
    PROVE  BackInv /\ ValuesIn(V) => StoreFine(store, V)
BY DEF BackInv, BackTypeOK, Expiring, ValuesIn, StoreFine

\* A second leaves nothing in Redis that has expired.
LEMMA SecondFine ==
    ASSUME NEW V, StoreFine(store, V), Second
    PROVE  StoreFine(store, V)'
<1> DEFINE older(e) == [e EXCEPT !.age = IF @ < Ttl THEN @ + 1 ELSE @]
           kept(k) == {x \in store[k] : ~ (x.expires /\ x.age + 1 >= Ttl)}
<1>1. store' = [k \in StoreKeys |-> {older(e) : e \in kept(k)}] /\ backend' = backend
  BY DEF Second
<1>2. ASSUME NEW k \in StoreKeys, NEW e \in kept(k)
      PROVE  /\ older(e) \in StoreEntry
             /\ older(e).value \in V[k]
             /\ backend = "redis" => older(e).expires /\ older(e).age < Ttl
  <2>1. e \in store[k] /\ ~ (e.expires /\ e.age + 1 >= Ttl)
    BY <1>2
  <2>2. e \in StoreEntry /\ e.value \in V[k] /\ (backend = "redis" => e.expires /\ e.age < Ttl)
    BY <2>1 DEF StoreFine
  <2>3. e.age \in 0..Ttl /\ e.value \in StoreValues /\ e.expires \in BOOLEAN
    BY <2>2 DEF StoreEntry
  <2> DEFINE a == IF e.age < Ttl THEN e.age + 1 ELSE e.age
  <2>4. a \in 0..Ttl /\ (backend = "redis" => a < Ttl)
    BY <2>1, <2>2, <2>3, BackendAssumption
  <2>5. older(e) = [e EXCEPT !.age = a]
    OBVIOUS
  <2>6. older(e) = [value |-> e.value, age |-> a, expires |-> e.expires]
    BY <2>2, <2>5 DEF StoreEntry
  <2> HIDE DEF a, older
  <2>7. older(e) \in StoreEntry
    BY <2>3, <2>4, <2>6 DEF StoreEntry
  <2>8. older(e).value = e.value /\ older(e).age = a /\ older(e).expires = e.expires
    BY <2>6
  <2> QED
    BY <2>2, <2>4, <2>7, <2>8
<1> HIDE DEF older, kept
<1>3. \A k \in StoreKeys : store'[k] = {older(e) : e \in kept(k)}
  BY <1>1
<1>4. \A k \in StoreKeys : \A x \in store'[k] :
          x \in StoreEntry /\ x.value \in V[k] /\ (backend = "redis" => x.expires /\ x.age < Ttl)
  BY <1>2, <1>3
<1>5. store' \in [StoreKeys -> SUBSET StoreEntry]
  BY <1>1, <1>4
<1> QED
  BY <1>1, <1>4, <1>5 DEF StoreFine

\* A task that calls a command has the mutex or waits for it, or needs none.
LEMMA IssueInv ==
    ASSUME NEW V, BackInv, ValuesIn(V), NEW t \in CacheUsers, step[t] \in {"idle", "done"},
           NEW c \in Commands, c.op = "set" => c.value \in V[c.key], Issue(t, c)
    PROVE  BackInv' /\ ValuesIn(V)'
<1>1. /\ backend \in Backends /\ store \in [StoreKeys -> SUBSET StoreEntry] /\ manager \in BOOLEAN
      /\ cmd \in [CacheUsers -> Commands \cup {NoCommand}]
      /\ step \in [CacheUsers -> {"idle", "lock", "connect", "io", "done"}]
      /\ result \in [CacheUsers -> SUBSET StoreValues] /\ LockTypeOK(CacheUsers)
  BY DEF BackInv, BackTypeOK
<1>2. /\ cmd' = [cmd EXCEPT ![t] = c] /\ result' = [result EXCEPT ![t] = {}]
      /\ UNCHANGED <<backend, store, manager>>
  BY DEF Issue
<1>3. /\ cmd' \in [CacheUsers -> Commands \cup {NoCommand}]
      /\ result' \in [CacheUsers -> SUBSET StoreValues]
  BY <1>1, <1>2
<1>4. ValuesIn(V)'
  BY <1>1, <1>2 DEF ValuesIn
<1>5. Expiring'
  BY <1>2 DEF BackInv, Expiring
<1> PICK W : W = InGetConn
  OBVIOUS
<1>6. LockKept(W) /\ t \notin W /\ NoOne \notin CacheUsers
  BY BackendAssumption DEF BackInv, ManagerLockHandedOn, InGetConn
<1>7. CASE backend = "redis"
  <2>1. step' = [step EXCEPT ![t] = "lock"] /\ Lock(t)
    BY <1>7 DEF Issue, StepTo
  <2>2. LockTypeOK(CacheUsers)' /\ LockKept(W \cup {t})'
    BY <1>1, <1>6, <2>1, LockCalled
  <2>3. InGetConn' = W \cup {t}
    BY <1>1, <2>1 DEF InGetConn
  <2>4. \A u \in CacheUsers : Connecting(u)' /\ Commanded(u)'
    <3>1. ASSUME NEW u \in CacheUsers, step'[u] = "connect" PROVE holder' = u /\ ~ manager'
      <4>1. u # t /\ step[u] = "connect"
        BY <1>1, <2>1, <3>1
      <4>2. holder = u /\ ~ manager /\ holder # NoOne
        BY <1>6, <4>1 DEF BackInv, Connecting
      <4> QED
        BY <1>2, <2>1, <4>2 DEF Lock
    <3> QED
      BY <1>1, <1>2, <2>1, <3>1 DEF BackInv, Connecting, Commanded
  <2>5. step' \in [CacheUsers -> {"idle", "lock", "connect", "io", "done"}]
    BY <1>1, <2>1
  <2> QED
    BY <1>1, <1>2, <1>3, <1>4, <1>5, <2>2, <2>3, <2>4, <2>5
       DEF BackInv, BackTypeOK, ManagerLockHandedOn
<1>8. CASE backend # "redis"
  <2>1. step' = [step EXCEPT ![t] = "io"] /\ UNCHANGED lockVars
    BY <1>8 DEF Issue, StepTo
  <2>2. LockTypeOK(CacheUsers)' /\ LockKept(W)'
    BY <1>1, <1>6, <2>1 DEF lockVars, LockTypeOK, LockKept
  <2>3. InGetConn' = W
    BY <1>1, <1>6, <2>1 DEF InGetConn
  <2>4. \A u \in CacheUsers : Connecting(u)' /\ Commanded(u)'
    BY <1>1, <1>2, <2>1 DEF BackInv, Connecting, Commanded, lockVars
  <2>5. step' \in [CacheUsers -> {"idle", "lock", "connect", "io", "done"}]
    BY <1>1, <2>1
  <2> QED
    BY <1>1, <1>2, <1>3, <1>4, <1>5, <2>2, <2>3, <2>4, <2>5
       DEF BackInv, BackTypeOK, ManagerLockHandedOn
<1> QED
  BY <1>7, <1>8

\* A task leaves get_conn, its guard or its place in the queue given up: the mutex is handed
\* on, and whoever connects still has it.
LEMMA LeavesGetConn ==
    ASSUME BackInv, NEW t \in CacheUsers, NEW s \in {"idle", "io", "done"},
           step' = [step EXCEPT ![t] = s], (holder = t /\ Unlock) \/ DropLock(t),
           manager' = manager \/ holder = t
    PROVE  /\ LockTypeOK(CacheUsers)' /\ ManagerLockHandedOn'
           /\ step' \in [CacheUsers -> {"idle", "lock", "connect", "io", "done"}]
           /\ \A u \in CacheUsers : Connecting(u)'
<1>1. /\ step \in [CacheUsers -> {"idle", "lock", "connect", "io", "done"}]
      /\ LockTypeOK(CacheUsers) /\ NoOne \notin CacheUsers
  BY BackendAssumption DEF BackInv, BackTypeOK
<1> PICK W : W = InGetConn
  OBVIOUS
<1>2. LockKept(W)
  BY DEF BackInv, ManagerLockHandedOn
<1>3. LockTypeOK(CacheUsers)' /\ LockKept(W \ {t})'
  <2>1. CASE holder = t /\ Unlock
    BY <1>1, <1>2, <2>1, LockHandedOver
  <2>2. CASE DropLock(t)
    BY <1>1, <1>2, <2>2, LockDropped
  <2> QED
    BY <2>1, <2>2
<1>4. InGetConn' = W \ {t}
  BY <1>1 DEF InGetConn
<1>5. ASSUME NEW u \in CacheUsers, step'[u] = "connect" PROVE holder' = u /\ ~ manager'
  <2>1. u # t /\ step[u] = "connect"
    BY <1>1, <1>5
  <2>2. holder = u /\ ~ manager
    BY <2>1 DEF BackInv, Connecting
  <2>3. holder' = holder /\ manager' = manager
    BY <2>1, <2>2 DEF DropLock
  <2> QED
    BY <2>2, <2>3
<1> QED
  BY <1>1, <1>3, <1>4, <1>5 DEF ManagerLockHandedOn, Connecting

\* A task moves between steps outside of get_conn.
LEMMA StaysOutside ==
    ASSUME BackInv, NEW t \in CacheUsers, step[t] \notin {"lock", "connect"},
           NEW s \in {"idle", "io", "done"}, step' = [step EXCEPT ![t] = s],
           UNCHANGED <<manager, lockVars>>
    PROVE  /\ LockTypeOK(CacheUsers)' /\ ManagerLockHandedOn'
           /\ step' \in [CacheUsers -> {"idle", "lock", "connect", "io", "done"}]
           /\ \A u \in CacheUsers : Connecting(u)'
<1>1. /\ step \in [CacheUsers -> {"idle", "lock", "connect", "io", "done"}]
      /\ LockTypeOK(CacheUsers) /\ ManagerLockHandedOn
      /\ \A u \in CacheUsers : Connecting(u)
  BY DEF BackInv, BackTypeOK
<1>2. InGetConn' = InGetConn
  BY <1>1 DEF InGetConn
<1> QED
  BY <1>1, <1>2 DEF LockTypeOK, ManagerLockHandedOn, LockKept, Connecting, lockVars

\* A task that has no command any more, and the commands of the others.
LEMMA ForgottenCommand ==
    ASSUME NEW V, BackInv, ValuesIn(V), NEW t \in CacheUsers, Forget(t)
    PROVE  /\ cmd' \in [CacheUsers -> Commands \cup {NoCommand}]
           /\ result' \in [CacheUsers -> SUBSET StoreValues]
           /\ \A u \in CacheUsers : Commanded(u)'
           /\ \A u \in CacheUsers : cmd'[u].op = "get" => result'[u] \subseteq V[cmd'[u].key]
           /\ \A u \in CacheUsers : cmd'[u].op = "set" => cmd'[u].value \in V[cmd'[u].key]
<1>1. /\ cmd \in [CacheUsers -> Commands \cup {NoCommand}]
      /\ step \in [CacheUsers -> {"idle", "lock", "connect", "io", "done"}]
      /\ result \in [CacheUsers -> SUBSET StoreValues]
  BY DEF BackInv, BackTypeOK
<1>2. /\ cmd' = [cmd EXCEPT ![t] = NoCommand] /\ result' = [result EXCEPT ![t] = {}]
      /\ step' = [step EXCEPT ![t] = "idle"]
  BY DEF Forget, StepTo
<1>3. NoCommand.op = "none"
  BY DEF NoCommand
<1>4. cmd'[t] = NoCommand /\ step'[t] = "idle"
  BY <1>1, <1>2
<1>5. \A u \in CacheUsers : u # t =>
          cmd'[u] = cmd[u] /\ result'[u] = result[u] /\ step'[u] = step[u]
  BY <1>1, <1>2
<1>6. /\ cmd' \in [CacheUsers -> Commands \cup {NoCommand}]
      /\ result' \in [CacheUsers -> SUBSET StoreValues]
  BY <1>1, <1>2
<1> QED
  BY <1>3, <1>4, <1>5, <1>6 DEF BackInv, Commanded, ValuesIn

\* It leaves everything else as it is, outside of get_conn.
LEMMA ForgetInv ==
    ASSUME NEW V, BackInv, ValuesIn(V), NEW t \in CacheUsers, step[t] \in {"idle", "done"},
           Forget(t), UNCHANGED <<backend, store, manager, lockVars>>
    PROVE  BackInv' /\ ValuesIn(V)'
<1>1. step' = [step EXCEPT ![t] = "idle"]
  BY DEF Forget, StepTo
<1>2. /\ LockTypeOK(CacheUsers)' /\ ManagerLockHandedOn'
      /\ step' \in [CacheUsers -> {"idle", "lock", "connect", "io", "done"}]
      /\ \A u \in CacheUsers : Connecting(u)'
  BY <1>1, StaysOutside
<1>3. /\ cmd' \in [CacheUsers -> Commands \cup {NoCommand}]
      /\ result' \in [CacheUsers -> SUBSET StoreValues]
      /\ \A u \in CacheUsers : Commanded(u)'
      /\ \A u \in CacheUsers : cmd'[u].op = "get" => result'[u] \subseteq V[cmd'[u].key]
      /\ \A u \in CacheUsers : cmd'[u].op = "set" => cmd'[u].value \in V[cmd'[u].key]
  BY ForgottenCommand
<1>4. StoreFine(store, V) /\ BackTypeOK
  BY StoreParts DEF BackInv
<1> QED
  BY <1>2, <1>3, <1>4 DEF BackInv, BackTypeOK, Expiring, ValuesIn, StoreFine

\* The steps of the backends keep their invariant, and no value is made up.
LEMMA BackStepInv ==
    ASSUME NEW V, BackInv, ValuesIn(V), NEW t \in CacheUsers,
           BackStep(t) \/ Take(t) \/ DropCommand(t)
    PROVE  BackInv' /\ ValuesIn(V)'
<1>1. /\ backend \in Backends /\ store \in [StoreKeys -> SUBSET StoreEntry] /\ manager \in BOOLEAN
      /\ cmd \in [CacheUsers -> Commands \cup {NoCommand}]
      /\ step \in [CacheUsers -> {"idle", "lock", "connect", "io", "done"}]
      /\ result \in [CacheUsers -> SUBSET StoreValues] /\ LockTypeOK(CacheUsers)
  BY DEF BackInv, BackTypeOK
<1>2. StoreFine(store, V)
  BY StoreParts
<1>3. /\ \A u \in CacheUsers : cmd[u].op = "get" => result[u] \subseteq V[cmd[u].key]
      /\ \A u \in CacheUsers : cmd[u].op = "set" => cmd[u].value \in V[cmd[u].key]
      /\ \A u \in CacheUsers : step[u] # "idle" => cmd[u] \in Commands
  BY DEF ValuesIn, BackInv, Commanded
<1>4. step[t] # "idle" => StoreFine(After(cmd[t]), V)
  BY <1>2, <1>3, AfterFine
<1>5. ASSUME NEW s \in {"idle", "lock", "connect", "io", "done"}, step' = [step EXCEPT ![t] = s],
             step[t] # "idle", UNCHANGED cmd
      PROVE  \A u \in CacheUsers : Commanded(u)'
  BY <1>1, <1>3, <1>5 DEF Commanded
<1>6. ASSUME UNCHANGED backend, store' = store \/ (step[t] # "idle" /\ store' = After(cmd[t]))
      PROVE  StoreFine(store, V)'
  <2>1. StoreFine(store', V)
    BY <1>2, <1>4, <1>6
  <2> QED
    BY <1>6, <2>1 DEF StoreFine
<1>7. CASE GetConn(t)
  <2>1. /\ step[t] = "lock" /\ holder = t
        /\ UNCHANGED <<backend, store, manager, cmd, result>>
    BY <1>7 DEF GetConn
  <2>2. CASE manager
    <3>1. step' = [step EXCEPT ![t] = "io"] /\ Unlock
      BY <1>7, <2>2 DEF GetConn, StepTo
    <3>2. /\ LockTypeOK(CacheUsers)' /\ ManagerLockHandedOn'
          /\ step' \in [CacheUsers -> {"idle", "lock", "connect", "io", "done"}]
          /\ \A u \in CacheUsers : Connecting(u)'
      BY <2>1, <3>1, LeavesGetConn
    <3>3. \A u \in CacheUsers : Commanded(u)'
      BY <1>5, <2>1, <3>1
    <3>4. StoreFine(store, V)'
      BY <1>6, <2>1
    <3> QED
      BY <1>1, <1>3, <2>1, <3>2, <3>3, <3>4
         DEF BackInv, BackTypeOK, Expiring, ValuesIn, StoreFine
  <2>3. CASE ~ manager
    <3>1. step' = [step EXCEPT ![t] = "connect"] /\ UNCHANGED lockVars
      BY <1>7, <2>3 DEF GetConn, StepTo
    <3>2. InGetConn' = InGetConn
      BY <1>1, <2>1, <3>1 DEF InGetConn
    <3>3. LockTypeOK(CacheUsers)' /\ ManagerLockHandedOn'
      BY <1>1, <3>1, <3>2 DEF BackInv, LockTypeOK, ManagerLockHandedOn, LockKept, lockVars
    <3>4. \A u \in CacheUsers : Connecting(u)'
      BY <1>1, <2>1, <2>3, <3>1 DEF BackInv, Connecting, lockVars
    <3>5. step' \in [CacheUsers -> {"idle", "lock", "connect", "io", "done"}]
      BY <1>1, <3>1
    <3>6. \A u \in CacheUsers : Commanded(u)'
      BY <1>5, <2>1, <3>1
    <3>7. StoreFine(store, V)'
      BY <1>6, <2>1
    <3> QED
      BY <1>1, <1>3, <2>1, <3>3, <3>4, <3>5, <3>6, <3>7
         DEF BackInv, BackTypeOK, Expiring, ValuesIn, StoreFine
  <2> QED
    BY <2>2, <2>3
<1>8. CASE ConnectOk(t) \/ ConnectErr(t)
  <2>1. PICK s \in {"io", "done"} : step' = [step EXCEPT ![t] = s]
    BY <1>8 DEF ConnectOk, ConnectErr, StepTo
  <2>2. /\ step[t] = "connect" /\ Unlock /\ UNCHANGED <<backend, store, cmd, result>>
        /\ manager' \in BOOLEAN
    BY <1>1, <1>8 DEF ConnectOk, ConnectErr
  <2>3. holder = t
    BY <2>2 DEF BackInv, Connecting
  <2>4. /\ LockTypeOK(CacheUsers)' /\ ManagerLockHandedOn'
        /\ step' \in [CacheUsers -> {"idle", "lock", "connect", "io", "done"}]
        /\ \A u \in CacheUsers : Connecting(u)'
    BY <2>1, <2>2, <2>3, LeavesGetConn
  <2>5. \A u \in CacheUsers : Commanded(u)'
    BY <1>5, <2>1, <2>2
  <2>6. StoreFine(store, V)'
    BY <1>6, <2>2
  <2> QED
    BY <1>1, <1>3, <2>2, <2>4, <2>5, <2>6
       DEF BackInv, BackTypeOK, Expiring, ValuesIn, StoreFine
<1>9. CASE Execute(t) \/ ExecuteErr(t)
  <2>1. /\ step[t] = "io" /\ step' = [step EXCEPT ![t] = "done"]
        /\ UNCHANGED <<backend, manager, cmd, lockVars>>
        /\ store' = store \/ store' = After(cmd[t])
    BY <1>9 DEF Execute, ExecuteErr, StepTo
  <2> DEFINE got == IF cmd[t].op = "get" THEN {e.value : e \in store[cmd[t].key]} ELSE {}
  <2>2. result' = result \/ result' = [result EXCEPT ![t] = got]
    BY <1>9 DEF Execute, ExecuteErr
  <2>3. (cmd[t].op = "get" => got \subseteq V[cmd[t].key]) /\ got \subseteq StoreValues
    <3>1. cmd[t] \in Commands
      BY <1>3, <2>1
    <3>2. cmd[t].op = "get" => cmd[t].key \in StoreKeys
      BY <3>1, CommandParts
    <3>3. \A k \in StoreKeys : \A e \in store[k] : e.value \in V[k] /\ e.value \in StoreValues
      BY <1>2 DEF StoreFine, StoreEntry
    <3> QED
      BY <3>2, <3>3
  <2> HIDE DEF got
  <2>4. /\ result' \in [CacheUsers -> SUBSET StoreValues]
        /\ \A u \in CacheUsers : cmd[u].op = "get" => result'[u] \subseteq V[cmd[u].key]
    BY <1>1, <1>3, <2>2, <2>3
  <2>5. /\ LockTypeOK(CacheUsers)' /\ ManagerLockHandedOn'
        /\ step' \in [CacheUsers -> {"idle", "lock", "connect", "io", "done"}]
        /\ \A u \in CacheUsers : Connecting(u)'
    BY <2>1, StaysOutside
  <2>6. \A u \in CacheUsers : Commanded(u)'
    BY <1>5, <2>1
  <2>7. StoreFine(store, V)'
    BY <1>6, <2>1
  <2> QED
    BY <1>1, <1>3, <2>1, <2>4, <2>5, <2>6, <2>7
       DEF BackInv, BackTypeOK, Expiring, ValuesIn, StoreFine
<1>10. CASE Take(t)
  BY <1>10, ForgetInv DEF Take
<1>11. CASE DropCommand(t)
  <2>1. /\ step[t] # "idle" /\ Forget(t) /\ UNCHANGED <<backend, manager>>
        /\ IF step[t] \in {"lock", "connect"} THEN DropLock(t) ELSE UNCHANGED lockVars
        /\ store' = store \/ store' = After(cmd[t])
    BY <1>11 DEF DropCommand
  <2>2. step' = [step EXCEPT ![t] = "idle"]
    BY <2>1 DEF Forget, StepTo
  <2>3. /\ LockTypeOK(CacheUsers)' /\ ManagerLockHandedOn'
        /\ step' \in [CacheUsers -> {"idle", "lock", "connect", "io", "done"}]
        /\ \A u \in CacheUsers : Connecting(u)'
    <3>1. CASE step[t] \in {"lock", "connect"}
      BY <2>1, <2>2, <3>1, LeavesGetConn
    <3>2. CASE step[t] \notin {"lock", "connect"}
      BY <2>1, <2>2, <3>2, StaysOutside
    <3> QED
      BY <3>1, <3>2
  <2>4. /\ cmd' \in [CacheUsers -> Commands \cup {NoCommand}]
        /\ result' \in [CacheUsers -> SUBSET StoreValues]
        /\ \A u \in CacheUsers : Commanded(u)'
        /\ \A u \in CacheUsers : cmd'[u].op = "get" => result'[u] \subseteq V[cmd'[u].key]
        /\ \A u \in CacheUsers : cmd'[u].op = "set" => cmd'[u].value \in V[cmd'[u].key]
    BY <2>1, ForgottenCommand
  <2>5. StoreFine(store, V)'
    BY <1>6, <2>1
  <2> QED
    BY <1>1, <2>1, <2>3, <2>4, <2>5 DEF BackInv, BackTypeOK, Expiring, ValuesIn, StoreFine
<1> QED
  BY <1>7, <1>8, <1>9, <1>10, <1>11 DEF BackStep

\* Neither eviction nor time nor another program that uses Redis touches a command.
LEMMA BackTimeInv ==
    ASSUME NEW V, BackInv, ValuesIn(V),
           NEW v \in StoreValues, \A k \in StoreKeys : v \in V[k],
           Second \/ \E k \in StoreKeys : Evict(k) \/ SetByOthers(k, v)
    PROVE  BackInv' /\ ValuesIn(V)'
<1>1. UNCHANGED <<backend, manager, cmd, step, result, lockVars>>
  BY DEF Second, Evict, SetByOthers
<1>2. StoreFine(store, V)
  BY StoreParts
<1>3. StoreFine(store, V)'
  <2>1. CASE Second
    BY <1>2, <2>1, SecondFine
  <2>2. ASSUME NEW k \in StoreKeys, Evict(k) PROVE StoreFine(store, V)'
    BY <1>1, <1>2, <2>2 DEF Evict, StoreFine
  <2>3. ASSUME NEW k \in StoreKeys, SetByOthers(k, v) PROVE StoreFine(store, V)'
    <3> DEFINE e == [value |-> v, age |-> 0, expires |-> TRUE]
    <3>1. store' = [store EXCEPT ![k] = {e}] /\ Ttl > 0
      BY <2>3 DEF SetByOthers
    <3>2. 0 \in 0..Ttl /\ 0 < Ttl
      BY <3>1, BackendAssumption
    <3>3. e.value = v /\ e.age = 0 /\ e.expires
      BY Zenon
    <3>4. TRUE \in BOOLEAN
      OBVIOUS
    <3>5. e \in StoreEntry
      BY <3>2, <3>4, Zenon DEF StoreEntry
    <3> HIDE DEF e
    <3> QED
      BY <1>1, <1>2, <3>1, <3>2, <3>3, <3>5 DEF StoreFine
  <2> QED
    BY <2>1, <2>2, <2>3
<1>4. InGetConn' = InGetConn
  BY <1>1 DEF InGetConn
<1> QED
  BY <1>1, <1>3, <1>4 DEF BackInv, BackTypeOK, ManagerLockHandedOn, LockKept, LockTypeOK, lockVars,
                          Connecting, Commanded, Expiring, ValuesIn, StoreFine

\* A step that leaves the backends alone.
LEMMA BackSame ==
    ASSUME NEW V, BackInv, ValuesIn(V), UNCHANGED backVars
    PROVE  BackInv' /\ ValuesIn(V)'
<1>1. UNCHANGED <<backend, store, manager, cmd, step, result, lockVars>>
  BY DEF backVars
<1>2. InGetConn' = InGetConn
  BY <1>1 DEF InGetConn
<1> QED
  BY <1>1, <1>2 DEF BackInv, BackTypeOK, ManagerLockHandedOn, LockKept, LockTypeOK, lockVars,
                    Connecting, Commanded, Expiring, ValuesIn

-----------------------------------------------------------------------------
(* What the order of the layers says.                                      *)

\* Every layer has one place in the stack.
LEMMA Places ==
    ASSUME stack \in Stacks
    PROVE  /\ stack \in Seq(Layers) /\ Len(stack) \in Nat /\ DOMAIN stack = 1..Len(stack)
           /\ \A l \in Layers : Place(l) \in 1..Len(stack) /\ stack[Place(l)] = l
           /\ \A i \in 1..Len(stack) : Place(stack[i]) = i
<1>1. stack \in Seq(Layers) /\ IsInjective(stack) /\ ToSet(stack) = Layers
  BY MiddlewareAssumption
<1>2. Len(stack) \in Nat /\ DOMAIN stack = 1..Len(stack)
  BY <1>1
<1>3. \A l \in Layers : \E i \in DOMAIN stack : stack[i] = l
  BY <1>1 DEF ToSet
<1>4. \A l \in Layers : Place(l) \in DOMAIN stack /\ stack[Place(l)] = l
  BY <1>3, Zenon DEF Place
<1>5. \A i \in DOMAIN stack : stack[i] \in Layers
  BY <1>1
<1>6. \A i, j \in DOMAIN stack : stack[i] = stack[j] => i = j
  BY <1>1 DEF IsInjective
<1>7. \A i \in DOMAIN stack : Place(stack[i]) = i
  BY <1>4, <1>5, <1>6
<1> HIDE DEF Place
<1> QED
  BY <1>1, <1>2, <1>4, <1>7

\* The calls of the layers get no further than this one.
Ends(layer, q) == Refuses(layer, q) \/ Panics(layer, q)

\* The calls stop at the first layer that refuses or panics, in the order of the stack.
LEMMA FirstRefusal ==
    ASSUME stack \in Stacks, NEW q
    PROVE  /\ Reach(q) \in 1..(Len(stack) + 1)
           /\ Reach(q) <= Len(stack) => Ends(stack[Reach(q)], q)
           /\ \A i \in 1..Len(stack) : Ends(stack[i], q) => Reach(q) <= i
<1> DEFINE refusing == {i \in DOMAIN stack : Ends(stack[i], q)}
<1>1. Len(stack) \in Nat /\ DOMAIN stack = 1..Len(stack)
  BY Places
<1>2. CASE refusing = {}
  <2>1. Reach(q) = Len(stack) + 1
    BY <1>2, Zenon DEF Reach, Ends
  <2> QED
    BY <1>1, <1>2, <2>1
<1>3. CASE refusing # {}
  <2>1. refusing \subseteq Nat
    BY <1>1
  <2>2. \E i \in refusing : \A j \in refusing : i <= j
    BY <1>3, <2>1, LeastNatural
  <2>3. Reach(q) = CHOOSE i \in refusing : \A j \in refusing : i <= j
    BY <1>3, Zenon DEF Reach, Ends
  <2>4. Reach(q) \in refusing /\ \A j \in refusing : Reach(q) <= j
    BY <2>2, <2>3, Zenon
  <2> QED
    BY <1>1, <2>4
<1> QED
  BY <1>2, <1>3

\* Calls that get past auth are authorised.
LEMMA PastAuth ==
    ASSUME stack \in Stacks, NEW q, Place("auth") < Reach(q)
    PROVE  Authorised(q)
<1>1. Place("auth") \in 1..Len(stack) /\ stack[Place("auth")] = "auth" /\ Len(stack) \in Nat
  BY Places DEF Layers
<1>2. ~ Refuses("auth", q)
  BY <1>1, FirstRefusal DEF Ends
<1> QED
  BY <1>2 DEF Refuses

\* The refusing layer, and how deep the calls get with the limiter.
LEMMA Depths ==
    ASSUME MwTypeOK, NEW r \in Requests, NEW d \in DOMAIN stack \cup {Len(stack) + 1},
           AskLimiter(r, d)
    PROVE  /\ d \in 1..Reach(input[r])
           /\ d \in DOMAIN stack => stack[d] \in {"cors", "auth", "limit"}
           /\ d = Len(stack) + 1 => CheckKeyOk(LimitKey(input[r]))
           /\ [CheckKeyOk(LimitKey(input[r])) \/ CheckKeyErr(LimitKey(input[r]))]_limVars
<1> DEFINE q == input[r]
<1>1. /\ Reach(q) \in 1..(Len(stack) + 1)
      /\ Reach(q) <= Len(stack) => Ends(stack[Reach(q)], q)
  BY FirstRefusal DEF MwTypeOK
<1>2. /\ Place("limit") \in 1..Len(stack) /\ stack[Place("limit")] = "limit"
      /\ Len(stack) \in Nat /\ DOMAIN stack = 1..Len(stack)
  BY Places DEF Layers, MwTypeOK
<1>3. Reach(q) <= Len(stack) => stack[Reach(q)] \in {"cors", "auth"}
  BY <1>1 DEF Ends, Refuses, Panics
<1>4. \/ Place("limit") > Reach(q) /\ d = Reach(q) /\ UNCHANGED limVars
      \/ Place("limit") < Reach(q) /\ d = Reach(q) /\ CheckKeyOk(LimitKey(q))
      \/ Place("limit") < Reach(q) /\ d = Place("limit") /\ CheckKeyErr(LimitKey(q))
  BY DEF AskLimiter
<1> QED
  BY <1>1, <1>2, <1>3, <1>4

\* The order of the layers does not change.
LEMMA SameStack ==
    ASSUME stack' = stack
    PROVE  /\ \A l : Place(l)' = Place(l)
           /\ \A q : Reach(q)' = Reach(q)
           /\ \A a, b : Outside(a, b)' <=> Outside(a, b)
           /\ input' = input => (\A k : OriginsOf(k)' = OriginsOf(k)) /\ Clean' = Clean
<1>1. \A l : Place(l)' = Place(l)
  BY DEF Place
<1>2. \A q : Reach(q)' = Reach(q)
  BY DEF Reach
<1>3. \A a, b : Outside(a, b)' <=> Outside(a, b)
  BY <1>1 DEF Outside
<1>4. ASSUME input' = input PROVE (\A k : OriginsOf(k)' = OriginsOf(k)) /\ Clean' = Clean
  <2>1. \A k : OriginsOf(k)' = OriginsOf(k)
    BY <1>4 DEF OriginsOf
  <2>2. \A k : Named(k)' = Named(k)
    BY <1>3, <2>1, Zenon DEF Named
  <2> QED
    BY <2>1, <2>2 DEF Clean
<1> QED
  BY <1>1, <1>2, <1>3, <1>4

-----------------------------------------------------------------------------
(* The responses.                                                          *)

\* What the layers a response goes out through make of it.
LEMMA OutwardsParts ==
    ASSUME NEW v \in Response, NEW q \in Inputs, NEW i, NEW j
    PROVE  LET w == Outwards(v, q, i, j)
           IN  /\ w \in Response /\ w.by = v.by /\ w.status = v.status /\ w.hit = v.hit
               /\ w.acao = v.acao \/ w.acao = q.origin
               /\ Place("cors") \notin i..j => w = v
<1>1. q.origin \in Origins /\ NoOrigin \in Origins
  BY DEF Origins
<1>2. CASE Outwards(v, q, i, j) = v
  BY <1>2
<1>3. CASE Place("cors") \in i..j /\ Outwards(v, q, i, j) = [v EXCEPT !.acao = q.origin]
  BY <1>1, <1>3 DEF Response
<1>4. \/ Outwards(v, q, i, j) = v
      \/ Place("cors") \in i..j /\ Outwards(v, q, i, j) = [v EXCEPT !.acao = q.origin]
  BY DEF Outwards
<1> QED
  BY <1>2, <1>3, <1>4

\* The answer of a layer that refuses.
LEMMA RefusalParts ==
    ASSUME NEW l \in {"cors", "auth", "limit"}, NEW q \in Inputs
    PROVE  LET w == Refusal(l, q)
           IN  /\ w \in Response /\ w.by = l /\ ~ w.hit
               /\ w.acao = NoOrigin \/ w.acao = q.origin
               /\ l # "cors" => w.acao = NoOrigin
<1>1. q.origin \in Origins /\ NoOrigin \in Origins
  BY DEF Origins
<1> DEFINE origin == IF l = "cors" /\ IsOriginAllowed(q.origin) THEN q.origin ELSE NoOrigin
           code == CASE l = "cors"  -> IF IsOriginAllowed(q.origin) THEN 204 ELSE 403
                     [] l = "auth"  -> 401
                     [] l = "limit" -> 429
<1>2. Refusal(l, q) = [by |-> l, hit |-> FALSE, acao |-> origin, status |-> code]
  BY DEF Refusal
<1>3. origin \in {NoOrigin, q.origin} /\ (l # "cors" => origin = NoOrigin)
  OBVIOUS
<1>4. code \in Nat
  OBVIOUS
<1> HIDE DEF origin, code
<1>5. origin \in Origins
  BY <1>1, <1>3
<1>6. l \in Layers \cup {"inner", "nobody"} /\ FALSE \in BOOLEAN
  BY DEF Layers
<1>7. [by |-> l, hit |-> FALSE, acao |-> origin, status |-> code] \in Response
  BY <1>4, <1>5, <1>6, Zenon DEF Response
<1>8. Refusal(l, q) \in Response
  BY <1>2, <1>7
<1>9. Refusal(l, q).by = l /\ ~ Refusal(l, q).hit /\ Refusal(l, q).acao = origin
  BY <1>2
<1> QED
  BY <1>3, <1>8, <1>9

\* What is stored is a response.
LEMMA StoredParts ==
    ASSUME NEW v \in StoreValues
    PROVE  v \in Response /\ v.by # "nobody" /\ ~ v.hit
<1>1. v \in Storable \cup {Unbuildable} /\ CacheableStatuses \subseteq Nat
  BY MiddlewareAssumption
<1>2. CASE v \in Storable
  <2>1. /\ v = [by |-> v.by, status |-> v.status, acao |-> v.acao, hit |-> v.hit]
        /\ v.by \in Layers \cup {"inner"} /\ v.status \in CacheableStatuses
        /\ v.acao \in Origins /\ v.hit \in {FALSE}
    BY <1>2 DEF Storable
  <2>2. v.by # "nobody" /\ v.status \in Nat /\ v.by \in Layers \cup {"inner", "nobody"}
    BY <1>1, <2>1 DEF Layers
  <2>3. v.hit = FALSE /\ v.hit \in BOOLEAN
    BY <2>1, Zenon
  <2>4. [by |-> v.by, status |-> v.status, acao |-> v.acao, hit |-> v.hit] \in Response
    BY <2>1, <2>2, <2>3, Zenon DEF Response
  <2> QED
    BY <2>1, <2>2, <2>3, <2>4
<1>3. CASE v = Unbuildable
  <2>1. v = [by |-> "inner", status |-> 1000, acao |-> NoOrigin, hit |-> FALSE]
    BY <1>3 DEF Unbuildable
  <2>2. NoOrigin \in Origins /\ 1000 \in Nat
    BY DEF Origins
  <2>3. "inner" \in Layers \cup {"inner", "nobody"} /\ FALSE \in BOOLEAN
    OBVIOUS
  <2>4. v \in Response
    BY <2>1, <2>2, <2>3, Zenon DEF Response
  <2> QED
    BY <2>1, <2>4
<1> QED
  BY <1>1, <1>2, <1>3

\* An entry of another program names no origin.
LEMMA ForeignClean ==
    ASSUME NEW k \in StoreKeys
    PROVE  Unbuildable \in StoreValues /\ Unbuildable \in Clean[k]
<1>1. Unbuildable \in StoreValues
  BY MiddlewareAssumption
<1>2. Unbuildable.acao = NoOrigin
  BY DEF Unbuildable
<1> QED
  BY <1>1, <1>2 DEF Clean, Named

-----------------------------------------------------------------------------
(* A step of one call.                                                     *)

\* Call r goes to p, and to d, a and b; the other calls do not move.
Moves(r, p, d, a, b) ==
    /\ pc' = [pc EXCEPT ![r] = p]
    /\ depth' = [depth EXCEPT ![r] = d]
    /\ answer' = [answer EXCEPT ![r] = a]
    /\ ran' = [ran EXCEPT ![r] = b]
    /\ UNCHANGED <<stack, input>>
    /\ \A t \in CacheUsers : t # r => step'[t] = step[t]

\* It is counted if it comes through MetricsService now.
CountedNow(r, p, d, a) ==
    LET before == Counts(pc[r], depth[r], answer[r])
        after  == Counts(p, d, a)
    IN  /\ before => after
        /\ counted' = IF after /\ ~ before THEN counted + 1 ELSE counted

Good(r, p, d, a, b) ==
    /\ Moves(r, p, d, a, b)
    /\ ReachOK(input[r], p, d, b)
    /\ AnswerOK(input[r], p, d, a, b, step'[r])
    /\ CountedNow(r, p, d, a)

Progress == {"idle", "lookup", "inner", "store", "done", "failed", "gone", "panicked"}

\* The calls that count.
Through == {r \in Requests : Counts(pc[r], depth[r], answer[r])}

\* CountedOnce is about them.
LEMMA CountsThrough ==
    /\ CountedOnce <=> counted = Cardinality(Through)
    /\ CountedOnce' <=> counted' = Cardinality(Through')
<1> DEFINE counting == {r \in Requests :
                  /\ answer[r].by # "nobody"
                  /\ Place("metrics") < Source(r)
                  /\ \/ pc[r] = "done"
                     \/ pc[r] \in {"store", "gone"} /\ Outside("cache", "metrics")}
<1>1. Through = counting /\ Through' = counting'
  BY DEF Through, Counts, Source
<1> QED
  BY <1>1, Zenon DEF CountedOnce

\* The rules do not depend on anything but the order of the layers and the requests.
LEMMA SameRules ==
    ASSUME stack' = stack, input' = input, NEW q, NEW p, NEW d, NEW a, NEW b, NEW s
    PROVE  /\ ReachOK(q, p, d, b)' <=> ReachOK(q, p, d, b)
           /\ AnswerOK(q, p, d, a, b, s)' <=> AnswerOK(q, p, d, a, b, s)
           /\ Counts(p, d, a)' <=> Counts(p, d, a)
<1>1. /\ \A l : Place(l)' = Place(l)
      /\ \A x : Reach(x)' = Reach(x)
      /\ \A x, y : Outside(x, y)' <=> Outside(x, y)
      /\ \A k : OriginsOf(k)' = OriginsOf(k)
  BY SameStack
<1>2. OriginOK(q, a)' <=> OriginOK(q, a)
  BY <1>1 DEF OriginOK
<1> QED
  BY <1>1, <1>2 DEF ReachOK, AnswerOK, Counts

\* The types and the rules of the calls hold after a good step.
LEMMA GoodCalls ==
    ASSUME MwInv, NEW r \in Requests, NEW p \in Progress, NEW d \in 0..(Len(stack) + 1),
           NEW a \in Response, NEW b \in BOOLEAN, Good(r, p, d, a, b),
           BackInv', LimInv'
    PROVE  MwTypeOK' /\ \A u \in Requests : CallOK(u)'
<1>1. /\ stack \in Stacks /\ pc \in [Requests -> Progress] /\ input \in [Requests -> Inputs]
      /\ depth \in [Requests -> 0..(Len(stack) + 1)] /\ answer \in [Requests -> Response]
      /\ ran \in [Requests -> BOOLEAN] /\ counted \in Nat
  BY DEF MwInv, MwTypeOK, Progress
<1>2. /\ pc' = [pc EXCEPT ![r] = p] /\ depth' = [depth EXCEPT ![r] = d]
      /\ answer' = [answer EXCEPT ![r] = a] /\ ran' = [ran EXCEPT ![r] = b]
      /\ stack' = stack /\ input' = input
      /\ \A t \in CacheUsers : t # r => step'[t] = step[t]
  BY DEF Good, Moves
<1>3. counted' \in Nat
  BY <1>1 DEF Good, CountedNow
<1>4. /\ pc' \in [Requests -> Progress] /\ answer' \in [Requests -> Response]
      /\ depth' \in [Requests -> 0..(Len(stack) + 1)]
  BY <1>1, <1>2
<1>5. ran' \in [Requests -> BOOLEAN]
  BY <1>1, <1>2
<1>6. MwTypeOK'
  BY <1>1, <1>2, <1>3, <1>4, <1>5 DEF MwTypeOK, BackInv, LimInv, Progress
<1>7. ASSUME NEW u \in Requests, u # r PROVE CallOK(u)'
  <2>1. /\ pc'[u] = pc[u] /\ depth'[u] = depth[u] /\ answer'[u] = answer[u] /\ ran'[u] = ran[u]
        /\ input'[u] = input[u] /\ step'[u] = step[u]
    BY <1>1, <1>2, <1>7, MiddlewareAssumption
  <2>2. /\ ReachOK(input[u], pc[u], depth[u], ran[u])
        /\ AnswerOK(input[u], pc[u], depth[u], answer[u], ran[u], step[u])
    BY DEF MwInv, CallOK
  <2> PICK q, pu, du, au, bu, su :
           <<q, pu, du, au, bu, su>> = <<input[u], pc[u], depth[u], answer[u], ran[u], step[u]>>
    OBVIOUS
  <2>3. ReachOK(q, pu, du, bu)' /\ AnswerOK(q, pu, du, au, bu, su)'
    BY <1>2, <2>2, SameRules
  <2> QED
    BY <2>1, <2>3 DEF CallOK
<1>8. CallOK(r)'
  <2>1. pc'[r] = p /\ depth'[r] = d /\ answer'[r] = a /\ ran'[r] = b /\ input'[r] = input[r]
    BY <1>1, <1>2
  <2>2. ReachOK(input[r], p, d, b) /\ AnswerOK(input[r], p, d, a, b, step'[r])
    BY DEF Good
  <2> PICK q, s : q = input[r] /\ s = step'[r]
    OBVIOUS
  <2>3. ReachOK(q, p, d, b)' /\ AnswerOK(q, p, d, a, b, s)'
    BY <1>2, <2>2, SameRules
  <2> QED
    BY <2>1, <2>3 DEF CallOK
<1> QED
  BY <1>6, <1>7, <1>8

\* The counter is exact after a good step.
LEMMA GoodCounted ==
    ASSUME MwInv, NEW r \in Requests, NEW p \in Progress, NEW d \in 0..(Len(stack) + 1),
           NEW a \in Response, NEW b \in BOOLEAN, Good(r, p, d, a, b)
    PROVE  CountedOnce'
<1>1. /\ pc \in [Requests -> Progress] /\ depth \in [Requests -> 0..(Len(stack) + 1)]
      /\ answer \in [Requests -> Response] /\ counted \in Nat
  BY DEF MwInv, MwTypeOK, Progress
<1>2. /\ pc' = [pc EXCEPT ![r] = p] /\ depth' = [depth EXCEPT ![r] = d]
      /\ answer' = [answer EXCEPT ![r] = a] /\ stack' = stack /\ input' = input
  BY DEF Good, Moves
<1> DEFINE before == Counts(pc[r], depth[r], answer[r])
           after == Counts(p, d, a)
<1>3. (before => after) /\ counted' = IF after /\ ~ before THEN counted + 1 ELSE counted
  BY DEF Good, CountedNow
<1>4. \A u \in Requests : u # r => (u \in Through' <=> u \in Through)
  <2> TAKE u \in Requests
  <2> HAVE u # r
  <2>1. pc'[u] = pc[u] /\ depth'[u] = depth[u] /\ answer'[u] = answer[u]
    BY <1>1, <1>2
  <2> PICK pu, du, au : <<pu, du, au>> = <<pc[u], depth[u], answer[u]>>
    OBVIOUS
  <2>2. Counts(pu, du, au)' <=> Counts(pu, du, au)
    BY <1>2, SameRules
  <2> QED
    BY <2>1, <2>2 DEF Through
<1>5. (r \in Through <=> before) /\ (r \in Through' <=> after)
  <2>1. pc'[r] = p /\ depth'[r] = d /\ answer'[r] = a
    BY <1>1, <1>2
  <2>2. Counts(p, d, a)' <=> Counts(p, d, a)
    BY <1>2, SameRules
  <2> QED
    BY <2>1, <2>2 DEF Through
<1>6. IsFiniteSet(Through)
  <2>1. Through \subseteq Requests
    BY DEF Through
  <2> QED
    BY <2>1, MiddlewareAssumption, FS_Subset
<1>7. counted = Cardinality(Through)
  BY CountsThrough DEF MwInv
<1>8. Through \subseteq Requests /\ Through' \subseteq Requests
  BY DEF Through
<1> HIDE DEF before, after
<1>9. CountedOnce' <=> counted' = Cardinality(Through')
  BY CountsThrough
<1>10. CASE after /\ ~ before
  <2>1. Through' = Through \cup {r} /\ r \notin Through
    BY <1>4, <1>5, <1>8, <1>10
  <2>2. Cardinality(Through') = Cardinality(Through) + 1
    BY <1>6, <2>1, FS_AddElement
  <2> QED
    BY <1>3, <1>7, <1>9, <1>10, <2>2
<1>11. CASE ~ (after /\ ~ before)
  <2>1. \A u \in Requests : u \in Through' <=> u \in Through
    BY <1>3, <1>4, <1>5, <1>11
  <2>2. Through' = Through
    BY <1>8, <2>1, Zenon
  <2> QED
    BY <1>3, <1>7, <1>9, <1>11, <2>2
<1> QED
  BY <1>10, <1>11

GoodStep(r) ==
    /\ \E p \in Progress, d \in 0..(Len(stack) + 1), a \in Response, b \in BOOLEAN :
          Good(r, p, d, a, b)
    /\ BackInv'
    /\ ValuesIn(Clean)'

\* What the invariant says of one call.
LEMMA CallFacts ==
    ASSUME MwInv, NEW r \in Requests
    PROVE  /\ stack \in Stacks /\ r \in CacheUsers /\ input[r] \in Inputs /\ pc[r] \in Progress
           /\ depth[r] \in 0..(Len(stack) + 1) /\ answer[r] \in Response /\ ran[r] \in BOOLEAN
           /\ counted \in Nat /\ Len(stack) \in Nat
           /\ step \in [CacheUsers -> {"idle", "lock", "connect", "io", "done"}]
           /\ BuildKey(input[r]) \in StoreKeys /\ LimitKey(input[r]) \in LimitKeys
           /\ BackInv /\ ValuesIn(Clean)
           /\ ReachOK(input[r], pc[r], depth[r], ran[r])
           /\ AnswerOK(input[r], pc[r], depth[r], answer[r], ran[r], step[r])
<1>1. /\ stack \in Stacks /\ input[r] \in Inputs /\ pc[r] \in Progress
      /\ depth[r] \in 0..(Len(stack) + 1) /\ answer[r] \in Response /\ ran[r] \in BOOLEAN
      /\ counted \in Nat
      /\ step \in [CacheUsers -> {"idle", "lock", "connect", "io", "done"}]
  BY DEF MwInv, MwTypeOK, BackTypeOK, Progress
<1>2. Len(stack) \in Nat
  BY <1>1, Places
<1>3. r \in CacheUsers /\ BuildKey(input[r]) \in StoreKeys /\ LimitKey(input[r]) \in LimitKeys
  BY <1>1, MiddlewareAssumption
<1> QED
  BY <1>1, <1>2, <1>3 DEF MwInv, CallOK

\* Where a call goes, from what its step leaves alone.
LEMMA MovesTo ==
    ASSUME MwInv, NEW r \in Requests, NEW p, NEW d, NEW a, NEW b,
           pc' = [pc EXCEPT ![r] = p],
           \/ depth' = [depth EXCEPT ![r] = d]
           \/ depth' = depth /\ d = depth[r],
           \/ answer' = [answer EXCEPT ![r] = a]
           \/ answer' = answer /\ a = answer[r],
           \/ ran' = [ran EXCEPT ![r] = b]
           \/ ran' = ran /\ b = ran[r],
           UNCHANGED <<stack, input>>,
           \/ step' = step
           \/ \E s : step' = [step EXCEPT ![r] = s]
    PROVE  Moves(r, p, d, a, b)
<1>1. /\ depth \in [Requests -> 0..(Len(stack) + 1)] /\ answer \in [Requests -> Response]
      /\ ran \in [Requests -> BOOLEAN]
      /\ step \in [CacheUsers -> {"idle", "lock", "connect", "io", "done"}]
  BY DEF MwInv, MwTypeOK, BackTypeOK
<1>2. depth' = [depth EXCEPT ![r] = d]
  BY <1>1
<1>3. answer' = [answer EXCEPT ![r] = a]
  BY <1>1
<1>4. ran' = [ran EXCEPT ![r] = b]
  BY <1>1
<1>5. \A t \in CacheUsers : t # r => step'[t] = step[t]
  BY <1>1
<1> QED
  BY <1>2, <1>3, <1>4, <1>5 DEF Moves

\* The cache layer's own steps for r, as far as the backends are concerned.
LEMMA CleanKept ==
    ASSUME stack' = stack, input' = input, NEW V, V = Clean, ValuesIn(V)'
    PROVE  ValuesIn(Clean)'
BY SameStack DEF ValuesIn

\* A response that has come up to the cache layer, stored or not.
LEMMA UpToCache ==
    ASSUME MwInv, NEW r \in Requests, NEW v \in Response, ~ v.hit, v.by # "nobody",
           Outside("cors", "cache") => v.acao = NoOrigin, v.acao \in {NoOrigin, input[r].origin},
           depth[r] > Place("cache")
    PROVE  LET w == Outwards(v, input[r], Place("cache") + 1, depth[r] - 1)
               x == Outwards(w, input[r], 1, Place("cache") - 1)
           IN  /\ w \in Response /\ ~ w.hit /\ w.by = v.by /\ w.status = v.status
               /\ Outside("cors", "cache") => w.acao = NoOrigin
               /\ w.acao \in {NoOrigin, input[r].origin}
               /\ x \in Response /\ ~ x.hit /\ x.by = v.by
               /\ x.acao \in {NoOrigin, input[r].origin}
<1>1. stack \in Stacks /\ input[r] \in Inputs /\ depth[r] \in Nat
  BY CallFacts
<1>2. Place("cors") \in Nat /\ Place("cache") \in Nat
  BY <1>1, Places DEF Layers
<1> DEFINE q == input[r]
           w == Outwards(v, q, Place("cache") + 1, depth[r] - 1)
           x == Outwards(w, q, 1, Place("cache") - 1)
<1>3. /\ w \in Response /\ w.by = v.by /\ w.status = v.status /\ w.hit = v.hit
      /\ w.acao = v.acao \/ w.acao = q.origin
      /\ Place("cors") \notin (Place("cache") + 1)..(depth[r] - 1) => w = v
  BY <1>1, OutwardsParts
<1>4. Outside("cors", "cache") => Place("cors") \notin (Place("cache") + 1)..(depth[r] - 1)
  BY <1>1, <1>2 DEF Outside
<1> HIDE DEF w
<1>5. /\ x \in Response /\ x.by = w.by /\ x.hit = w.hit /\ (x.acao = w.acao \/ x.acao = q.origin)
  BY <1>1, <1>3, OutwardsParts
<1> QED
  BY <1>3, <1>4, <1>5 DEF w

\* It is one of the values the cache may hold.
LEMMA StorableValue ==
    ASSUME NEW r \in Requests, input[r].method = "GET", BuildKey(input[r]) \in StoreKeys,
           NEW w \in Response, ~ w.hit, w.by # "nobody", w.status \in CacheableStatuses,
           Outside("cors", "cache") => w.acao = NoOrigin, w.acao \in {NoOrigin, input[r].origin}
    PROVE  w \in StoreValues /\ w \in Clean[BuildKey(input[r])]
<1>1. /\ w = [by |-> w.by, status |-> w.status, acao |-> w.acao, hit |-> w.hit]
      /\ w.by \in Layers \cup {"inner", "nobody"} /\ w.acao \in Origins /\ w.hit \in BOOLEAN
  BY DEF Response
<1>2. w.by \in Layers \cup {"inner"} /\ w.hit \in {FALSE}
  BY <1>1
<1>3. [by |-> w.by, status |-> w.status, acao |-> w.acao, hit |-> w.hit] \in Storable
  BY <1>1, <1>2, Zenon DEF Storable
<1>4. w \in StoreValues
  BY <1>1, <1>3, MiddlewareAssumption
<1>5. input[r].origin \in OriginsOf(BuildKey(input[r]))
  BY DEF OriginsOf
<1>6. w.acao \in Named(BuildKey(input[r]))
  BY <1>5 DEF Named
<1> QED
  BY <1>4, <1>6 DEF Clean

\* A response of what the cache layer wraps is stored or goes on, and comes through
\* MetricsService at most once.
LEMMA ArrivesGood ==
    ASSUME MwInv, NEW r \in Requests, NEW v \in Response, ~ v.hit, v.by # "nobody",
           Outside("cors", "cache") => v.acao = NoOrigin, v.acao \in {NoOrigin, input[r].origin},
           depth[r] > Place("cache"), input[r].method = "GET",
           pc[r] \in {"lookup", "inner"}, step[r] \in {"idle", "done"},
           Arrives(r, v), UNCHANGED <<stack, input, depth, ran>>
    PROVE  GoodStep(r)
<1> DEFINE q == input[r]
           c == Place("cache")
           m == Place("metrics")
           d == depth[r]
           w == Outwards(v, q, c + 1, d - 1)
           x == Outwards(w, q, 1, c - 1)
<1>1. /\ stack \in Stacks /\ r \in CacheUsers /\ q \in Inputs
      /\ d \in 0..(Len(stack) + 1) /\ answer[r] \in Response /\ ran[r] \in BOOLEAN
      /\ counted \in Nat /\ Len(stack) \in Nat
      /\ step \in [CacheUsers -> {"idle", "lock", "connect", "io", "done"}]
      /\ BuildKey(q) \in StoreKeys /\ BackInv /\ ValuesIn(Clean)
      /\ ReachOK(q, pc[r], d, ran[r])
      /\ AnswerOK(q, pc[r], d, answer[r], ran[r], step[r])
  BY CallFacts
<1>2. /\ w \in Response /\ ~ w.hit /\ w.by = v.by /\ w.status = v.status
      /\ Outside("cors", "cache") => w.acao = NoOrigin
      /\ w.acao \in {NoOrigin, input[r].origin}
      /\ x \in Response /\ ~ x.hit /\ x.by = v.by
      /\ x.acao \in {NoOrigin, input[r].origin}
  BY UpToCache
<1>3. c \in 1..Len(stack) /\ m \in 1..Len(stack) /\ c # m
  BY <1>1, Places DEF Layers
<1>4. answer[r] = NoAnswer /\ ~ Counts(pc[r], d, answer[r])
  BY <1>1 DEF AnswerOK, Counts, NoAnswer
<1>5. d \in 1..Reach(q) /\ (d \in DOMAIN stack => stack[d] \in {"cors", "auth", "limit"})
      /\ (ran[r] => d = Len(stack) + 1)
  BY <1>1 DEF ReachOK
<1> PICK V : V = Clean
  OBVIOUS
<1>6. stack' = stack /\ depth' = depth /\ ran' = ran /\ input' = input
  OBVIOUS
<1>7. CASE ShouldCache("GET", <<"/">>, v.status)
  <2> DEFINE command == [op |-> "set", key |-> BuildKey(q), value |-> w]
  <2>1. /\ pc' = [pc EXCEPT ![r] = "store"] /\ answer' = [answer EXCEPT ![r] = w]
        /\ counted' = IF m \in (c + 1)..(d - 1) THEN counted + 1 ELSE counted
        /\ Issue(r, command)
    BY <1>7 DEF Arrives, GoTo, CountThrough
  <2>2. w \in StoreValues /\ w \in V[BuildKey(q)]
    BY <1>1, <1>2, <1>7, StorableValue DEF ShouldCache
  <2>3. command \in Commands /\ (command.op = "set" => command.value \in V[command.key])
    BY <1>1, <2>2 DEF Commands
  <2> HIDE DEF command, w, x
  <2>4. BackInv' /\ ValuesIn(V)'
    BY <1>1, <2>1, <2>3, IssueInv
  <2>5. ValuesIn(Clean)'
    BY <1>6, <2>4, CleanKept
  <2>6. \E s : step' = [step EXCEPT ![r] = s]
    BY <2>1 DEF Issue, StepTo
  <2>7. Moves(r, "store", d, w, ran[r])
    BY <1>6, <2>1, <2>6, MovesTo
  <2>8. ReachOK(q, "store", d, ran[r])
    BY <1>5 DEF ReachOK
  <2>9. AnswerOK(q, "store", d, w, ran[r], step'[r])
    BY <1>2 DEF AnswerOK, OriginOK
  <2>10. Counts("store", d, w) <=> m \in (c + 1)..(d - 1)
    BY <1>1, <1>2, <1>3 DEF Counts, Outside
  <2>11. CountedNow(r, "store", d, w)
    BY <1>4, <2>1, <2>10 DEF CountedNow
  <2>12. Good(r, "store", d, w, ran[r]) /\ "store" \in Progress
    BY <2>7, <2>8, <2>9, <2>11 DEF Good, Progress
  <2> QED
    BY <1>1, <1>2, <2>4, <2>5, <2>12 DEF GoodStep
<1>8. CASE ~ ShouldCache("GET", <<"/">>, v.status)
  <2>1. /\ pc' = [pc EXCEPT ![r] = "done"] /\ answer' = [answer EXCEPT ![r] = x]
        /\ counted' = IF m \in 1..(d - 1) THEN counted + 1 ELSE counted
        /\ Forget(r) /\ UNCHANGED <<backend, store, manager, lockVars>>
    BY <1>8 DEF Arrives, Return, GoTo, CountThrough
  <2>2. step' = [step EXCEPT ![r] = "idle"]
    BY <2>1 DEF Forget, StepTo
  <2> HIDE DEF w, x
  <2>3. BackInv' /\ ValuesIn(V)'
    BY <1>1, <2>1, ForgetInv
  <2>4. ValuesIn(Clean)'
    BY <1>6, <2>3, CleanKept
  <2>5. Moves(r, "done", d, x, ran[r])
    BY <1>6, <2>1, <2>2, MovesTo
  <2>6. ReachOK(q, "done", d, ran[r])
    BY <1>5 DEF ReachOK
  <2>7. AnswerOK(q, "done", d, x, ran[r], step'[r])
    BY <1>2 DEF AnswerOK, OriginOK
  <2>8. Counts("done", d, x) <=> m \in 1..(d - 1)
    BY <1>1, <1>2, <1>3 DEF Counts
  <2>9. CountedNow(r, "done", d, x)
    BY <1>4, <2>1, <2>8 DEF CountedNow
  <2>10. Good(r, "done", d, x, ran[r]) /\ "done" \in Progress
    BY <2>5, <2>6, <2>7, <2>9 DEF Good, Progress
  <2> QED
    BY <1>1, <1>2, <2>3, <2>4, <2>10 DEF GoodStep
<1> QED
  BY <1>7, <1>8

\* A hit is a response of the cache's, made for the layers outside of it.
LEMMA HitGood ==
    ASSUME MwInv, NEW r \in Requests, Hit(r)
    PROVE  GoodStep(r)
<1> DEFINE q == input[r]
           c == Place("cache")
           m == Place("metrics")
           d == depth[r]
<1>1. /\ stack \in Stacks /\ r \in CacheUsers /\ q \in Inputs
      /\ d \in 0..(Len(stack) + 1) /\ ran[r] \in BOOLEAN
      /\ counted \in Nat /\ Len(stack) \in Nat /\ BackInv /\ ValuesIn(Clean)
      /\ ReachOK(q, pc[r], d, ran[r])
      /\ AnswerOK(q, pc[r], d, answer[r], ran[r], step[r])
  BY CallFacts
<1>2. /\ pc[r] = "lookup" /\ Take(r) /\ UNCHANGED <<stack, input, depth, ran>>
      /\ counted' = IF m \in 1..(c - 1) THEN counted + 1 ELSE counted
  BY DEF Hit, CountThrough
<1>3. PICK value \in result[r] : Return(r, [value EXCEPT !.hit = TRUE], c - 1)
  BY DEF Hit
<1>4. cmd[r].op = "get" /\ cmd[r].key = BuildKey(q) /\ BuildKey(q) \in StoreKeys
  BY <1>2, CallFacts DEF MwInv, Looking
<1>5. value \in Clean[BuildKey(q)]
  BY <1>1, <1>3, <1>4 DEF ValuesIn
<1>6. value \in StoreValues /\ value.acao \in Named(BuildKey(q))
  BY <1>4, <1>5 DEF Clean
<1>7. value \in Response /\ value.by # "nobody"
  BY <1>6, StoredParts
<1> DEFINE v == [value EXCEPT !.hit = TRUE]
           x == Outwards(v, q, 1, c - 1)
<1>8. v \in Response /\ v.hit /\ v.by = value.by /\ v.acao = value.acao
  BY <1>7 DEF Response
<1>9. v \in Response
  BY <1>8
<1> HIDE DEF v
<1>10. x \in Response /\ x.by = v.by /\ x.hit = v.hit /\ (x.acao = v.acao \/ x.acao = q.origin)
  BY <1>1, <1>9, OutwardsParts
<1>11. pc' = [pc EXCEPT ![r] = "done"] /\ answer' = [answer EXCEPT ![r] = x]
  BY <1>3 DEF Return, GoTo, v
<1>12. step' = [step EXCEPT ![r] = "idle"]
  BY <1>2 DEF Take, Forget, StepTo
<1> HIDE DEF x
<1> PICK V : V = Clean
  OBVIOUS
<1>13. BackInv' /\ ValuesIn(V)'
  BY <1>1, <1>2, BackStepInv
<1>14. ValuesIn(Clean)'
  BY <1>2, <1>13, CleanKept
<1>15. Moves(r, "done", d, x, ran[r])
  BY <1>2, <1>11, <1>12, MovesTo
<1>16. ReachOK(q, "done", d, ran[r]) /\ d > c
  BY <1>1, <1>2 DEF ReachOK
<1>17. /\ c \in 1..Len(stack) /\ m \in 1..Len(stack)
       /\ Place("cors") \in 1..Len(stack) /\ Place("cors") # c
  BY <1>1, Places DEF Layers
<1>18. OriginOK(q, x)
  <2>1. CASE Outside("cors", "cache")
    BY <1>6, <1>8, <1>10, <2>1 DEF OriginOK, Named
  <2>2. CASE ~ Outside("cors", "cache")
    <3>1. Outside("cache", "cors")
      BY <1>1, <1>17, <2>2 DEF Outside
    <3> QED
      BY <1>6, <1>8, <1>10, <2>2, <3>1 DEF OriginOK, Named
  <2> QED
    BY <2>1, <2>2
<1>19. AnswerOK(q, "done", d, x, ran[r], step'[r])
  BY <1>8, <1>10, <1>16, <1>18 DEF AnswerOK
<1>20. Counts("done", d, x) <=> m \in 1..(c - 1)
  BY <1>1, <1>7, <1>8, <1>10, <1>17 DEF Counts
<1>21. ~ Counts(pc[r], d, answer[r])
  BY <1>2 DEF Counts
<1>22. CountedNow(r, "done", d, x)
  BY <1>2, <1>20, <1>21 DEF CountedNow
<1>23. Good(r, "done", d, x, ran[r]) /\ "done" \in Progress
  BY <1>15, <1>16, <1>19, <1>22 DEF Good, Progress
<1> QED
  BY <1>1, <1>10, <1>13, <1>14, <1>23 DEF GoodStep

\* After a miss the refusal of a layer inside the cache is the response, or the innermost
\* service runs.
LEMMA MissGood ==
    ASSUME MwInv, NEW r \in Requests, Miss(r)
    PROVE  GoodStep(r)
<1> DEFINE q == input[r]
           c == Place("cache")
           d == depth[r]
<1>1. /\ stack \in Stacks /\ r \in CacheUsers /\ q \in Inputs
      /\ d \in 0..(Len(stack) + 1) /\ answer[r] \in Response
      /\ counted \in Nat /\ Len(stack) \in Nat /\ BackInv /\ ValuesIn(Clean)
      /\ ReachOK(q, pc[r], d, ran[r])
      /\ AnswerOK(q, pc[r], d, answer[r], ran[r], step[r])
  BY CallFacts
<1>2. pc[r] = "lookup" /\ step[r] = "done" /\ UNCHANGED <<stack, input, depth>>
  BY DEF Miss
<1>3. /\ d > c /\ q.method = "GET" /\ d \in 1..Reach(q)
      /\ d \in DOMAIN stack => stack[d] \in {"cors", "auth", "limit"}
  BY <1>1, <1>2 DEF ReachOK
<1>4. DOMAIN stack = 1..Len(stack) /\ \A i \in 1..Len(stack) : Place(stack[i]) = i
  BY <1>1, Places
<1>5. CASE d <= Len(stack)
  <2> DEFINE l == stack[d]
             v == Refusal(l, q)
  <2>1. Arrives(r, v) /\ UNCHANGED ran
    BY <1>5 DEF Miss
  <2>2. l \in {"cors", "auth", "limit"} /\ Place(l) = d
    BY <1>1, <1>3, <1>4, <1>5
  <2> HIDE DEF l
  <2>3. /\ v \in Response /\ v.by = l /\ ~ v.hit /\ v.acao \in {NoOrigin, q.origin}
        /\ l # "cors" => v.acao = NoOrigin
    BY <1>1, <2>2, RefusalParts
  <2> HIDE DEF v
  <2>4. Outside("cors", "cache") => l # "cors"
    <3>1. Place("cors") \in 1..Len(stack) /\ c \in 1..Len(stack)
      BY <1>1, Places DEF Layers
    <3> QED
      BY <1>1, <1>3, <2>2, <3>1 DEF Outside
  <2> QED
    BY <1>2, <1>3, <2>1, <2>2, <2>3, <2>4, ArrivesGood
<1>6. CASE ~ (d <= Len(stack))
  <2>1. /\ Take(r) /\ pc' = [pc EXCEPT ![r] = "inner"] /\ ran' = [ran EXCEPT ![r] = TRUE]
        /\ answer' = answer /\ counted' = counted
    BY <1>6 DEF Miss, GoTo
  <2>2. step' = [step EXCEPT ![r] = "idle"] /\ step'[r] = "idle"
    BY <1>1, <2>1 DEF Take, Forget, StepTo, BackInv, BackTypeOK
  <2> PICK V : V = Clean
    OBVIOUS
  <2>3. BackInv' /\ ValuesIn(V)'
    BY <1>1, <2>1, BackStepInv
  <2>4. ValuesIn(Clean)'
    BY <1>2, <2>3, CleanKept
  <2>5. Moves(r, "inner", d, answer[r], TRUE)
    BY <1>2, <2>1, <2>2, MovesTo
  <2>6. ReachOK(q, "inner", d, TRUE)
    BY <1>1, <1>3, <1>6 DEF ReachOK
  <2>7. AnswerOK(q, "inner", d, answer[r], TRUE, step'[r])
    BY <1>1, <1>2, <2>2 DEF AnswerOK, OriginOK, NoAnswer
  <2>8. CountedNow(r, "inner", d, answer[r])
    BY <1>2, <2>1 DEF CountedNow, Counts
  <2>9. Good(r, "inner", d, answer[r], TRUE) /\ "inner" \in Progress
    BY <2>5, <2>6, <2>7, <2>8 DEF Good, Progress
  <2> QED
    BY <1>1, <2>3, <2>4, <2>9 DEF GoodStep
<1> QED
  BY <1>5, <1>6

\* The innermost service's response goes to the cache layer, or straight out.
LEMMA InnerGood ==
    ASSUME MwInv, NEW r \in Requests, Inner(r)
    PROVE  GoodStep(r)
<1> DEFINE q == input[r]
           c == Place("cache")
           m == Place("metrics")
           d == depth[r]
<1>1. /\ stack \in Stacks /\ r \in CacheUsers /\ q \in Inputs
      /\ d \in 0..(Len(stack) + 1) /\ answer[r] \in Response /\ ran[r] \in BOOLEAN
      /\ counted \in Nat /\ Len(stack) \in Nat /\ BackInv /\ ValuesIn(Clean)
      /\ ReachOK(q, pc[r], d, ran[r])
      /\ AnswerOK(q, pc[r], d, answer[r], ran[r], step[r])
  BY CallFacts
<1>2. pc[r] = "inner" /\ UNCHANGED <<stack, input, depth, ran>>
  BY DEF Inner
<1>3. d = Len(stack) + 1 /\ step[r] = "idle" /\ answer[r] = NoAnswer
  BY <1>1, <1>2 DEF ReachOK, AnswerOK
<1>4. PICK status \in Statuses :
          LET response == [by |-> "inner", status |-> status, acao |-> NoOrigin, hit |-> FALSE]
          IN  IF Consults(r)
              THEN Arrives(r, response)
              ELSE /\ Return(r, response, Len(stack))
                   /\ CountThrough(1, Len(stack), TRUE)
                   /\ UNCHANGED backVars
  BY DEF Inner
<1> DEFINE v == [by |-> "inner", status |-> status, acao |-> NoOrigin, hit |-> FALSE]
           x == Outwards(v, q, 1, Len(stack))
<1>5. v.by = "inner" /\ v.acao = NoOrigin /\ ~ v.hit
  OBVIOUS
<1>6. v \in Response
  <2>1. status \in Nat /\ NoOrigin \in Origins /\ FALSE \in BOOLEAN
    BY MiddlewareAssumption DEF Origins
  <2>2. "inner" \in Layers \cup {"inner", "nobody"}
    OBVIOUS
  <2> QED
    BY <2>1, <2>2, Zenon DEF Response
<1>7. c \in 1..Len(stack) /\ m \in 1..Len(stack)
  BY <1>1, Places DEF Layers
<1>8. CASE Consults(r)
  <2>1. Arrives(r, v)
    BY <1>4, <1>8
  <2> HIDE DEF v
  <2>2. d > c /\ q.method = "GET"
    BY <1>1, <1>3, <1>7, <1>8 DEF Consults
  <2> QED
    BY <1>2, <1>3, <1>5, <1>6, <2>1, <2>2, ArrivesGood
<1>9. CASE ~ Consults(r)
  <2>1. /\ pc' = [pc EXCEPT ![r] = "done"] /\ answer' = [answer EXCEPT ![r] = x]
        /\ counted' = IF m \in 1..Len(stack) THEN counted + 1 ELSE counted
        /\ UNCHANGED backVars
    BY <1>4, <1>9 DEF Return, GoTo, CountThrough
  <2> HIDE DEF v
  <2>2. x \in Response /\ x.by = v.by /\ x.hit = v.hit /\ (x.acao = v.acao \/ x.acao = q.origin)
    BY <1>1, <1>6, OutwardsParts
  <2> HIDE DEF x
  <2> PICK V : V = Clean
    OBVIOUS
  <2>3. BackInv' /\ ValuesIn(V)'
    BY <1>1, <2>1, BackSame
  <2>4. ValuesIn(Clean)'
    BY <1>2, <2>3, CleanKept
  <2>5. step' = step
    BY <2>1 DEF backVars
  <2>6. Moves(r, "done", d, x, ran[r])
    BY <1>2, <2>1, <2>5, MovesTo
  <2>7. ReachOK(q, "done", d, ran[r])
    BY <1>1, <1>2 DEF ReachOK
  <2>8. AnswerOK(q, "done", d, x, ran[r], step'[r])
    BY <1>1, <1>3, <1>5, <1>7, <2>2 DEF AnswerOK, OriginOK
  <2>9. Counts("done", d, x) /\ m \in 1..Len(stack)
    BY <1>1, <1>3, <1>5, <1>7, <2>2 DEF Counts
  <2>10. ~ Counts(pc[r], d, answer[r])
    BY <1>2 DEF Counts
  <2>11. CountedNow(r, "done", d, x)
    BY <2>1, <2>9, <2>10 DEF CountedNow
  <2>12. Good(r, "done", d, x, ran[r]) /\ "done" \in Progress
    BY <2>6, <2>7, <2>8, <2>11 DEF Good, Progress
  <2> QED
    BY <1>1, <2>2, <2>3, <2>4, <2>12 DEF GoodStep
<1> QED
  BY <1>8, <1>9

\* An error is not counted.
LEMMA InnerErrGood ==
    ASSUME MwInv, NEW r \in Requests, InnerErr(r)
    PROVE  GoodStep(r)
<1> DEFINE q == input[r]
           c == Place("cache")
           m == Place("metrics")
           d == depth[r]
<1>1. /\ stack \in Stacks /\ r \in CacheUsers /\ q \in Inputs
      /\ d \in 0..(Len(stack) + 1) /\ answer[r] \in Response /\ ran[r] \in BOOLEAN
      /\ counted \in Nat /\ Len(stack) \in Nat /\ BackInv /\ ValuesIn(Clean)
      /\ ReachOK(q, pc[r], d, ran[r])
      /\ AnswerOK(q, pc[r], d, answer[r], ran[r], step[r])
  BY CallFacts
<1>2. /\ pc[r] = "inner" /\ pc' = [pc EXCEPT ![r] = "failed"] /\ counted' = counted
      /\ UNCHANGED <<stack, input, depth, answer, ran, backVars>>
  BY DEF InnerErr, GoTo, CountThrough
<1> PICK V : V = Clean
  OBVIOUS
<1>3. BackInv' /\ ValuesIn(V)'
  BY <1>1, <1>2, BackSame
<1>4. ValuesIn(Clean)'
  BY <1>2, <1>3, CleanKept
<1>5. step' = step
  BY <1>2 DEF backVars
<1>6. Moves(r, "failed", d, answer[r], ran[r])
  BY <1>2, <1>5, MovesTo
<1>7. ReachOK(q, "failed", d, ran[r])
  BY <1>1, <1>2 DEF ReachOK
<1>8. AnswerOK(q, "failed", d, answer[r], ran[r], step'[r])
  BY <1>1, <1>2 DEF AnswerOK, OriginOK, NoAnswer
<1>9. CountedNow(r, "failed", d, answer[r])
  BY <1>2 DEF CountedNow, Counts
<1>10. Good(r, "failed", d, answer[r], ran[r]) /\ "failed" \in Progress
  BY <1>6, <1>7, <1>8, <1>9 DEF Good, Progress
<1> QED
  BY <1>1, <1>3, <1>4, <1>10 DEF GoodStep

\* A stored response goes on, and is counted unless it was counted before it was stored.
LEMMA StoredGood ==
    ASSUME MwInv, NEW r \in Requests, Stored(r)
    PROVE  GoodStep(r)
<1> DEFINE q == input[r]
           c == Place("cache")
           m == Place("metrics")
           d == depth[r]
<1>1. /\ stack \in Stacks /\ r \in CacheUsers /\ q \in Inputs
      /\ d \in 0..(Len(stack) + 1) /\ answer[r] \in Response /\ ran[r] \in BOOLEAN
      /\ counted \in Nat /\ Len(stack) \in Nat /\ BackInv /\ ValuesIn(Clean)
      /\ ReachOK(q, pc[r], d, ran[r])
      /\ AnswerOK(q, pc[r], d, answer[r], ran[r], step[r])
  BY CallFacts
<1> DEFINE x == Outwards(answer[r], q, 1, c - 1)
<1>2. /\ pc[r] = "store" /\ Take(r) /\ UNCHANGED <<stack, input, depth, ran>>
      /\ pc' = [pc EXCEPT ![r] = "done"] /\ answer' = [answer EXCEPT ![r] = x]
      /\ counted' = IF m \in 1..(c - 1) THEN counted + 1 ELSE counted
  BY DEF Stored, Return, GoTo, CountThrough
<1>3. /\ x \in Response /\ x.by = answer[r].by /\ x.hit = answer[r].hit
      /\ (x.acao = answer[r].acao \/ x.acao = q.origin)
  BY <1>1, OutwardsParts
<1> HIDE DEF x
<1>4. step' = [step EXCEPT ![r] = "idle"]
  BY <1>2 DEF Take, Forget, StepTo
<1> PICK V : V = Clean
  OBVIOUS
<1>5. BackInv' /\ ValuesIn(V)'
  BY <1>1, <1>2, BackStepInv
<1>6. ValuesIn(Clean)'
  BY <1>2, <1>5, CleanKept
<1>7. Moves(r, "done", d, x, ran[r])
  BY <1>2, <1>4, MovesTo
<1>8. ReachOK(q, "done", d, ran[r]) /\ d > c
  BY <1>1, <1>2 DEF ReachOK
<1>9. answer[r].by # "nobody" /\ ~ answer[r].hit
  BY <1>1, <1>2 DEF AnswerOK
<1>10. AnswerOK(q, "done", d, x, ran[r], step'[r])
  BY <1>1, <1>3, <1>8, <1>9 DEF AnswerOK, OriginOK
<1>11. c \in 1..Len(stack) /\ m \in 1..Len(stack) /\ c # m
  BY <1>1, Places DEF Layers
<1>12. /\ Counts("done", d, x) <=> m < d
       /\ Counts(pc[r], d, answer[r]) <=> m < d /\ c < m
  BY <1>2, <1>3, <1>9 DEF Counts, Outside
<1>13. CountedNow(r, "done", d, x)
  BY <1>1, <1>2, <1>8, <1>11, <1>12 DEF CountedNow
<1>14. Good(r, "done", d, x, ran[r]) /\ "done" \in Progress
  BY <1>7, <1>8, <1>10, <1>13 DEF Good, Progress
<1> QED
  BY <1>1, <1>3, <1>5, <1>6, <1>14 DEF GoodStep

\* A call that is dropped keeps what was counted, and gives up its command.
LEMMA CancelGood ==
    ASSUME MwInv, NEW r \in Requests, Cancel(r)
    PROVE  GoodStep(r)
<1> DEFINE q == input[r]
           c == Place("cache")
           m == Place("metrics")
           d == depth[r]
<1>1. /\ stack \in Stacks /\ r \in CacheUsers /\ q \in Inputs
      /\ d \in 0..(Len(stack) + 1) /\ answer[r] \in Response /\ ran[r] \in BOOLEAN
      /\ counted \in Nat /\ Len(stack) \in Nat /\ BackInv /\ ValuesIn(Clean)
      /\ ReachOK(q, pc[r], d, ran[r])
      /\ AnswerOK(q, pc[r], d, answer[r], ran[r], step[r])
  BY CallFacts
<1>2. /\ pc[r] \in {"lookup", "inner", "store"} /\ pc' = [pc EXCEPT ![r] = "gone"]
      /\ UNCHANGED <<stack, input, depth, answer, ran, counted>>
      /\ UNCHANGED backVars \/ DropCommand(r)
  BY DEF Cancel, GoTo
<1> PICK V : V = Clean
  OBVIOUS
<1>3. BackInv' /\ ValuesIn(V)'
  BY <1>1, <1>2, BackSame, BackStepInv
<1>4. ValuesIn(Clean)'
  BY <1>2, <1>3, CleanKept
<1>5. step' = step \/ \E s : step' = [step EXCEPT ![r] = s]
  BY <1>2 DEF backVars, DropCommand, Forget, StepTo
<1>6. Moves(r, "gone", d, answer[r], ran[r])
  BY <1>2, <1>5, MovesTo
<1>7. ReachOK(q, "gone", d, ran[r])
  BY <1>1, <1>2 DEF ReachOK
<1>8. ~ answer[r].hit
  BY <1>1, <1>2 DEF AnswerOK
<1>9. AnswerOK(q, "gone", d, answer[r], ran[r], step'[r])
  BY <1>1, <1>2, <1>8 DEF AnswerOK, OriginOK
<1>10. Counts("gone", d, answer[r]) <=> Counts(pc[r], d, answer[r])
  BY <1>1, <1>2 DEF Counts, AnswerOK, NoAnswer
<1>11. CountedNow(r, "gone", d, answer[r])
  BY <1>2, <1>10 DEF CountedNow
<1>12. Good(r, "gone", d, answer[r], ran[r]) /\ "gone" \in Progress
  BY <1>6, <1>7, <1>9, <1>11 DEF Good, Progress
<1> QED
  BY <1>1, <1>3, <1>4, <1>12 DEF GoodStep

\* A call goes down to the first layer that refuses, is answered there or waits.
LEMMA CallGood ==
    ASSUME MwInv, NEW r \in Requests, Call(r)
    PROVE  GoodStep(r)
<1> DEFINE q == input[r]
           c == Place("cache")
           m == Place("metrics")
<1>1. /\ stack \in Stacks /\ r \in CacheUsers /\ q \in Inputs
      /\ answer[r] \in Response /\ ran[r] \in BOOLEAN
      /\ counted \in Nat /\ Len(stack) \in Nat /\ BackInv /\ ValuesIn(Clean)
      /\ BuildKey(q) \in StoreKeys
      /\ AnswerOK(q, pc[r], depth[r], answer[r], ran[r], step[r])
  BY CallFacts
<1>2. pc[r] = "idle" /\ UNCHANGED <<stack, input>>
  BY DEF Call
<1>3. /\ step[r] = "idle" /\ answer[r] = NoAnswer /\ ~ ran[r]
      /\ answer[r].by = "nobody" /\ ~ answer[r].hit /\ answer[r].acao = NoOrigin
  BY <1>1, <1>2 DEF AnswerOK, NoAnswer
<1>4. PICK d \in DOMAIN stack \cup {Len(stack) + 1} :
          /\ AskLimiter(r, d)
          /\ depth' = [depth EXCEPT ![r] = d]
          /\ CASE q.method = "GET" /\ d > c ->
                    /\ GoTo(r, "lookup")
                    /\ Issue(r, [op |-> "get", key |-> BuildKey(q)])
                    /\ \E moment \in InnerRuns :
                          ran' = [ran EXCEPT ![r] = d > Len(stack) /\ moment = "call"]
                    /\ UNCHANGED <<answer, counted>>
               [] ~ (q.method = "GET" /\ d > c) /\ d <= Len(stack) ->
                    /\ Return(r, Refusal(stack[d], q), d - 1)
                    /\ CountThrough(1, d - 1, TRUE)
                    /\ UNCHANGED <<ran, backVars>>
               [] OTHER ->
                    /\ GoTo(r, "inner")
                    /\ ran' = [ran EXCEPT ![r] = TRUE]
                    /\ UNCHANGED <<answer, counted, backVars>>
  BY DEF Call
<1>5. /\ d \in 1..Reach(q) /\ d \in 0..(Len(stack) + 1)
      /\ d \in DOMAIN stack => stack[d] \in {"cors", "auth", "limit"}
  BY <1>1, <1>4, Depths, Places DEF MwInv
<1>6. ~ Counts(pc[r], depth[r], answer[r])
  BY <1>3 DEF Counts
<1>7. c \in 1..Len(stack) /\ m \in 1..Len(stack) /\ DOMAIN stack = 1..Len(stack)
  BY <1>1, Places DEF Layers
<1> PICK V : V = Clean
  OBVIOUS
<1>8. CASE q.method = "GET" /\ d > c
  <2> DEFINE command == [op |-> "get", key |-> BuildKey(q)]
  <2>1. /\ pc' = [pc EXCEPT ![r] = "lookup"] /\ Issue(r, command)
        /\ UNCHANGED <<answer, counted>>
    BY <1>4, <1>8 DEF GoTo
  <2>2. PICK b \in BOOLEAN : ran' = [ran EXCEPT ![r] = b] /\ (b => d > Len(stack))
    BY <1>4, <1>8, Zenon
  <2>3. command \in Commands /\ command.op # "set"
    BY <1>1 DEF Commands
  <2> HIDE DEF command
  <2>4. BackInv' /\ ValuesIn(V)'
    BY <1>1, <1>3, <2>1, <2>3, IssueInv
  <2>5. ValuesIn(Clean)'
    BY <1>2, <2>4, CleanKept
  <2>6. \E s : step' = [step EXCEPT ![r] = s]
    BY <2>1 DEF Issue, StepTo
  <2>7. Moves(r, "lookup", d, answer[r], b)
    BY <1>2, <1>4, <2>1, <2>2, <2>6, MovesTo
  <2>8. ReachOK(q, "lookup", d, b)
    BY <1>1, <1>5, <1>7, <1>8, <2>2 DEF ReachOK
  <2>9. AnswerOK(q, "lookup", d, answer[r], b, step'[r])
    BY <1>3 DEF AnswerOK, OriginOK
  <2>10. CountedNow(r, "lookup", d, answer[r])
    BY <1>3, <1>6, <2>1 DEF CountedNow, Counts
  <2>11. Good(r, "lookup", d, answer[r], b) /\ "lookup" \in Progress
    BY <2>7, <2>8, <2>9, <2>10 DEF Good, Progress
  <2> QED
    BY <1>1, <1>5, <2>4, <2>5, <2>11 DEF GoodStep
<1>9. CASE ~ (q.method = "GET" /\ d > c) /\ d <= Len(stack)
  <2> DEFINE l == stack[d]
             v == Refusal(l, q)
             x == Outwards(v, q, 1, d - 1)
  <2>1. /\ pc' = [pc EXCEPT ![r] = "done"] /\ answer' = [answer EXCEPT ![r] = x]
        /\ counted' = IF m \in 1..(d - 1) THEN counted + 1 ELSE counted
        /\ UNCHANGED <<ran, backVars>>
    BY <1>4, <1>9 DEF Return, GoTo, CountThrough
  <2>2. l \in {"cors", "auth", "limit"}
    BY <1>1, <1>5, <1>7, <1>9
  <2> HIDE DEF l
  <2>3. v \in Response
    BY <1>1, <2>2, RefusalParts
  <2>4. v.by = l /\ ~ v.hit /\ (v.acao = NoOrigin \/ v.acao = q.origin)
    BY <1>1, <2>2, RefusalParts
  <2> HIDE DEF v
  <2>5. x \in Response /\ x.by = v.by /\ x.hit = v.hit /\ (x.acao = v.acao \/ x.acao = q.origin)
    BY <1>1, <2>3, OutwardsParts
  <2> HIDE DEF x
  <2>6. x.by # "nobody" /\ x.by # "inner" /\ ~ x.hit
    BY <2>2, <2>4, <2>5
  <2>7. BackInv' /\ ValuesIn(V)'
    BY <1>1, <2>1, BackSame
  <2>8. ValuesIn(Clean)'
    BY <1>2, <2>7, CleanKept
  <2>9. step' = step
    BY <2>1 DEF backVars
  <2>10. Moves(r, "done", d, x, ran[r])
    BY <1>2, <1>4, <2>1, <2>9, MovesTo
  <2>11. ReachOK(q, "done", d, ran[r])
    BY <1>3, <1>5 DEF ReachOK
  <2>12. AnswerOK(q, "done", d, x, ran[r], step'[r])
    BY <2>4, <2>5, <2>6 DEF AnswerOK, OriginOK
  <2>13. Counts("done", d, x) <=> m \in 1..(d - 1)
    BY <1>5, <1>7, <2>6 DEF Counts
  <2>14. CountedNow(r, "done", d, x)
    BY <1>6, <2>1, <2>13 DEF CountedNow
  <2>15. Good(r, "done", d, x, ran[r]) /\ "done" \in Progress
    BY <2>10, <2>11, <2>12, <2>14 DEF Good, Progress
  <2> QED
    BY <1>1, <1>5, <2>5, <2>7, <2>8, <2>15 DEF GoodStep
<1>10. CASE ~ (q.method = "GET" /\ d > c) /\ ~ (d <= Len(stack))
  <2>1. /\ pc' = [pc EXCEPT ![r] = "inner"] /\ ran' = [ran EXCEPT ![r] = TRUE]
        /\ UNCHANGED <<answer, counted, backVars>>
    BY <1>4, <1>10 DEF GoTo
  <2>2. BackInv' /\ ValuesIn(V)'
    BY <1>1, <2>1, BackSame
  <2>3. ValuesIn(Clean)'
    BY <1>2, <2>2, CleanKept
  <2>4. step' = step
    BY <2>1 DEF backVars
  <2>5. Moves(r, "inner", d, answer[r], TRUE)
    BY <1>2, <1>4, <2>1, <2>4, MovesTo
  <2>6. ReachOK(q, "inner", d, TRUE)
    BY <1>1, <1>5, <1>7, <1>10 DEF ReachOK
  <2>7. AnswerOK(q, "inner", d, answer[r], TRUE, step'[r])
    BY <1>3, <2>4 DEF AnswerOK, OriginOK
  <2>8. CountedNow(r, "inner", d, answer[r])
    BY <1>3, <1>6, <2>1 DEF CountedNow, Counts
  <2>9. Good(r, "inner", d, answer[r], TRUE) /\ "inner" \in Progress
    BY <2>5, <2>6, <2>7, <2>8 DEF Good, Progress
  <2> QED
    BY <1>1, <1>5, <2>2, <2>3, <2>9 DEF GoodStep
<1> QED
  BY <1>8, <1>9, <1>10

\* A call that panics on its way down has no answer.
LEMMA CallPanicsGood ==
    ASSUME MwInv, NEW r \in Requests, CallPanics(r)
    PROVE  GoodStep(r)
<1> DEFINE q == input[r]
<1>1. /\ stack \in Stacks /\ answer[r] \in Response /\ ran[r] \in BOOLEAN
      /\ Len(stack) \in Nat /\ BackInv /\ ValuesIn(Clean)
      /\ AnswerOK(q, pc[r], depth[r], answer[r], ran[r], step[r])
  BY CallFacts
<1>2. /\ pc[r] = "idle" /\ pc' = [pc EXCEPT ![r] = "panicked"]
      /\ UNCHANGED <<stack, input, answer, ran, counted, backVars>>
  BY DEF CallPanics, GoTo
<1>3. /\ answer[r] = NoAnswer /\ ~ ran[r]
      /\ answer[r].by = "nobody" /\ ~ answer[r].hit /\ answer[r].acao = NoOrigin
  BY <1>1, <1>2 DEF AnswerOK, NoAnswer
<1>4. PICK d \in DOMAIN stack : AskLimiter(r, d) /\ depth' = [depth EXCEPT ![r] = d]
  BY DEF CallPanics
<1>5. /\ d \in 1..Reach(q) /\ d \in 0..(Len(stack) + 1)
      /\ d \in DOMAIN stack => stack[d] \in {"cors", "auth", "limit"}
  BY <1>1, <1>4, Depths, Places DEF MwInv
<1> PICK V : V = Clean
  OBVIOUS
<1>6. BackInv' /\ ValuesIn(V)'
  BY <1>1, <1>2, BackSame
<1>7. ValuesIn(Clean)'
  BY <1>2, <1>6, CleanKept
<1>8. step' = step
  BY <1>2 DEF backVars
<1>9. Moves(r, "panicked", d, answer[r], ran[r])
  BY <1>2, <1>4, <1>8, MovesTo
<1>10. ReachOK(q, "panicked", d, ran[r])
  BY <1>3, <1>5 DEF ReachOK
<1>11. AnswerOK(q, "panicked", d, answer[r], ran[r], step'[r])
  BY <1>3 DEF AnswerOK, OriginOK
<1>12. CountedNow(r, "panicked", d, answer[r])
  BY <1>2, <1>3 DEF CountedNow, Counts
<1>13. Good(r, "panicked", d, answer[r], ran[r]) /\ "panicked" \in Progress
  BY <1>9, <1>10, <1>11, <1>12 DEF Good, Progress
<1> QED
  BY <1>1, <1>5, <1>6, <1>7, <1>13 DEF GoodStep

\* A call that panics on an entry of the cache has no answer.
LEMMA HitPanicsGood ==
    ASSUME MwInv, NEW r \in Requests, HitPanics(r)
    PROVE  GoodStep(r)
<1> DEFINE q == input[r]
           d == depth[r]
<1>1. /\ r \in CacheUsers /\ d \in 0..(Len(stack) + 1) /\ answer[r] \in Response
      /\ ran[r] \in BOOLEAN /\ BackInv /\ ValuesIn(Clean)
      /\ ReachOK(q, pc[r], d, ran[r])
      /\ AnswerOK(q, pc[r], d, answer[r], ran[r], step[r])
  BY CallFacts
<1>2. /\ pc[r] = "lookup" /\ pc' = [pc EXCEPT ![r] = "panicked"] /\ Take(r)
      /\ UNCHANGED <<stack, input, depth, answer, ran, counted>>
  BY DEF HitPanics, GoTo
<1> PICK V : V = Clean
  OBVIOUS
<1>3. BackInv' /\ ValuesIn(V)'
  BY <1>1, <1>2, BackStepInv
<1>4. ValuesIn(Clean)'
  BY <1>2, <1>3, CleanKept
<1>5. step' = [step EXCEPT ![r] = "idle"]
  BY <1>2 DEF Take, Forget, StepTo
<1>6. Moves(r, "panicked", d, answer[r], ran[r])
  BY <1>2, <1>5, MovesTo
<1>7. ReachOK(q, "panicked", d, ran[r])
  BY <1>1, <1>2 DEF ReachOK
<1>8. AnswerOK(q, "panicked", d, answer[r], ran[r], step'[r])
  BY <1>1, <1>2 DEF AnswerOK, OriginOK, NoAnswer
<1>9. CountedNow(r, "panicked", d, answer[r])
  BY <1>2 DEF CountedNow, Counts
<1>10. Good(r, "panicked", d, answer[r], ran[r]) /\ "panicked" \in Progress
  BY <1>6, <1>7, <1>8, <1>9 DEF Good, Progress
<1> QED
  BY <1>1, <1>3, <1>4, <1>10 DEF GoodStep

-----------------------------------------------------------------------------
(* The limiter.                                                            *)

\* Every step of the stack is a step of the limiter, or leaves it alone.
LEMMA StepLimiter ==
    ASSUME MwInv, [Next]_vars
    PROVE  [LimNext]_limVars
<1>1. ASSUME NEW r \in Requests, Call(r) \/ CallPanics(r) PROVE [LimNext]_limVars
  <2>1. PICK d \in DOMAIN stack \cup {Len(stack) + 1} : AskLimiter(r, d)
    BY <1>1 DEF Call, CallPanics
  <2>2. [CheckKeyOk(LimitKey(input[r])) \/ CheckKeyErr(LimitKey(input[r]))]_limVars
    BY <2>1, Depths DEF MwInv
  <2>3. LimitKey(input[r]) \in LimitKeys
    BY CallFacts
  <2> QED
    BY <2>2, <2>3 DEF LimNext
<1>2. ASSUME NEW r \in Requests,
             \/ Hit(r) \/ HitPanics(r) \/ Miss(r) \/ Inner(r) \/ InnerErr(r) \/ Stored(r)
             \/ Backend(r) \/ Cancel(r)
      PROVE  UNCHANGED limVars
  BY <1>2 DEF Hit, HitPanics, Miss, Inner, InnerErr, Stored, Backend, Cancel
<1>3. ASSUME NEW t \in Admins, Administer(t) \/ Backend(t) \/ Administered(t)
      PROVE  UNCHANGED limVars
  BY <1>3 DEF Administer, Backend, Administered
<1>4. ASSUME TimePasses PROVE [LimNext]_limVars
  BY <1>4 DEF TimePasses, LimNext
<1>5. ASSUME UNCHANGED vars PROVE UNCHANGED limVars
  BY <1>5 DEF vars
<1>6. ASSUME NEW k \in StoreKeys, ForeignEntry(k) PROVE UNCHANGED limVars
  BY <1>6 DEF ForeignEntry
<1> QED
  BY <1>1, <1>2, <1>3, <1>4, <1>5, <1>6 DEF Next

\* The calls no layer refused are finitely many.
LEMMA PassedFinite ==
    ASSUME NEW k
    PROVE  IsFiniteSet(Passed(k)) /\ Cardinality(Passed(k)) \in Nat
<1>1. Passed(k) \subseteq Requests
  BY DEF Passed
<1>2. IsFiniteSet(Passed(k))
  BY <1>1, MiddlewareAssumption, FS_Subset
<1> QED
  BY <1>2, FS_CardinalityType

\* A call that no layer refuses was admitted by the limiter.
LEMMA CallPassed ==
    ASSUME MwInv, NEW r \in Requests, Call(r) \/ CallPanics(r)
    PROVE  PassedHeld'
<1> DEFINE K == LimitKey(input[r])
<1>1. PICK d \in DOMAIN stack \cup {Len(stack) + 1} :
          AskLimiter(r, d) /\ depth' = [depth EXCEPT ![r] = d]
  BY DEF Call, CallPanics
<1>2. pc[r] = "idle" /\ stack' = stack /\ input' = input
  BY DEF Call, CallPanics
<1>3. /\ Len(stack) \in Nat /\ K \in LimitKeys
      /\ ReachOK(input[r], pc[r], depth[r], ran[r])
  BY CallFacts
<1>4. depth \in [Requests -> 0..(Len(stack) + 1)] /\ admitted \in [LimitKeys -> Nat]
  BY DEF MwInv, MwTypeOK, LimTypeOK
<1>5. depth[r] = 0 /\ depth[r] # Len(stack) + 1
  BY <1>2, <1>3 DEF ReachOK
<1>6. /\ d = Len(stack) + 1 => CheckKeyOk(K)
      /\ [CheckKeyOk(K) \/ CheckKeyErr(K)]_limVars
  BY <1>1, Depths DEF MwInv
<1>7. admitted' = admitted \/ admitted' = [admitted EXCEPT ![K] = @ + 1]
  BY <1>6 DEF CheckKeyOk, CheckKeyErr, limVars
<1>8. d = Len(stack) + 1 => admitted' = [admitted EXCEPT ![K] = @ + 1]
  BY <1>6 DEF CheckKeyOk
<1> HIDE DEF K
<1>9. ASSUME NEW k \in LimitKeys PROVE Cardinality(Passed(k)') <= admitted'[k]
  <2>1. /\ IsFiniteSet(Passed(k)) /\ Cardinality(Passed(k)) \in Nat
        /\ Cardinality(Passed(k)) <= admitted[k] /\ admitted[k] \in Nat
    BY <1>4, PassedFinite DEF MwInv, PassedHeld
  <2>2. r \notin Passed(k)
    BY <1>5 DEF Passed
  <2>3. Passed(k) \subseteq Requests /\ Passed(k)' \subseteq Requests
    BY DEF Passed
  <2>4. \A u \in Requests : u # r => (u \in Passed(k)' <=> u \in Passed(k))
    BY <1>1, <1>2, <1>4 DEF Passed
  <2>5. r \in Passed(k)' <=> d = Len(stack) + 1 /\ K = k
    BY <1>1, <1>2, <1>4 DEF Passed, K
  <2> PICK S : S = Passed(k)
    OBVIOUS
  <2> PICK T : T = Passed(k)'
    OBVIOUS
  <2>6. CASE d = Len(stack) + 1 /\ K = k
    <3>1. T = S \cup {r}
      BY <2>3, <2>4, <2>5, <2>6
    <3>2. Cardinality(T) = Cardinality(S) + 1
      BY <2>1, <2>2, <3>1, FS_AddElement
    <3>3. admitted'[k] = admitted[k] + 1
      BY <1>4, <1>8, <2>6
    <3> QED
      BY <2>1, <3>2, <3>3
  <2>7. CASE ~ (d = Len(stack) + 1 /\ K = k)
    <3>1. \A u \in Requests : u \in T <=> u \in S
      BY <2>2, <2>4, <2>5, <2>7
    <3>2. T = S
      BY <2>3, <3>1, Zenon
    <3>3. admitted'[k] \in Nat /\ admitted'[k] >= admitted[k]
      BY <1>3, <1>4, <1>7
    <3> QED
      BY <2>1, <3>2, <3>3
  <2> QED
    BY <2>6, <2>7
<1> QED
  BY <1>9 DEF PassedHeld

\* Nothing else changes how deep the calls got.
LEMMA SamePassed ==
    ASSUME MwInv, UNCHANGED <<stack, input, depth, admitted>>
    PROVE  PassedHeld'
<1>1. \A k \in LimitKeys : Passed(k)' = Passed(k)
  BY DEF Passed
<1> QED
  BY <1>1 DEF MwInv, PassedHeld

-----------------------------------------------------------------------------
(* The invariant.                                                          *)

\* A step that moves no call: what the backends, the administrators and the clock do.
LEMMA CallsRest ==
    ASSUME MwInv, UNCHANGED mwVars, BackInv', LimInv',
           \A r \in Requests : step'[r] = step[r] \/ step[r] # "idle"
    PROVE  MwTypeOK' /\ CountedOnce' /\ \A r \in Requests : CallOK(r)'
<1>1. UNCHANGED <<stack, pc, input, depth, answer, ran, counted>>
  BY DEF mwVars
<1>2. MwTypeOK'
  BY <1>1 DEF MwInv, MwTypeOK, BackInv, LimInv
<1>3. CountedOnce'
  <2>1. Through' = Through
    <3>1. \A r \in Requests : Counts(pc[r], depth[r], answer[r])' <=> Counts(pc[r], depth[r], answer[r])
      BY <1>1, SameStack DEF Counts
    <3> QED
      BY <3>1 DEF Through
  <2> QED
    BY <1>1, <2>1, CountsThrough DEF MwInv
<1>4. ASSUME NEW r \in Requests PROVE CallOK(r)'
  <2>1. /\ ReachOK(input[r], pc[r], depth[r], ran[r])
        /\ AnswerOK(input[r], pc[r], depth[r], answer[r], ran[r], step[r])
    BY DEF MwInv, CallOK
  <2>2. AnswerOK(input[r], pc[r], depth[r], answer[r], ran[r], step'[r])
    BY <2>1 DEF AnswerOK
  <2> PICK q, p, d, a, b, s :
           <<q, p, d, a, b, s>> = <<input[r], pc[r], depth[r], answer[r], ran[r], step'[r]>>
    OBVIOUS
  <2>3. ReachOK(q, p, d, b)' /\ AnswerOK(q, p, d, a, b, s)'
    BY <1>1, <2>1, <2>2, SameRules
  <2> QED
    BY <1>1, <2>3 DEF CallOK
<1> QED
  BY <1>2, <1>3, <1>4

\* MwInv holds at the start.
LEMMA MwInitInv == Init => MwInv
<1> SUFFICES ASSUME Init PROVE MwInv
  OBVIOUS
<1>1. LimInv
  BY LimInitInv DEF Init
<1>2. BackInit
  BY DEF Init
<1>3. BackInv
  <2>1. BackTypeOK
    <3>1. manager \in BOOLEAN
      BY <1>2 DEF BackInit
    <3>2. store \in [StoreKeys -> SUBSET StoreEntry] /\ result \in [CacheUsers -> SUBSET StoreValues]
      BY <1>2 DEF BackInit
    <3>3. /\ backend \in Backends
          /\ cmd \in [CacheUsers -> Commands \cup {NoCommand}]
          /\ step \in [CacheUsers -> {"idle", "lock", "connect", "io", "done"}]
      BY <1>2 DEF BackInit
    <3>4. LockTypeOK(CacheUsers)
      BY <1>2 DEF BackInit, LockInit, LockTypeOK
    <3> QED
      BY <3>1, <3>2, <3>3, <3>4 DEF BackTypeOK
  <2>2. InGetConn = {}
    BY <1>2 DEF BackInit, InGetConn
  <2>3. ManagerLockHandedOn
    BY <1>2, <2>2, LockInitKept DEF BackInit, ManagerLockHandedOn
  <2>4. Expiring /\ \A t \in CacheUsers : Connecting(t) /\ Commanded(t)
    BY <1>2 DEF BackInit, Expiring, Connecting, Commanded
  <2> QED
    BY <2>1, <2>3, <2>4 DEF BackInv
<1>4. ValuesIn(Clean)
  BY <1>2 DEF BackInit, ValuesIn, NoCommand
<1>5. Len(stack) \in Nat /\ DOMAIN stack = 1..Len(stack)
  BY Places DEF Init
<1>6. NoAnswer \in Response
  <2>1. "nobody" \in Layers \cup {"inner", "nobody"} /\ 0 \in Nat /\ FALSE \in BOOLEAN
    OBVIOUS
  <2>2. NoOrigin \in Origins
    BY DEF Origins
  <2> QED
    BY <2>1, <2>2, Zenon DEF NoAnswer, Response
<1>7. MwTypeOK
  BY <1>1, <1>3, <1>5, <1>6 DEF Init, MwTypeOK, BackInv, LimInv
<1>8. ASSUME NEW r \in Requests PROVE CallOK(r)
  <2>1. /\ pc[r] = "idle" /\ depth[r] = 0 /\ answer[r] = NoAnswer /\ ran[r] = FALSE
        /\ step[r] = "idle"
    BY <1>2, MiddlewareAssumption DEF Init, BackInit
  <2>2. ReachOK(input[r], pc[r], depth[r], ran[r])
    BY <1>5, <2>1 DEF ReachOK
  <2>3. AnswerOK(input[r], pc[r], depth[r], answer[r], ran[r], step[r])
    BY <2>1 DEF AnswerOK, OriginOK, NoAnswer
  <2> QED
    BY <2>2, <2>3 DEF CallOK
<1>9. PassedHeld
  <2> SUFFICES ASSUME NEW k \in LimitKeys PROVE Cardinality(Passed(k)) <= admitted[k]
    BY DEF PassedHeld
  <2>1. Passed(k) = {}
    BY <1>5 DEF Init, Passed
  <2>2. Cardinality(Passed(k)) = 0 /\ admitted[k] = 0
    BY <2>1, FS_EmptySet DEF Init, LimInit
  <2> QED
    BY <2>2
<1>10. CountedOnce
  <2>1. Through = {}
    BY DEF Init, Through, Counts, NoAnswer
  <2> QED
    BY <2>1, CountsThrough, FS_EmptySet DEF Init
<1>11. Looking
  BY DEF Init, Looking
<1> QED
  BY <1>1, <1>3, <1>4, <1>7, <1>8, <1>9, <1>10, <1>11 DEF MwInv

\* A call that waits for the cache goes on waiting for the entry of its own request: nobody
\* changes a command but the task it belongs to.
LEMMA StepLooking ==
    ASSUME MwInv, [Next]_vars
    PROVE  Looking'
<1> SUFFICES ASSUME NEW u \in Requests, pc'[u] = "lookup"
             PROVE  cmd'[u].op = "get" /\ cmd'[u].key = BuildKey(input'[u])
  BY DEF Looking
<1>1. /\ pc \in [Requests -> Progress] /\ u \in CacheUsers
      /\ cmd \in [CacheUsers -> Commands \cup {NoCommand}]
      /\ pc[u] = "lookup" => cmd[u].op = "get" /\ cmd[u].key = BuildKey(input[u])
  BY CallFacts DEF MwInv, MwTypeOK, BackTypeOK, Looking, Progress
<1>2. ASSUME UNCHANGED <<pc, input>>, NEW t, t # u, NEW c,
             cmd' = cmd \/ cmd' = [cmd EXCEPT ![t] = c]
      PROVE  cmd'[u].op = "get" /\ cmd'[u].key = BuildKey(input'[u])
  BY <1>1, <1>2
<1>3. ASSUME NEW r \in Requests, NEW p, GoTo(r, p), p # "lookup", input' = input, NEW c,
             cmd' = cmd \/ cmd' = [cmd EXCEPT ![r] = c]
      PROVE  cmd'[u].op = "get" /\ cmd'[u].key = BuildKey(input'[u])
  <2>1. u # r /\ pc'[u] = pc[u]
    BY <1>1, <1>3 DEF GoTo
  <2> QED
    BY <1>1, <1>3, <2>1
<1>4. ASSUME NEW r \in Requests, GoTo(r, "lookup"), input' = input,
             cmd' = [cmd EXCEPT ![r] = [op |-> "get", key |-> BuildKey(input[r])]]
      PROVE  cmd'[u].op = "get" /\ cmd'[u].key = BuildKey(input'[u])
  <2>1. CASE u = r
    BY <1>1, <1>4, <2>1
  <2>2. CASE u # r
    BY <1>1, <1>4, <2>2 DEF GoTo
  <2> QED
    BY <2>1, <2>2
<1>5. ASSUME NEW r \in Requests, NEW response, Arrives(r, response)
      PROVE  \E p, c : p # "lookup" /\ GoTo(r, p) /\ cmd' = [cmd EXCEPT ![r] = c]
  <2>1. \/ GoTo(r, "store") /\ \E c : Issue(r, c)
        \/ GoTo(r, "done") /\ Forget(r)
    BY <1>5, Zenon DEF Arrives, Return
  <2> QED
    BY <2>1 DEF Issue, Forget
<1>6. ASSUME NEW r \in Requests, Call(r) \/ CallPanics(r)
      PROVE  cmd'[u].op = "get" /\ cmd'[u].key = BuildKey(input'[u])
  <2>1. input' = input
    BY <1>6 DEF Call, CallPanics
  <2>2. \/ GoTo(r, "lookup") /\ Issue(r, [op |-> "get", key |-> BuildKey(input[r])])
        \/ (GoTo(r, "done") \/ GoTo(r, "inner") \/ GoTo(r, "panicked")) /\ UNCHANGED backVars
    BY <1>6, Zenon DEF Call, CallPanics, Return
  <2> QED
    BY <1>3, <1>4, <2>1, <2>2 DEF Issue, backVars
<1>7. ASSUME NEW r \in Requests, Hit(r) \/ HitPanics(r) \/ Stored(r) \/ InnerErr(r) \/ Cancel(r)
      PROVE  cmd'[u].op = "get" /\ cmd'[u].key = BuildKey(input'[u])
  <2>1. /\ input' = input
        /\ GoTo(r, "done") \/ GoTo(r, "panicked") \/ GoTo(r, "failed") \/ GoTo(r, "gone")
    BY <1>7, Zenon DEF Hit, HitPanics, Stored, InnerErr, Cancel, Return
  <2>2. Forget(r) \/ UNCHANGED backVars
    BY <1>7, Zenon DEF Hit, HitPanics, Stored, InnerErr, Cancel, Take, DropCommand
  <2> QED
    BY <1>3, <2>1, <2>2 DEF Forget, backVars
<1>8. ASSUME NEW r \in Requests, Miss(r) \/ Inner(r)
      PROVE  cmd'[u].op = "get" /\ cmd'[u].key = BuildKey(input'[u])
  <2>1. /\ input' = input
        /\ \/ \E response : Arrives(r, response)
           \/ GoTo(r, "inner") /\ Take(r)
           \/ GoTo(r, "done") /\ UNCHANGED backVars
    BY <1>8, Zenon DEF Miss, Inner, Return
  <2> QED
    BY <1>3, <1>5, <2>1 DEF Take, Forget, backVars
<1>9. ASSUME NEW t \in CacheUsers, Backend(t)
      PROVE  cmd'[u].op = "get" /\ cmd'[u].key = BuildKey(input'[u])
  <2>1. UNCHANGED <<pc, input, cmd>>
    BY <1>9 DEF Backend, BackStep, GetConn, ConnectOk, ConnectErr, Execute, ExecuteErr, mwVars
  <2> QED
    BY <1>1, <2>1
<1>10. ASSUME NEW t \in Admins, Administer(t) \/ Administered(t)
      PROVE  cmd'[u].op = "get" /\ cmd'[u].key = BuildKey(input'[u])
  <2>1. t # u
    BY MiddlewareAssumption
  <2>2. UNCHANGED <<pc, input>> /\ \E c : cmd' = [cmd EXCEPT ![t] = c]
    BY <1>10 DEF Administer, Administered, Issue, Take, Forget, mwVars
  <2> QED
    BY <1>2, <2>1, <2>2
<1>11. ASSUME TimePasses \/ (\E k \in StoreKeys : ForeignEntry(k)) \/ UNCHANGED vars
      PROVE  cmd'[u].op = "get" /\ cmd'[u].key = BuildKey(input'[u])
  <2>1. UNCHANGED <<pc, input, cmd>>
    BY <1>11 DEF TimePasses, ForeignEntry, SetByOthers, Second, Evict, mwVars, backVars, vars
  <2> QED
    BY <1>1, <2>1
<1> QED
  BY <1>6, <1>7, <1>8, <1>9, <1>10, <1>11, MiddlewareAssumption DEF Next

\* MwInv is inductive.
LEMMA MwStepInv == MwInv /\ [Next]_vars => MwInv'
<1> SUFFICES ASSUME MwInv, [Next]_vars PROVE MwInv'
  OBVIOUS
<1>1. LimInv' /\ Looking'
  BY StepLimiter, LimStepInv, StepLooking DEF MwInv
<1>2. BackInv /\ ValuesIn(Clean) /\ CacheUsers = Requests \cup Admins
  BY MiddlewareAssumption DEF MwInv
<1>3. ASSUME NEW r \in Requests, GoodStep(r), PassedHeld'
      PROVE  MwInv'
  <2>1. BackInv' /\ ValuesIn(Clean)'
    BY <1>3 DEF GoodStep
  <2>2. PICK p \in Progress, d \in 0..(Len(stack) + 1), a \in Response, b \in BOOLEAN :
            Good(r, p, d, a, b)
    BY <1>3 DEF GoodStep
  <2>3. MwTypeOK' /\ \A u \in Requests : CallOK(u)'
    BY <1>1, <2>1, <2>2, GoodCalls
  <2>4. CountedOnce'
    BY <2>2, GoodCounted
  <2> QED
    BY <1>1, <1>3, <2>1, <2>3, <2>4 DEF MwInv
<1>4. ASSUME NEW r \in Requests, Call(r) \/ CallPanics(r) PROVE MwInv'
  BY <1>3, <1>4, CallGood, CallPanicsGood, CallPassed
<1>5. ASSUME NEW r \in Requests,
             Hit(r) \/ HitPanics(r) \/ Miss(r) \/ Inner(r) \/ InnerErr(r) \/ Stored(r) \/ Cancel(r)
      PROVE  MwInv'
  <2>1. GoodStep(r)
    BY <1>5, HitGood, HitPanicsGood, MissGood, InnerGood, InnerErrGood, StoredGood, CancelGood
  <2>2. UNCHANGED <<stack, input, depth, admitted>>
    BY <1>5 DEF Hit, HitPanics, Miss, Inner, InnerErr, Stored, Cancel, limVars
  <2> QED
    BY <1>3, <2>1, <2>2, SamePassed
<1>6. ASSUME UNCHANGED mwVars, UNCHANGED admitted, NEW V, V = Clean, BackInv', ValuesIn(V)',
             \A r \in Requests : step'[r] = step[r] \/ step[r] # "idle"
      PROVE  MwInv'
  <2>1. UNCHANGED <<stack, input, depth>>
    BY <1>6 DEF mwVars
  <2>2. MwTypeOK' /\ CountedOnce' /\ \A r \in Requests : CallOK(r)'
    BY <1>1, <1>6, CallsRest
  <2>3. PassedHeld'
    BY <1>6, <2>1, SamePassed
  <2>4. ValuesIn(Clean)'
    BY <1>6, <2>1, CleanKept
  <2> QED
    BY <1>1, <1>6, <2>2, <2>3, <2>4 DEF MwInv
<1> PICK V : V = Clean
  OBVIOUS
<1>7. ASSUME NEW t \in CacheUsers, Backend(t) PROVE MwInv'
  <2>1. BackStep(t) /\ UNCHANGED mwVars /\ UNCHANGED limVars
    BY <1>7 DEF Backend
  <2>2. BackInv' /\ ValuesIn(V)'
    BY <1>2, <2>1, BackStepInv
  <2>3. step[t] # "idle" /\ \E s : step' = [step EXCEPT ![t] = s]
    BY <2>1 DEF BackStep, GetConn, ConnectOk, ConnectErr, Execute, ExecuteErr, StepTo
  <2>4. \A r \in Requests : step'[r] = step[r] \/ step[r] # "idle"
    BY <1>2, <2>3 DEF BackInv, BackTypeOK
  <2> QED
    BY <1>6, <2>1, <2>2, <2>4 DEF limVars
<1>8. ASSUME NEW t \in Admins, Administer(t) \/ Administered(t) PROVE MwInv'
  <2>1. t \in CacheUsers /\ t \notin Requests
    BY <1>2, MiddlewareAssumption
  <2>2. UNCHANGED mwVars /\ UNCHANGED limVars
    BY <1>8 DEF Administer, Administered
  <2>3. (BackInv' /\ ValuesIn(V)') /\ \E s : step' = [step EXCEPT ![t] = s]
    <3>1. CASE Administer(t)
      <4>1. PICK k \in {[op |-> "clear"]} \cup {[op |-> "delete", key |-> x] : x \in StoreKeys} :
                Issue(t, k)
        BY <3>1 DEF Administer
      <4>2. k \in Commands /\ k.op # "set"
        BY <4>1 DEF Commands
      <4>3. step[t] = "idle"
        BY <3>1 DEF Administer
      <4>4. BackInv' /\ ValuesIn(V)'
        BY <1>2, <2>1, <4>1, <4>2, <4>3, IssueInv
      <4>5. \E s : step' = [step EXCEPT ![t] = s]
        BY <4>1 DEF Issue, StepTo
      <4> QED
        BY <4>4, <4>5
    <3>2. CASE Administered(t)
      <4>1. Take(t)
        BY <3>2 DEF Administered
      <4>2. BackInv' /\ ValuesIn(V)'
        BY <1>2, <2>1, <4>1, BackStepInv
      <4> QED
        BY <4>1, <4>2 DEF Take, Forget, StepTo
    <3> QED
      BY <1>8, <3>1, <3>2
  <2>4. \A r \in Requests : step'[r] = step[r]
    BY <1>2, <2>1, <2>3 DEF BackInv, BackTypeOK
  <2> QED
    BY <1>6, <2>2, <2>3, <2>4 DEF limVars
<1>9. ASSUME TimePasses \/ \E k \in StoreKeys : ForeignEntry(k) PROVE MwInv'
  <2>1. UNCHANGED mwVars /\ UNCHANGED admitted
    BY <1>9 DEF TimePasses, ForeignEntry, Replenish, limVars
  <2>2. (BackInv' /\ ValuesIn(V)') /\ step' = step
    <3>1. CASE UNCHANGED backVars
      BY <1>2, <3>1, BackSame DEF backVars
    <3>2. CASE Second \/ \E k \in StoreKeys : Evict(k) \/ SetByOthers(k, Unbuildable)
      <4>1. Unbuildable \in StoreValues /\ \A k \in StoreKeys : Unbuildable \in V[k]
        BY ForeignClean, MiddlewareAssumption
      <4>2. BackInv' /\ ValuesIn(V)'
        BY <1>2, <3>2, <4>1, BackTimeInv
      <4> QED
        BY <3>2, <4>2 DEF Second, Evict, SetByOthers
    <3> QED
      BY <1>9, <3>1, <3>2 DEF TimePasses, ForeignEntry
  <2> QED
    BY <1>6, <2>1, <2>2
<1>10. ASSUME UNCHANGED vars PROVE MwInv'
  <2>1. UNCHANGED mwVars /\ UNCHANGED backVars /\ UNCHANGED admitted /\ step' = step
    BY <1>10 DEF vars, limVars, backVars
  <2>2. BackInv' /\ ValuesIn(V)'
    BY <1>2, <2>1, BackSame
  <2> QED
    BY <1>6, <2>1, <2>2
<1> QED
  BY <1>2, <1>4, <1>5, <1>7, <1>8, <1>9, <1>10 DEF Next

\* In every reachable state, whatever the order of the layers.
THEOREM MwInvariant == Spec => []MwInv
BY MwInitInv, MwStepInv, PTL DEF Spec

\* Every variable of the stack, the cache and the limiter keeps its type (MwTypeOK); a command
\* to the cache only ever stores a response with a cacheable status.
THEOREM MwTypesHold == Spec => []MwTypeOK
<1>1. MwInv => MwTypeOK
  BY DEF MwInv
<1> QED
  BY <1>1, MwInvariant, PTL

\* With auth outside the cache nobody gets a response of the inner service without being
\* authorised for his own request (AuthGuardsCache), whoever filled the entry.
THEOREM MwAuthGuardsCache == Spec => []AuthGuardsCache
<1>1. MwInv => AuthGuardsCache
  <2> SUFFICES ASSUME MwInv, Outside("auth", "cache"), NEW r \in Requests, answer[r].by = "inner"
               PROVE  ~ Auth.enabled \/ IsExcludedPath(input[r].path) \/ TokenAccepted(input[r])
    BY DEF AuthGuardsCache
  <2>1. /\ stack \in Stacks /\ Len(stack) \in Nat
        /\ ReachOK(input[r], pc[r], depth[r], ran[r])
        /\ AnswerOK(input[r], pc[r], depth[r], answer[r], ran[r], step[r])
    BY CallFacts
  <2>2. depth[r] > Place("cache") /\ pc[r] # "idle"
    BY <2>1 DEF AnswerOK, NoAnswer
  <2>3. depth[r] \in 1..Reach(input[r])
    BY <2>1, <2>2 DEF ReachOK
  <2>4. Place("auth") \in Nat /\ Place("cache") \in Nat /\ Reach(input[r]) \in Nat
    BY <2>1, Places, FirstRefusal DEF Layers
  <2>5. Place("auth") < Reach(input[r])
    BY <2>2, <2>3, <2>4 DEF Outside
  <2>6. Authorised(input[r])
    BY <2>1, <2>5, PastAuth
  <2> QED
    BY <2>6 DEF Authorised
<1> QED
  BY <1>1, MwInvariant, PTL

\* A response names no origin but that of its own request, unless it is a hit of a cache that
\* stands outside CORS: it may then name that of another GET with the same key (OwnOrigin),
\* whoever filled the entry and in every order of the layers (middleware/cache.rs:67-82).
THEOREM MwOwnOrigin == Spec => []OwnOrigin
<1>1. MwInv => OwnOrigin
  BY DEF MwInv, CallOK, AnswerOK, OriginOK, OwnOrigin
<1> QED
  BY <1>1, MwInvariant, PTL

\* MetricsService counts every answer that comes through it once, in every order of the
\* layers (CountedOnce).
THEOREM MwCountedOnce == Spec => []CountedOnce
<1>1. MwInv => CountedOnce
  BY DEF MwInv
<1> QED
  BY <1>1, MwInvariant, PTL

\* The innermost service runs at most burst plus one time per interval for a key, wherever
\* the limiter stands (InnerWithinQuota).
THEOREM MwQuota == Spec => []InnerWithinQuota
<1>1. MwInv => InnerWithinQuota
  <2> SUFFICES ASSUME MwInv, NEW k \in LimitKeys
               PROVE  Cardinality({r \in Requests : ran[r] /\ LimitKey(input[r]) = k})
                          <= Burst + intervals
    BY DEF InnerWithinQuota
  <2> DEFINE R == {r \in Requests : ran[r] /\ LimitKey(input[r]) = k}
  <2>1. IsFiniteSet(Passed(k)) /\ Cardinality(Passed(k)) \in Nat
    BY PassedFinite
  <2>2. R \subseteq Passed(k)
    BY DEF MwInv, CallOK, ReachOK, Passed
  <2> HIDE DEF R
  <2>3. IsFiniteSet(R) /\ Cardinality(R) <= Cardinality(Passed(k))
    BY <2>1, <2>2, FS_Subset
  <2>4. Cardinality(R) \in Nat
    BY <2>3, FS_CardinalityType
  <2>5. /\ Cardinality(Passed(k)) <= admitted[k] /\ admitted[k] \in Nat
        /\ cells[k] \in 0..Burst /\ admitted[k] + cells[k] <= Burst + intervals /\ intervals \in Nat
    BY DEF MwInv, PassedHeld, LimInv, LimTypeOK, QuotaRespected
  <2>6. Cardinality(R) <= Burst + intervals
    BY <2>1, <2>3, <2>4, <2>5, BurstPositive
  <2> QED
    BY <2>6 DEF R
<1> QED
  BY <1>1, MwInvariant, PTL

\* RedisCache opens one ConnectionManager at a time and none after it has one (OneManager).
THEOREM BackOneManager == Spec => []OneManager
<1>1. MwInv => OneManager
  BY DEF MwInv, BackInv, Connecting, OneManager
<1> QED
  BY <1>1, MwInvariant, PTL

\* The mutex of get_conn is handed on, whichever command fails or is dropped
\* (ManagerLockHandedOn).
THEOREM BackLockHandedOn == Spec => []ManagerLockHandedOn
<1>1. MwInv => ManagerLockHandedOn
  BY DEF MwInv, BackInv
<1> QED
  BY <1>1, MwInvariant, PTL

\* No entry in Redis outlives default_ttl_secs, for every ttl (RedisEntriesExpire).
THEOREM BackEntriesExpire == Spec => []RedisEntriesExpire
<1>1. MwInv => RedisEntriesExpire
  BY DEF MwInv, BackInv, Expiring, RedisEntriesExpire
<1> QED
  BY <1>1, MwInvariant, PTL

-----------------------------------------------------------------------------
(* The limiter among the layers.                                           *)

\* Wherever it stands in the stack and whatever its neighbours refuse, drop or answer from the
\* cache, the limiter does what RateLimiter specifies: a call asks it once or not at all, and
\* nothing gives an admission back (rate_limit.rs:117-133).
THEOREM MwImplementsLimiter == Spec => LimSpec
<1>1. Init => LimInit
  BY DEF Init
<1>2. MwInv /\ [Next]_vars => [LimNext]_limVars
  BY StepLimiter
<1> QED
  BY <1>1, <1>2, MwInvariant, PTL DEF Spec, LimSpec

\* Calls of key k that no layer refuses, other than those of H, and what the key may still be
\* admitted at once, since a moment when i intervals had elapsed.
NewlyPassed(k, H, i) == Cardinality(Passed(k) \ H) + cells[k] + i <= Burst + intervals

\* What a call takes from the bucket of k when it is one more that no layer refuses.
LEMMA CallTakesCell ==
    ASSUME MwInv, NEW r \in Requests, Call(r) \/ CallPanics(r), NEW k \in LimitKeys
    PROVE  /\ intervals' = intervals /\ cells'[k] \in Nat
           /\ \/ Passed(k)' \subseteq Passed(k) /\ cells'[k] <= cells[k]
              \/ Passed(k)' \subseteq Passed(k) \cup {r} /\ cells'[k] = cells[k] - 1
<1> DEFINE K == LimitKey(input[r])
<1>1. PICK d \in DOMAIN stack \cup {Len(stack) + 1} :
          AskLimiter(r, d) /\ depth' = [depth EXCEPT ![r] = d]
  BY DEF Call, CallPanics
<1>2. stack' = stack /\ input' = input
  BY DEF Call, CallPanics
<1>3. /\ d = Len(stack) + 1 => CheckKeyOk(K)
      /\ [CheckKeyOk(K) \/ CheckKeyErr(K)]_limVars
  BY <1>1, Depths DEF MwInv
<1>4. /\ cells \in [LimitKeys -> 0..Burst] /\ K \in LimitKeys /\ Burst \in Nat
      /\ depth \in [Requests -> 0..(Len(stack) + 1)]
  BY CallFacts, BurstPositive DEF MwInv, MwTypeOK, LimTypeOK
<1> HIDE DEF K
<1>5. intervals' = intervals /\ cells'[k] \in Nat /\ cells'[k] <= cells[k]
  BY <1>3, <1>4 DEF CheckKeyOk, CheckKeyErr, limVars
<1>6. Passed(k)' \subseteq Passed(k) \cup {r}
  BY <1>1, <1>2, <1>4 DEF Passed
<1>7. CASE d = Len(stack) + 1 /\ K = k
  BY <1>3, <1>4, <1>5, <1>6, <1>7 DEF CheckKeyOk
<1>8. CASE ~ (d = Len(stack) + 1 /\ K = k)
  <2>1. r \notin Passed(k)'
    BY <1>1, <1>2, <1>4, <1>8 DEF Passed, K
  <2> QED
    BY <1>5, <1>6, <2>1
<1> QED
  BY <1>7, <1>8

\* Every step keeps the calls that pass within the burst and the intervals since then.
LEMMA MwStepWindow ==
    ASSUME MwInv, NEW k \in LimitKeys, NEW H, NEW i \in Nat, NewlyPassed(k, H, i), [Next]_vars
    PROVE  NewlyPassed(k, H, i)'
<1> DEFINE A == Passed(k) \ H
           B == Passed(k)' \ H
<1>1. cells[k] \in 0..Burst /\ intervals \in Nat /\ Burst \in Nat
  BY BurstPositive DEF MwInv, LimInv, LimTypeOK
<1>2. IsFiniteSet(A) /\ Cardinality(A) + cells[k] + i <= Burst + intervals
  BY PassedFinite, FS_Subset DEF NewlyPassed
<1>3. SUFFICES Cardinality(B) + cells'[k] + i <= Burst + intervals'
  BY DEF NewlyPassed
<1>4. ASSUME NEW r \in Requests, Call(r) \/ CallPanics(r)
      PROVE  Cardinality(B) + cells'[k] + i <= Burst + intervals'
  <2>1. /\ intervals' = intervals /\ cells'[k] \in Nat
        /\ \/ Passed(k)' \subseteq Passed(k) /\ cells'[k] <= cells[k]
           \/ Passed(k)' \subseteq Passed(k) \cup {r} /\ cells'[k] = cells[k] - 1
    BY <1>4, CallTakesCell
  <2>2. /\ B \subseteq A \cup {r}
        /\ (B \subseteq A /\ cells'[k] <= cells[k]) \/ cells'[k] = cells[k] - 1
    BY <2>1
  <2> HIDE DEF A, B
  <2>3. /\ Cardinality(A) \in Nat /\ Cardinality(B) \in Nat
        /\ Cardinality(B) <= Cardinality(A) + 1
        /\ B \subseteq A => Cardinality(B) <= Cardinality(A)
    BY <1>2, <2>2, SizeGrows
  <2> QED
    BY <1>1, <1>2, <2>1, <2>2, <2>3
<1>5. ASSUME UNCHANGED <<stack, input, depth, limVars>>
      PROVE  Cardinality(B) + cells'[k] + i <= Burst + intervals'
  <2>1. B = A
    BY <1>5 DEF Passed
  <2> QED
    BY <1>2, <1>5, <2>1 DEF limVars
<1>6. ASSUME NEW r \in Requests,
             Hit(r) \/ HitPanics(r) \/ Miss(r) \/ Inner(r) \/ InnerErr(r) \/ Stored(r) \/ Cancel(r)
      PROVE  Cardinality(B) + cells'[k] + i <= Burst + intervals'
  BY <1>5, <1>6 DEF Hit, HitPanics, Miss, Inner, InnerErr, Stored, Cancel
<1>7. ASSUME UNCHANGED mwVars, UNCHANGED limVars
      PROVE  Cardinality(B) + cells'[k] + i <= Burst + intervals'
  BY <1>5, <1>7 DEF mwVars
<1>8. ASSUME NEW t, Backend(t) \/ Administer(t) \/ Administered(t) \/ ForeignEntry(t)
      PROVE  Cardinality(B) + cells'[k] + i <= Burst + intervals'
  BY <1>7, <1>8 DEF Backend, Administer, Administered, ForeignEntry
<1>9. ASSUME Replenish, UNCHANGED mwVars
      PROVE  Cardinality(B) + cells'[k] + i <= Burst + intervals'
  <2>1. /\ intervals' = intervals + 1
        /\ cells'[k] = IF cells[k] < Burst THEN cells[k] + 1 ELSE Burst
    BY <1>9 DEF Replenish
  <2>2. B = A
    BY <1>9 DEF mwVars, Passed
  <2> HIDE DEF A, B
  <2>3. Cardinality(A) \in Nat
    BY <1>2, FS_CardinalityType
  <2> QED
    BY <1>1, <1>2, <2>1, <2>2, <2>3
<1>10. CASE TimePasses
  BY <1>7, <1>9, <1>10 DEF TimePasses
<1>11. CASE UNCHANGED vars
  BY <1>7, <1>11 DEF vars
<1> QED
  BY <1>4, <1>6, <1>8, <1>10, <1>11 DEF Next

\* The quota of the innermost service holds of every window of time: of the calls that no
\* layer had let through at some moment (H had been, i intervals had elapsed), at most the
\* burst plus one per interval that elapses since ever run it, in every order of the layers
\* (rate_limit.rs:117-133).
THEOREM MwWindow ==
    ASSUME NEW k \in LimitKeys, NEW H, NEW i \in Nat
    PROVE  Spec => [](Passed(k) = H /\ intervals = i =>
               [](Cardinality({r \in Requests : ran[r] /\ LimitKey(input[r]) = k} \ H) + i
                      <= Burst + intervals))
<1> DEFINE R == {r \in Requests : ran[r] /\ LimitKey(input[r]) = k}
<1>1. ASSUME MwInv, Passed(k) = H, intervals = i PROVE NewlyPassed(k, H, i)
  <2>1. Passed(k) \ H = {}
    BY <1>1
  <2>2. Cardinality(Passed(k) \ H) = 0
    BY <2>1, FS_EmptySet
  <2>3. cells[k] \in 0..Burst /\ Burst \in Nat
    BY <1>1, BurstPositive DEF MwInv, LimInv, LimTypeOK
  <2> QED
    BY <1>1, <2>2, <2>3 DEF NewlyPassed
<1>2. MwInv /\ NewlyPassed(k, H, i) /\ [Next]_vars => NewlyPassed(k, H, i)'
  BY MwStepWindow
<1>3. ASSUME MwInv, NewlyPassed(k, H, i) PROVE Cardinality(R \ H) + i <= Burst + intervals
  <2>1. R \ H \subseteq Passed(k) \ H
    BY <1>3 DEF MwInv, CallOK, ReachOK, Passed
  <2>2. IsFiniteSet(Passed(k) \ H)
    BY PassedFinite, FS_Subset
  <2> DEFINE a == Cardinality(Passed(k) \ H)
             b == Cardinality(R \ H)
  <2>3. a \in Nat /\ b \in Nat /\ b <= a
    BY <2>1, <2>2, FS_Subset, FS_CardinalityType
  <2>4. a + cells[k] + i <= Burst + intervals
    BY <1>3 DEF NewlyPassed
  <2>5. cells[k] \in Nat /\ Burst \in Nat /\ intervals \in Nat
    BY <1>3, BurstPositive DEF MwInv, LimInv, LimTypeOK
  <2> HIDE DEF a, b
  <2>6. b + i <= Burst + intervals
    BY <2>3, <2>4, <2>5
  <2> QED
    BY <2>6 DEF b
<1> QED
  BY <1>1, <1>2, <1>3, MwInvariant, PTL DEF Spec

-----------------------------------------------------------------------------
(* The calls run down: the safety half of CallsEnd.                        *)

\* A command is issued while its task is not in get_conn: it queues behind the others.
LEMMA IssueOvertakesNone ==
    ASSUME BackInv, NEW t, step[t] \notin {"lock", "connect"}, NEW c, Issue(t, c)
    PROVE  NobodyOvertakes
<1>1. LockTypeOK(CacheUsers) /\ LockKept(InGetConn) /\ t \notin InGetConn
  BY DEF BackInv, BackTypeOK, ManagerLockHandedOn, InGetConn
<1>2. PICK W : W = InGetConn
  OBVIOUS
<1>3. Lock(t) \/ UNCHANGED lockVars
  BY DEF Issue
<1> QED
  BY <1>1, <1>2, <1>3, LockOvertakesNone, RestOvertakesNone

\* No other step of a command lets a task overtake another one.
LEMMA BackOvertakesNone ==
    ASSUME BackInv, NEW t, BackStep(t) \/ Take(t) \/ DropCommand(t) \/ UNCHANGED lockVars
    PROVE  NobodyOvertakes
<1>1. LockTypeOK(CacheUsers) /\ LockKept(InGetConn)
  BY DEF BackInv, BackTypeOK, ManagerLockHandedOn
<1>2. PICK W : W = InGetConn
  OBVIOUS
<1>3. Unlock \/ DropLock(t) \/ UNCHANGED lockVars
  BY DEF BackStep, GetConn, ConnectOk, ConnectErr, Execute, ExecuteErr, Take, DropCommand
<1> QED
  BY <1>1, <1>2, <1>3, UnlockOvertakesNone, DropOvertakesNone, RestOvertakesNone

\* What the response of a service inside the cache does to its mutex.
LEMMA ArrivesOvertakesNone ==
    ASSUME BackInv, NEW r, step[r] \notin {"lock", "connect"}, NEW response, Arrives(r, response)
    PROVE  NobodyOvertakes
<1>1. \/ \E c : Issue(r, c)
      \/ UNCHANGED lockVars
  BY Zenon DEF Arrives
<1> QED
  BY <1>1, IssueOvertakesNone, BackOvertakesNone

\* Whatever is called, answered, dropped or administered, the tasks that have the mutex of
\* get_conn before a waiting one does are among those that had it ahead of them a step before,
\* for every number of calls (redis.rs:25-37).
THEOREM MwNobodyOvertakes == Spec => [][NobodyOvertakes]_vars
<1>1. ASSUME MwInv, [Next]_vars PROVE [NobodyOvertakes]_vars
  <2> SUFFICES ASSUME Next PROVE NobodyOvertakes
    BY <1>1
  <2>1. BackInv
    BY <1>1 DEF MwInv
  <2>2. ASSUME NEW r \in Requests
        PROVE  pc[r] \in {"idle", "inner"} => step[r] = "idle"
    BY <1>1, CallFacts DEF AnswerOK
  <2>3. ASSUME NEW r \in Requests, Call(r) \/ CallPanics(r) PROVE NobodyOvertakes
    <3>1. (\E c : Issue(r, c)) \/ UNCHANGED lockVars
      BY <2>3, Zenon DEF Call, CallPanics, backVars
    <3>2. step[r] \notin {"lock", "connect"}
      BY <2>2, <2>3 DEF Call, CallPanics
    <3> QED
      BY <2>1, <3>1, <3>2, IssueOvertakesNone, BackOvertakesNone
  <2>4. ASSUME NEW r \in Requests, Hit(r) \/ HitPanics(r) \/ Stored(r) PROVE NobodyOvertakes
    BY <2>1, <2>4, BackOvertakesNone DEF Hit, HitPanics, Stored
  <2>5. ASSUME NEW r \in Requests, Miss(r) PROVE NobodyOvertakes
    <3>1. step[r] \notin {"lock", "connect"}
      BY <2>5 DEF Miss
    <3>2. Take(r) \/ \E response : Arrives(r, response)
      BY <2>5, Zenon DEF Miss
    <3> QED
      BY <2>1, <3>1, <3>2, ArrivesOvertakesNone, BackOvertakesNone
  <2>6. ASSUME NEW r \in Requests, Inner(r) PROVE NobodyOvertakes
    <3>1. step[r] \notin {"lock", "connect"}
      BY <2>2, <2>6 DEF Inner
    <3>2. UNCHANGED lockVars \/ \E response : Arrives(r, response)
      BY <2>6, Zenon DEF Inner, backVars
    <3> QED
      BY <2>1, <3>1, <3>2, ArrivesOvertakesNone, BackOvertakesNone
  <2>7. ASSUME NEW r \in Requests, InnerErr(r) \/ Cancel(r) PROVE NobodyOvertakes
    BY <2>1, <2>7, BackOvertakesNone DEF InnerErr, Cancel, backVars
  <2>8. ASSUME NEW t, Backend(t) \/ Administered(t) PROVE NobodyOvertakes
    BY <2>1, <2>8, BackOvertakesNone DEF Backend, Administered
  <2>9. ASSUME NEW t, Administer(t) PROVE NobodyOvertakes
    <3>1. step[t] = "idle" /\ \E c : Issue(t, c)
      BY <2>9, Zenon DEF Administer
    <3> QED
      BY <2>1, <3>1, IssueOvertakesNone
  <2>10. CASE TimePasses \/ \E k \in StoreKeys : ForeignEntry(k)
    <3>1. UNCHANGED lockVars
      BY <2>10 DEF TimePasses, ForeignEntry, SetByOthers, backVars, Second, Evict
    <3> QED
      BY <2>1, <3>1, BackOvertakesNone
  <2> QED
    BY <2>3, <2>4, <2>5, <2>6, <2>7, <2>8, <2>9, <2>10 DEF Next
<1> QED
  BY <1>1, MwInvariant, PTL DEF Spec

\* How many phases call r has before it.
PhasesLeft(r) ==
    CASE pc[r] = "idle"   -> 4
      [] pc[r] = "lookup" -> 3
      [] pc[r] = "inner"  -> 2
      [] pc[r] = "store"  -> 1
      [] OTHER            -> 0

\* How many steps its command to the cache has before it.
CommandLeft(t) ==
    CASE step[t] = "lock"    -> 4
      [] step[t] = "connect" -> 3
      [] step[t] = "io"      -> 2
      [] step[t] = "done"    -> 1
      [] OTHER               -> 0

\* What a step does to call r: nothing, it takes it to a later phase, or its command one of
\* the steps it has left.
MovesOn(r) ==
    \/ UNCHANGED <<pc[r], step[r]>>
    \/ PhasesLeft(r)' < PhasesLeft(r)
    \/ pc'[r] = pc[r] /\ CommandLeft(r)' < CommandLeft(r)

\* A step of the stack takes its call to a later phase.
LEMMA PhaseEnds ==
    ASSUME MwInv, NEW r \in Requests,
           \/ Call(r) \/ CallPanics(r) \/ Hit(r) \/ HitPanics(r) \/ Miss(r)
           \/ Inner(r) \/ InnerErr(r) \/ Stored(r) \/ Cancel(r)
    PROVE  /\ PhasesLeft(r)' < PhasesLeft(r)
           /\ \E p : GoTo(r, p)
           /\ step' = step \/ \E s : step' = [step EXCEPT ![r] = s]
<1>1. pc \in [Requests -> Progress]
  BY DEF MwInv, MwTypeOK, Progress
<1>2. ASSUME NEW response, Arrives(r, response)
      PROVE  \/ GoTo(r, "store")
             \/ GoTo(r, "done")
  BY <1>2, Zenon DEF Arrives, Return
<1>3. ASSUME NEW response, Arrives(r, response)
      PROVE  \E s : step' = [step EXCEPT ![r] = s]
  BY <1>3 DEF Arrives, Issue, Forget, StepTo
<1>4. ASSUME NEW p, GoTo(r, p),
             \/ pc[r] = "idle" /\ p \in {"lookup", "inner", "done", "panicked"}
             \/ pc[r] = "lookup" /\ p \in {"inner", "store", "done", "gone", "panicked"}
             \/ pc[r] = "inner" /\ p \in {"store", "done", "failed", "gone"}
             \/ pc[r] = "store" /\ p \in {"done", "gone"},
             step' = step \/ \E s : step' = [step EXCEPT ![r] = s]
      PROVE  /\ PhasesLeft(r)' < PhasesLeft(r)
             /\ \E x : GoTo(r, x)
             /\ step' = step \/ \E s : step' = [step EXCEPT ![r] = s]
  <2>1. pc'[r] = p
    BY <1>1, <1>4 DEF GoTo
  <2>2. PhasesLeft(r)' < PhasesLeft(r)
    BY <1>4, <2>1 DEF PhasesLeft
  <2> QED
    BY <1>4, <2>2, Zenon
<1>5. CASE Call(r)
  <2>1. pc[r] = "idle" /\ (GoTo(r, "lookup") \/ GoTo(r, "done") \/ GoTo(r, "inner"))
    BY <1>5, Zenon DEF Call, Return
  <2>2. (\E c : Issue(r, c)) \/ UNCHANGED backVars
    BY <1>5, Zenon DEF Call
  <2>3. step' = step \/ \E s : step' = [step EXCEPT ![r] = s]
    BY <2>2 DEF Issue, StepTo, backVars
  <2> QED
    BY <1>4, <2>1, <2>3
<1>6. CASE Hit(r) \/ HitPanics(r) \/ Stored(r)
  <2>1. /\ \/ pc[r] = "lookup" /\ (GoTo(r, "done") \/ GoTo(r, "panicked"))
           \/ pc[r] = "store" /\ GoTo(r, "done")
        /\ Take(r)
    BY <1>6, Zenon DEF Hit, HitPanics, Stored, Return
  <2>2. \E s : step' = [step EXCEPT ![r] = s]
    BY <2>1, Zenon DEF Take, Forget, StepTo
  <2> QED
    BY <1>4, <2>1, <2>2
<1>7. CASE Miss(r)
  <2>1. /\ pc[r] = "lookup"
        /\ \/ \E response : Arrives(r, response)
           \/ Take(r) /\ GoTo(r, "inner")
    BY <1>7, Zenon DEF Miss
  <2>2. GoTo(r, "store") \/ GoTo(r, "done") \/ GoTo(r, "inner")
    BY <1>2, <2>1
  <2>3. \E s : step' = [step EXCEPT ![r] = s]
    BY <1>3, <2>1, Zenon DEF Take, Forget, StepTo
  <2> QED
    BY <1>4, <2>1, <2>2, <2>3
<1>8. CASE Inner(r)
  <2>1. /\ pc[r] = "inner"
        /\ \/ \E response : Arrives(r, response)
           \/ UNCHANGED backVars /\ GoTo(r, "done")
    BY <1>8, Zenon DEF Inner, Return
  <2>2. GoTo(r, "store") \/ GoTo(r, "done")
    BY <1>2, <2>1
  <2>3. step' = step \/ \E s : step' = [step EXCEPT ![r] = s]
    BY <1>3, <2>1 DEF backVars
  <2> QED
    BY <1>4, <2>1, <2>2, <2>3
<1>9. CASE InnerErr(r)
  BY <1>4, <1>9 DEF InnerErr, backVars
<1>10. CASE Cancel(r)
  <2>1. pc[r] \in {"lookup", "inner", "store"} /\ GoTo(r, "gone")
    BY <1>10 DEF Cancel
  <2>2. UNCHANGED backVars \/ DropCommand(r)
    BY <1>10 DEF Cancel
  <2>3. step' = step \/ \E s : step' = [step EXCEPT ![r] = s]
    BY <2>2, Zenon DEF DropCommand, Forget, StepTo, backVars
  <2> QED
    BY <1>4, <2>1, <2>3
<1>11. CASE CallPanics(r)
  BY <1>4, <1>11 DEF CallPanics, backVars
<1> QED
  BY <1>5, <1>6, <1>7, <1>8, <1>9, <1>10, <1>11

\* No call goes back to an earlier phase or goes round in one: every step of the stack takes
\* it to a later phase, every step of its command to Redis or the memory cache is one of the
\* at most four the command has, and what the other calls, the administrators and the clock do
\* leaves it where it is (middleware/cache.rs:55-112, redis.rs:25-78).
THEOREM MwMovesOn == Spec => [][\A r \in Requests : MovesOn(r)]_vars
<1>1. ASSUME MwInv, [Next]_vars PROVE [\A r \in Requests : MovesOn(r)]_vars
  <2> SUFFICES ASSUME Next, NEW u \in Requests PROVE MovesOn(u)
    BY <1>1
  <2>1. /\ pc \in [Requests -> Progress] /\ u \in CacheUsers
        /\ step \in [CacheUsers -> {"idle", "lock", "connect", "io", "done"}]
    BY <1>1, MiddlewareAssumption DEF MwInv, MwTypeOK, BackTypeOK, Progress
  <2>2. ASSUME NEW r \in Requests,
               \/ Call(r) \/ CallPanics(r) \/ Hit(r) \/ HitPanics(r) \/ Miss(r)
               \/ Inner(r) \/ InnerErr(r) \/ Stored(r) \/ Cancel(r)
        PROVE  MovesOn(u)
    <3>1. /\ PhasesLeft(r)' < PhasesLeft(r)
          /\ \E p : GoTo(r, p)
          /\ step' = step \/ \E s : step' = [step EXCEPT ![r] = s]
      BY <1>1, <2>2, PhaseEnds
    <3>2. CASE u = r
      BY <3>1, <3>2 DEF MovesOn
    <3>3. CASE u # r
      BY <2>1, <3>1, <3>3 DEF MovesOn, GoTo
    <3> QED
      BY <3>2, <3>3
  <2>3. ASSUME UNCHANGED <<pc, step>> PROVE MovesOn(u)
    BY <2>3 DEF MovesOn
  <2>4. ASSUME NEW t \in CacheUsers, Backend(t) PROVE MovesOn(u)
    <3>1. pc' = pc /\ CommandLeft(t)' < CommandLeft(t) /\ \E s : step' = [step EXCEPT ![t] = s]
      BY <2>1, <2>4 DEF Backend, BackStep, GetConn, ConnectOk, ConnectErr, Execute, ExecuteErr,
                        StepTo, CommandLeft, mwVars
    <3>2. CASE u = t
      BY <3>1, <3>2 DEF MovesOn
    <3>3. CASE u # t
      BY <2>1, <3>1, <3>3 DEF MovesOn
    <3> QED
      BY <3>2, <3>3
  <2>5. ASSUME NEW t \in Admins, Administer(t) \/ Administered(t) PROVE MovesOn(u)
    <3>1. t # u /\ t \in CacheUsers
      BY MiddlewareAssumption
    <3>2. pc' = pc /\ \E s : step' = [step EXCEPT ![t] = s]
      BY <2>5 DEF Administer, Administered, Issue, Take, Forget, StepTo, mwVars
    <3> QED
      BY <2>1, <3>1, <3>2 DEF MovesOn
  <2>6. CASE TimePasses \/ \E k \in StoreKeys : ForeignEntry(k)
    BY <2>3, <2>6 DEF TimePasses, ForeignEntry, SetByOthers, Second, Evict, mwVars, backVars
  <2> QED
    BY <2>2, <2>4, <2>5, <2>6, MiddlewareAssumption DEF Next
<1> QED
  BY <1>1, MwInvariant, PTL DEF Spec
=============================================================================
