------------------------ MODULE ConnectionPoolProofs -----------------------
(***************************************************************************)
(* The pool's safety properties for every number of clients, addresses and *)
(* connections.  Room for a new entry is checked before an await and used  *)
(* after it: the bound holds because whoever connects still has the lock   *)
(* (Connecting), and nobody else changes the list meanwhile.               *)
(***************************************************************************)
EXTENDS ConnectionPool, TokioMutexProofs

-----------------------------------------------------------------------------
(* What retain() leaves.                                                   *)

\* retain() leaves a list of entries, no longer than it was.
LEMMA RetainedList ==
    ASSUME NEW E, entries \in Seq(E)
    PROVE  /\ Retained \in Seq(E)
           /\ Len(Retained) <= Len(entries)
<1> DEFINE valid == {i \in DOMAIN entries : Fresh(entries[i])}
<1>1. valid \subseteq DOMAIN entries
  OBVIOUS
<1> HIDE DEF valid
<1>2. Sublist(entries, valid) \in Seq(E) /\ Len(Sublist(entries, valid)) <= Len(entries)
  BY <1>1, SublistType
<1> QED
  BY <1>2 DEF Retained, valid

-----------------------------------------------------------------------------
(* The inductive invariant.                                                *)

\* The callers that have the lock or wait for it.
Wanting == {c \in Clients : at[c] \in {"lock", "connect"}}

\* Whoever connects has the lock, and if it is to add an entry there is room for it.
Connecting(c) ==
    at[c] = "connect" => holder = c /\ (reuse[c] \/ Len(entries) < MaxConnections)

PoolInv ==
    /\ PoolTypeOK
    /\ PoolBounded
    /\ LockHandedOn
    /\ \A c \in Clients : Connecting(c)

\* The invariant's parts about the lock.
LockInv == LockTypeOK(Clients) /\ LockHandedOn

\* A caller that starts a method wants the lock.
LEMMA CallsLock ==
    ASSUME PoolInv, NEW c \in Clients, at[c] \notin {"lock", "connect"}, Lock(c),
           Go(c, "lock")
    PROVE  LockInv'
<1>1. PICK W : W = Wanting
  OBVIOUS
<1>2. LockTypeOK(Clients) /\ LockKept(W) /\ c \notin W /\ NoOne \notin Clients
  BY <1>1, PoolAssumption DEF PoolInv, PoolTypeOK, LockHandedOn, Wanting
<1>3. LockTypeOK(Clients)' /\ LockKept(W \cup {c})'
  BY <1>2, LockCalled
<1>4. Wanting' = W \cup {c}
  BY <1>1 DEF Wanting, Go, PoolInv, PoolTypeOK
<1> QED
  BY <1>3, <1>4 DEF LockInv, LockHandedOn, Wanting

\* A caller that leaves a method hands the lock on.
LEMMA LeavesLock ==
    ASSUME PoolInv, NEW c \in Clients, NEW place \in {"idle", "using"}, Go(c, place),
           (holder = c /\ Unlock) \/ DropLock(c)
    PROVE  LockInv'
<1>1. PICK W : W = Wanting
  OBVIOUS
<1>2. LockTypeOK(Clients) /\ LockKept(W) /\ NoOne \notin Clients
  BY <1>1, PoolAssumption DEF PoolInv, PoolTypeOK, LockHandedOn, Wanting
<1>3. LockTypeOK(Clients)' /\ LockKept(W \ {c})'
  BY <1>2, LockHandedOver, LockDropped
<1>4. Wanting' = W \ {c}
  BY <1>1 DEF Wanting, Go, PoolInv, PoolTypeOK
<1> QED
  BY <1>3, <1>4 DEF LockInv, LockHandedOn, Wanting

\* A caller that goes on with the lock in its hand keeps it.
LEMMA KeepsLock ==
    ASSUME PoolInv, UNCHANGED lockVars, Wanting' = Wanting
    PROVE  LockInv'
BY DEF PoolInv, PoolTypeOK, LockInv, LockHandedOn, LockTypeOK, LockKept, lockVars, Wanting

\* Nobody else connects while a caller has the lock.
LEMMA AloneWithLock ==
    ASSUME PoolInv, NEW c \in Clients, holder = c, NEW d \in Clients, d # c
    PROVE  at[d] # "connect"
BY DEF PoolInv, Connecting

\* A new pool.
LEMMA PoolInitInv == PoolInit => PoolInv
<1> SUFFICES ASSUME PoolInit PROVE PoolInv
  OBVIOUS
<1>1. PoolTypeOK
  BY DEF PoolInit, PoolTypeOK, LockInit, LockTypeOK
<1>2. PoolBounded
  BY PoolAssumption DEF PoolInit, PoolBounded
<1>3. LockHandedOn
  <2>1. {c \in Clients : at[c] \in {"lock", "connect"}} = {}
    BY DEF PoolInit
  <2> QED
    BY <2>1, LockInitKept DEF PoolInit, LockHandedOn
<1>4. \A c \in Clients : Connecting(c)
  BY DEF PoolInit, Connecting
<1> QED
  BY <1>1, <1>2, <1>3, <1>4 DEF PoolInv

\* A method is called.
LEMMA CallInv ==
    ASSUME PoolInv, NEW c \in Clients, NEW method \in {"get", "return", "cleanup"},
           at[c] \in {"idle", "using"}, Call(c, method), addr' \in [Clients -> Addrs]
    PROVE  PoolInv'
<1>1. LockInv'
  BY CallsLock DEF Call
<1>2. PoolTypeOK'
  BY <1>1 DEF PoolInv, PoolTypeOK, LockInv, Call, Go
<1>3. PoolBounded'
  BY DEF PoolInv, PoolBounded, Call
<1>4. ASSUME NEW d \in Clients PROVE Connecting(d)'
  <2>1. CASE d = c
    BY <2>1 DEF PoolInv, PoolTypeOK, Call, Go, Connecting
  <2>2. CASE d # c
    BY <2>2, PoolAssumption DEF PoolInv, PoolTypeOK, Call, Go, Connecting, Lock
  <2> QED
    BY <2>1, <2>2
<1> QED
  BY <1>1, <1>2, <1>3, <1>4 DEF PoolInv, LockInv

\* A method ends or its caller is dropped.  Whoever had the lock was the only one to connect.
LEMMA LeaveInv ==
    ASSUME PoolInv, NEW c \in Clients, at[c] \in {"lock", "connect"},
           NEW place \in {"idle", "using"}, Go(c, place),
           \/ holder = c /\ Unlock
           \/ DropLock(c) /\ entries' = entries,
           entries' \in Seq(Entry), Len(entries') <= MaxConnections,
           UNCHANGED <<op, addr, reuse>>
    PROVE  PoolInv'
<1>1. LockInv'
  BY LeavesLock
<1>2. PoolTypeOK'
  BY <1>1 DEF PoolInv, PoolTypeOK, LockInv, Go
<1>3. ASSUME NEW d \in Clients PROVE Connecting(d)'
  <2>1. CASE d = c
    BY <2>1 DEF PoolInv, PoolTypeOK, Go, Connecting
  <2>2. CASE d # c /\ holder = c
    BY <2>2, AloneWithLock DEF PoolInv, PoolTypeOK, Go, Connecting
  <2>3. CASE d # c /\ holder # c
    BY <2>3 DEF PoolInv, PoolTypeOK, Go, Connecting, DropLock
  <2> QED
    BY <2>1, <2>2, <2>3
<1> QED
  BY <1>1, <1>2, <1>3 DEF PoolInv, PoolBounded, LockInv

\* A caller goes on to connect with the lock in its hand.
LEMMA ConnectInv ==
    ASSUME PoolInv, NEW c \in Clients, at[c] = "lock", holder = c, Go(c, "connect"),
           entries' \in Seq(Entry), Len(entries') <= MaxConnections,
           reuse' \in [Clients -> BOOLEAN], reuse'[c] \/ Len(entries') < MaxConnections,
           UNCHANGED <<op, addr, lockVars>>
    PROVE  PoolInv'
<1>1. LockInv'
  <2>1. Wanting' = Wanting
    BY DEF Wanting, Go, PoolInv, PoolTypeOK
  <2> QED
    BY <2>1, KeepsLock
<1>2. PoolTypeOK'
  BY <1>1 DEF PoolInv, PoolTypeOK, LockInv, Go
<1>3. ASSUME NEW d \in Clients PROVE Connecting(d)'
  <2>1. CASE d = c
    BY <2>1 DEF Connecting, lockVars
  <2>2. CASE d # c
    BY <2>2, AloneWithLock DEF PoolInv, PoolTypeOK, Go, Connecting
  <2> QED
    BY <2>1, <2>2
<1> QED
  BY <1>1, <1>2, <1>3 DEF PoolInv, PoolBounded, LockInv

\* A list that has room takes one more entry.
LEMMA AppendList ==
    ASSUME NEW a \in Addrs, entries \in Seq(Entry), Len(entries) < MaxConnections
    PROVE  /\ Append(entries, NewEntry(a)) \in Seq(Entry)
           /\ Len(Append(entries, NewEntry(a))) <= MaxConnections
<1>1. NewEntry(a) \in Entry
  BY PoolAssumption DEF NewEntry, Entry
<1> QED
  BY <1>1, PoolAssumption

\* A caller has been given the lock.
LEMMA LockedInv ==
    ASSUME PoolInv, NEW c \in Clients, Locked(c)
    PROVE  PoolInv'
<1>1. /\ entries \in Seq(Entry) /\ Len(entries) <= MaxConnections /\ Len(entries) \in Nat
      /\ addr[c] \in Addrs /\ reuse \in [Clients -> BOOLEAN] /\ MaxConnections \in Nat
  BY PoolAssumption DEF PoolInv, PoolTypeOK, PoolBounded
<1>2. at[c] = "lock" /\ holder = c /\ UNCHANGED <<op, addr>>
  BY DEF Locked
<1>3. /\ Retained \in Seq(Entry) /\ Len(Retained) <= Len(entries) /\ Len(Retained) \in Nat
      /\ DOMAIN Retained = 1..Len(Retained)
  BY <1>1, RetainedList
<1>4. CASE TakeEntry(c)
  <2> DEFINE kept  == Retained
             found == {i \in DOMAIN kept : kept[i].addr = addr[c]}
             p     == CHOOSE i \in found : \A j \in found : i <= j
  <2>1. /\ found # {} /\ entries' = RemoveAt(kept, p) /\ Go(c, "connect")
        /\ reuse' = [reuse EXCEPT ![c] = TRUE] /\ UNCHANGED lockVars
    BY <1>4 DEF TakeEntry
  <2>2. found \subseteq Nat /\ found \subseteq DOMAIN kept
    BY <1>3
  <2>3. p \in found
    <3>1. \E i \in found : \A j \in found : i <= j
      BY <2>1, <2>2, LeastNatural
    <3> QED
      BY <3>1, Zenon
  <2>4. p \in DOMAIN kept
    BY <2>2, <2>3
  <2> HIDE DEF kept, found, p
  <2>5. RemoveAt(kept, p) \in Seq(Entry) /\ Len(RemoveAt(kept, p)) = Len(kept) - 1
    BY <1>3, <2>4, RemoveAtPlaces DEF kept
  <2>6. Len(entries') <= MaxConnections /\ entries' \in Seq(Entry)
    BY <1>1, <1>3, <2>1, <2>5 DEF kept
  <2>7. reuse' \in [Clients -> BOOLEAN] /\ reuse'[c]
    BY <1>1, <2>1
  <2> QED
    BY <1>2, <2>1, <2>6, <2>7, ConnectInv
<1>5. CASE NewConnection(c)
  <2>1. entries' = Retained /\ reuse' = reuse
    BY <1>5 DEF NewConnection
  <2>2. entries' \in Seq(Entry) /\ Len(entries') <= MaxConnections
    BY <1>1, <1>3, <2>1
  <2>3. CASE Len(Retained) < MaxConnections
    BY <1>1, <1>2, <1>5, <2>1, <2>2, <2>3, ConnectInv DEF NewConnection
  <2>4. CASE ~ (Len(Retained) < MaxConnections)
    BY <1>2, <1>5, <2>1, <2>2, <2>4, LeaveInv DEF NewConnection, Leave
  <2> QED
    BY <2>3, <2>4
<1>6. CASE PushReturned(c)
  <2>1. entries' \in Seq(Entry) /\ Len(entries') <= MaxConnections
    BY <1>1, <1>6, AppendList DEF PushReturned
  <2> QED
    BY <1>2, <1>6, <2>1, LeaveInv DEF PushReturned, Leave
<1>7. CASE RemoveExpired(c)
  <2>1. entries' \in Seq(Entry) /\ Len(entries') <= MaxConnections
    BY <1>1, <1>3, <1>7 DEF RemoveExpired
  <2> QED
    BY <1>2, <1>7, <2>1, LeaveInv DEF RemoveExpired, Leave
<1> QED
  BY <1>4, <1>5, <1>6, <1>7 DEF Locked

\* An entry gets older.
LEMMA OlderEntry ==
    ASSUME NEW e \in Entry, Fresh(e)
    PROVE  [e EXCEPT !.idle = @ + 1] \in Entry
BY PoolAssumption DEF Entry, Fresh

\* Every step keeps PoolInv.
LEMMA PoolNextInv == PoolInv /\ [PoolNext]_poolVars => PoolInv'
<1> SUFFICES ASSUME PoolInv, [PoolNext]_poolVars PROVE PoolInv'
  OBVIOUS
<1>0. /\ entries \in Seq(Entry) /\ Len(entries) <= MaxConnections
      /\ addr \in [Clients -> Addrs]
  BY DEF PoolInv, PoolTypeOK, PoolBounded
<1>1. ASSUME NEW c \in Clients, NEW a \in Addrs, GetConnection(c, a) PROVE PoolInv'
  BY <1>0, <1>1, CallInv DEF GetConnection
<1>2. ASSUME NEW c \in Clients, ReturnConnection(c) \/ CleanupExpired(c) PROVE PoolInv'
  BY <1>0, <1>2, CallInv DEF ReturnConnection, CleanupExpired
<1>3. ASSUME NEW c \in Clients, Locked(c) PROVE PoolInv'
  BY <1>3, LockedInv
<1>4. ASSUME NEW c \in Clients, Connected(c) PROVE PoolInv'
  <2>1. holder = c /\ (reuse[c] \/ Len(entries) < MaxConnections)
    BY <1>4 DEF Connected, PoolInv, Connecting
  <2>2. entries' \in Seq(Entry) /\ Len(entries') <= MaxConnections
    BY <1>0, <1>4, <2>1, AppendList DEF Connected
  <2> QED
    BY <1>4, <2>1, <2>2, LeaveInv DEF Connected, Leave
<1>5. ASSUME NEW c \in Clients, ConnectFails(c) PROVE PoolInv'
  <2>1. holder = c
    BY <1>5 DEF ConnectFails, PoolInv, Connecting
  <2> QED
    BY <1>0, <1>5, <2>1, LeaveInv DEF ConnectFails, Leave
<1>6. ASSUME NEW c \in Clients, DropCaller(c) PROVE PoolInv'
  BY <1>0, <1>6, LeaveInv DEF DropCaller
<1>7. ASSUME NEW c \in Clients, Abandon(c) PROVE PoolInv'
  <2>1. Wanting' = Wanting
    BY <1>7 DEF Abandon, Wanting, Go, PoolInv, PoolTypeOK
  <2>2. LockInv'
    BY <1>7, <2>1, KeepsLock DEF Abandon
  <2>3. PoolTypeOK' /\ \A d \in Clients : Connecting(d)'
    BY <1>7, <2>2 DEF Abandon, Go, PoolInv, PoolTypeOK, LockInv, Connecting, lockVars
  <2> QED
    BY <1>7, <2>2, <2>3 DEF Abandon, PoolInv, PoolBounded, LockInv
<1>8. CASE Tick
  <2>1. \A i \in DOMAIN entries :
            (IF Fresh(entries[i]) THEN [entries[i] EXCEPT !.idle = @ + 1] ELSE entries[i]) \in Entry
    <3> SUFFICES ASSUME NEW i \in DOMAIN entries
                 PROVE  (IF Fresh(entries[i]) THEN [entries[i] EXCEPT !.idle = @ + 1]
                                              ELSE entries[i]) \in Entry
      OBVIOUS
    <3>1. PICK e \in Entry : e = entries[i]
      BY <1>0
    <3> QED
      BY <3>1, OlderEntry, Zenon
  <2>2. entries' \in Seq(Entry) /\ Len(entries') = Len(entries)
    <3> DEFINE older(i) == IF Fresh(entries[i]) THEN [entries[i] EXCEPT !.idle = @ + 1]
                                                ELSE entries[i]
    <3>1. entries' = [i \in DOMAIN entries |-> older(i)] /\ \A i \in DOMAIN entries : older(i) \in Entry
      BY <1>8, <2>1, Zenon DEF Tick
    <3> HIDE DEF older
    <3>2. entries' \in [1..Len(entries) -> Entry] /\ Len(entries) \in Nat
      BY <1>0, <3>1
    <3> QED
      BY <3>2
  <2>3. UNCHANGED <<at, op, addr, reuse, lockVars>>
    BY <1>8 DEF Tick
  <2>4. LockInv'
    BY <2>3, KeepsLock DEF Wanting
  <2> QED
    BY <2>2, <2>3, <2>4 DEF PoolInv, PoolTypeOK, PoolBounded, LockInv, Connecting, lockVars
<1>9. CASE UNCHANGED poolVars
  <2>1. LockInv'
    BY <1>9, KeepsLock DEF Wanting, poolVars
  <2> QED
    BY <1>9, <2>1
       DEF PoolInv, PoolTypeOK, PoolBounded, LockInv, Connecting, poolVars, lockVars
<1> QED
  BY <1>1, <1>2, <1>3, <1>4, <1>5, <1>6, <1>7, <1>8, <1>9 DEF PoolNext

\* PoolInv holds in every reachable state of the pool.
LEMMA PoolInvariant == PoolSpec => []PoolInv
BY PoolInitInv, PoolNextInv, PTL DEF PoolSpec

\* Every variable keeps its type.
THEOREM PoolTypesHold == PoolSpec => []PoolTypeOK
<1>1. PoolInv => PoolTypeOK
  BY DEF PoolInv
<1> QED
  BY <1>1, PoolInvariant, PTL

\* The list never outgrows max_connections, for every number of clients and every
\* max_connections (pool.rs:62-70, 82-91).
THEOREM PoolStaysBounded == PoolSpec => []PoolBounded
<1>1. PoolInv => PoolBounded
  BY DEF PoolInv
<1> QED
  BY <1>1, PoolInvariant, PTL

\* The lock is never left behind, for every number of clients, whichever of them are dropped
\* and wherever (pool.rs:34, 52, 63).
THEOREM PoolLockHandedOn == PoolSpec => []LockHandedOn
<1>1. PoolInv => LockHandedOn
  BY DEF PoolInv
<1> QED
  BY <1>1, PoolInvariant, PTL

-----------------------------------------------------------------------------
(* What is reused.                                                         *)

\* A caller that waits for the lock has not taken an entry.
NothingTaken == \A c \in Clients : at[c] = "lock" => ~ reuse[c]

\* NothingTaken is kept by every step.
LEMMA NothingTakenKept == PoolInv /\ NothingTaken /\ [PoolNext]_poolVars => NothingTaken'
<1> SUFFICES ASSUME PoolInv, NothingTaken, [PoolNext]_poolVars, NEW c \in Clients,
                    at'[c] = "lock"
             PROVE  ~ reuse'[c]
  BY DEF NothingTaken
<1>0. at \in [Clients -> {"idle", "lock", "connect", "using"}] /\ reuse \in [Clients -> BOOLEAN]
  BY DEF PoolInv, PoolTypeOK
<1>1. ASSUME NEW d \in Clients, NEW method, Call(d, method) PROVE ~ reuse'[c]
  BY <1>0, <1>1 DEF Call, Go, NothingTaken
<1>2. ASSUME NEW d \in Clients, Locked(d) PROVE ~ reuse'[c]
  <2>1. PICK place \in {"connect", "idle"} : Go(d, place)
    BY <1>2 DEF Locked, TakeEntry, NewConnection, PushReturned, RemoveExpired, Leave
  <2>2. c # d /\ at[c] = "lock"
    BY <1>0, <2>1 DEF Go
  <2>3. reuse'[c] = reuse[c]
    BY <1>0, <1>2, <2>2 DEF Locked, TakeEntry, NewConnection, PushReturned, RemoveExpired
  <2> QED
    BY <2>2, <2>3 DEF NothingTaken
<1>3. ASSUME NEW d \in Clients, NEW place \in {"idle", "using"}, Go(d, place), reuse' = reuse
      PROVE  ~ reuse'[c]
  BY <1>0, <1>3 DEF Go, NothingTaken
<1>4. ASSUME UNCHANGED <<at, reuse>> PROVE ~ reuse'[c]
  BY <1>4 DEF NothingTaken
<1> QED
  BY <1>1, <1>2, <1>3, <1>4 DEF PoolNext, GetConnection, ReturnConnection, CleanupExpired,
     Connected, ConnectFails, DropCaller, Abandon, Tick, Leave, poolVars

\* What get_connection leaves of the list when it reuses an entry.
LEMMA TakesFresh ==
    ASSUME PoolInv, NEW c \in Clients, TakeEntry(c)
    PROVE  \E i \in DOMAIN entries :
              /\ entries[i].addr = addr[c]
              /\ Fresh(entries[i])
              /\ IsSublistAt(entries', entries, {j \in DOMAIN entries \ {i} : Fresh(entries[j])})
<1> DEFINE kept  == Retained
           found == {i \in DOMAIN kept : kept[i].addr = addr[c]}
           p     == CHOOSE i \in found : \A j \in found : i <= j
           valid == {i \in DOMAIN entries : Fresh(entries[i])}
<1>1. entries \in Seq(Entry) /\ kept \in Seq(Entry)
  BY RetainedList DEF PoolInv, PoolTypeOK
<1>2. found # {} /\ entries' = RemoveAt(kept, p)
  BY DEF TakeEntry
<1>3. p \in found
  <2>1. found \subseteq Nat
    BY <1>1
  <2>2. \E i \in found : \A j \in found : i <= j
    BY <1>2, <2>1, LeastNatural
  <2> QED
    BY <2>2, Zenon
<1>4. p \in DOMAIN kept /\ kept[p].addr = addr[c]
  BY <1>3
<1>5. IsSublistAt(kept, entries, valid)
  BY <1>1, SublistKeeps DEF Retained
<1>6. valid \subseteq Nat
  BY <1>1
<1> HIDE DEF kept, found, p
<1>7. PICK i \in valid : kept[p] = entries[i] /\ IsSublistAt(RemoveAt(kept, p), entries, valid \ {i})
  BY <1>1, <1>4, <1>5, <1>6, SublistRemoves
<1>8. valid \ {i} = {j \in DOMAIN entries \ {i} : Fresh(entries[j])}
  BY Zenon
<1> QED
  BY <1>2, <1>4, <1>7, <1>8

\* No entry that was idle for idle_timeout is reused, and a reuse takes one entry and the
\* expired ones from the list and nothing else, for every number of clients, entries and
\* addresses (pool.rs:36-48).
THEOREM PoolReuseIsFresh == PoolSpec => ReuseIsFresh
<1> DEFINE Reuses == \A c \in Clients : (at[c] = "lock" /\ at'[c] = "connect" /\ reuse'[c]) =>
              \E i \in DOMAIN entries :
                 /\ entries[i].addr = addr[c]
                 /\ Fresh(entries[i])
                 /\ IsSublistAt(entries', entries, {j \in DOMAIN entries \ {i} : Fresh(entries[j])})
<1>1. PoolInit => NothingTaken
  BY DEF PoolInit, NothingTaken
<1>2. ASSUME PoolInv, NothingTaken, [PoolNext]_poolVars PROVE [Reuses]_poolVars
  <2> SUFFICES ASSUME PoolNext, NEW c \in Clients,
                      at[c] = "lock", at'[c] = "connect", reuse'[c]
               PROVE  TakeEntry(c)
    BY <1>2, TakesFresh
  <2>0. at \in [Clients -> {"idle", "lock", "connect", "using"}]
    BY <1>2 DEF PoolInv, PoolTypeOK
  <2>1. ASSUME NEW d \in Clients, NEW place \in {"idle", "using", "lock"}, Go(d, place)
        PROVE  FALSE
    BY <2>0, <2>1 DEF Go
  <2>2. at' # at
    BY <2>0
  <2>3. PICK d \in Clients : Locked(d)
    BY <2>1, <2>2 DEF PoolNext, GetConnection, ReturnConnection, CleanupExpired, Call,
       Connected, ConnectFails, DropCaller, Abandon, Tick, Leave
  <2>4. PICK place : Go(d, place)
    BY <2>3 DEF Locked, TakeEntry, NewConnection, PushReturned, RemoveExpired, Leave
  <2>5. d = c
    BY <2>0, <2>4 DEF Go
  <2>6. ~ reuse[c]
    BY <1>2 DEF NothingTaken
  <2> QED
    BY <2>3, <2>5, <2>6 DEF Locked, TakeEntry, NewConnection, PushReturned, RemoveExpired
<1>3. PoolSpec => []NothingTaken
  BY <1>1, PoolInvariant, NothingTakenKept, PTL DEF PoolSpec
<1>4. PoolSpec => [][Reuses]_poolVars
  BY <1>2, <1>3, PoolInvariant, PTL DEF PoolSpec
<1> QED
  BY <1>4 DEF ReuseIsFresh

-----------------------------------------------------------------------------
(* Whose turn it is.                                                       *)

\* The part of "every call returns" (CallsReturn) that needs no fairness, for every number of
\* clients: whatever the others call, return, clean up or abandon, the callers that have the
\* lock before a waiting one does are among those that had it ahead of them a step before
\* (pool.rs:34, 52, 63).
THEOREM PoolNobodyOvertakes == PoolSpec => [][NobodyOvertakes]_poolVars
<1>1. ASSUME PoolInv, [PoolNext]_poolVars PROVE [NobodyOvertakes]_poolVars
  <2> SUFFICES ASSUME PoolNext PROVE NobodyOvertakes
    BY <1>1
  <2>1. PICK W : W = Wanting
    OBVIOUS
  <2>2. LockTypeOK(Clients) /\ LockKept(W)
    BY <1>1, <2>1 DEF PoolInv, PoolTypeOK, LockHandedOn, Wanting
  <2>3. ASSUME NEW c \in Clients, at[c] \notin {"lock", "connect"}, Lock(c) PROVE NobodyOvertakes
    BY <2>1, <2>2, <2>3, LockOvertakesNone DEF Wanting
  <2>4. ASSUME Unlock PROVE NobodyOvertakes
    BY <2>2, <2>4, UnlockOvertakesNone
  <2>5. ASSUME NEW c \in Clients, DropLock(c) PROVE NobodyOvertakes
    BY <2>2, <2>5, DropOvertakesNone
  <2>6. ASSUME UNCHANGED lockVars PROVE NobodyOvertakes
    BY <2>2, <2>6, RestOvertakesNone
  <2>7. ASSUME NEW c \in Clients, NEW a \in Addrs, GetConnection(c, a) PROVE NobodyOvertakes
    BY <2>3, <2>7 DEF GetConnection, Call
  <2>8. ASSUME NEW c \in Clients, ReturnConnection(c) \/ CleanupExpired(c) PROVE NobodyOvertakes
    BY <2>3, <2>8 DEF ReturnConnection, CleanupExpired, Call
  <2>9. ASSUME NEW c \in Clients, Locked(c) PROVE NobodyOvertakes
    BY <2>4, <2>6, <2>9 DEF Locked, TakeEntry, NewConnection, PushReturned, RemoveExpired, Leave
  <2>10. ASSUME NEW c \in Clients, Connected(c) \/ ConnectFails(c) PROVE NobodyOvertakes
    BY <2>4, <2>10 DEF Connected, ConnectFails, Leave
  <2>11. ASSUME NEW c \in Clients, DropCaller(c) \/ Abandon(c) PROVE NobodyOvertakes
    BY <2>5, <2>6, <2>11 DEF DropCaller, Abandon
  <2>12. ASSUME Tick PROVE NobodyOvertakes
    BY <2>6, <2>12 DEF Tick
  <2> QED
    BY <2>7, <2>8, <2>9, <2>10, <2>11, <2>12 DEF PoolNext
<1> QED
  BY <1>1, PoolInvariant, PTL DEF PoolSpec
=============================================================================
