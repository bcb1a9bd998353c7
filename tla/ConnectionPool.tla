-------------------------- MODULE ConnectionPool ---------------------------
(***************************************************************************)
(* ConnectionPool (src/pool.rs): a list of addresses with the time each    *)
(* was last used, behind one mutex that get_connection keeps while it      *)
(* connects.  No stream is stored: an entry only stands for a connection,  *)
(* and a "reused" one is opened anew.  The gateway does not use the pool   *)
(* (reqwest has its own): its clients here are any tasks that call it.     *)
(***************************************************************************)
EXTENDS Naturals, FiniteSets, TokioMutex, ListOps

CONSTANTS
    Clients,            \* tasks that call the pool
    Addrs,              \* upstream addresses
    MaxConnections,     \* max_connections
    IdleTimeout         \* idle_timeout, in ticks of the clock

ASSUME PoolAssumption ==
    /\ MaxConnections \in Nat
    /\ IdleTimeout \in Nat
    /\ NoOne \notin Clients

VARIABLES
    entries,    \* the list: address, and ticks since last_used up to IdleTimeout
    at,         \* at[c]: what client c is doing
    op,         \* op[c]: the method it calls
    addr,       \* addr[c]: the address it asks for, or has a stream to
    reuse       \* reuse[c]: its connect is for an entry it took from the list

poolVars == <<entries, at, op, addr, reuse, lockVars>>

Entry == [addr : Addrs, idle : 0..IdleTimeout]

PoolTypeOK ==
    /\ entries \in Seq(Entry)
    /\ at \in [Clients -> {"idle", "lock", "connect", "using"}]
    /\ op \in [Clients -> {"get", "return", "cleanup"}]
    /\ addr \in [Clients -> Addrs]
    /\ reuse \in [Clients -> BOOLEAN]
    /\ LockTypeOK(Clients)

PoolInit ==
    /\ entries = <<>>
    /\ at = [c \in Clients |-> "idle"]
    /\ op = [c \in Clients |-> "get"]
    /\ addr \in [Clients -> Addrs]
    /\ reuse = [c \in Clients |-> FALSE]
    /\ LockInit

-----------------------------------------------------------------------------

Go(c, place) == at' = [at EXCEPT ![c] = place]

\* Client c calls a method; all three begin with lock().await.
Call(c, method) ==
    /\ Go(c, "lock")
    /\ op' = [op EXCEPT ![c] = method]
    /\ reuse' = [reuse EXCEPT ![c] = FALSE]
    /\ Lock(c)
    /\ UNCHANGED entries

GetConnection(c, a) ==
    /\ at[c] = "idle"
    /\ Call(c, "get")
    /\ addr' = [addr EXCEPT ![c] = a]

\* The stream is given up and its address handed back to the pool.
ReturnConnection(c) ==
    /\ at[c] = "using"
    /\ Call(c, "return")
    /\ UNCHANGED addr

CleanupExpired(c) ==
    /\ at[c] = "idle"
    /\ Call(c, "cleanup")
    /\ UNCHANGED addr

Fresh(e) == e.idle < IdleTimeout

\* connections.retain(..): the entries that have not expired, in their order.
Retained == Sublist(entries, {i \in DOMAIN entries : Fresh(entries[i])})

\* Ends the method: the guard is dropped.
Leave(c, place) ==
    /\ Go(c, place)
    /\ Unlock

\* Fault: the positions are searched before the expired entries are gone.
TakeEntryUnretained(c) ==
    LET found == {i \in DOMAIN entries : entries[i].addr = addr[c]}
    IN  /\ found # {}
        /\ entries' = RemoveAt(entries, CHOOSE i \in found : \A j \in found : i <= j)
        /\ Go(c, "connect")
        /\ reuse' = [reuse EXCEPT ![c] = TRUE]
        /\ UNCHANGED lockVars

\* get_connection finds an entry for the address, removes it and connects.
TakeEntry(c) ==
    LET kept  == Retained
        found == {i \in DOMAIN kept : kept[i].addr = addr[c]}
    IN  /\ found # {}
        /\ entries' = RemoveAt(kept, CHOOSE i \in found : \A j \in found : i <= j)
        /\ Go(c, "connect")
        /\ reuse' = [reuse EXCEPT ![c] = TRUE]
        /\ UNCHANGED lockVars

\* Fault: the guard is dropped before the connect, and taken again for the push.
NewConnectionUnlocked(c) ==
    /\ \A i \in DOMAIN Retained : Retained[i].addr # addr[c]
    /\ entries' = Retained
    /\ IF Len(Retained) < MaxConnections
       THEN Leave(c, "connect")
       ELSE Leave(c, "idle")
    /\ UNCHANGED reuse

\* It finds none: connects if there is room for an entry, else returns None.
NewConnection(c) ==
    /\ \A i \in DOMAIN Retained : Retained[i].addr # addr[c]
    /\ entries' = Retained
    /\ IF Len(Retained) < MaxConnections
       THEN Go(c, "connect") /\ UNCHANGED lockVars
       ELSE Leave(c, "idle")
    /\ UNCHANGED reuse

NewEntry(a) == [addr |-> a, idle |-> 0]

PushReturned(c) ==
    /\ entries' = IF Len(entries) < MaxConnections
                  THEN Append(entries, NewEntry(addr[c]))
                  ELSE entries
    /\ Leave(c, "idle")
    /\ UNCHANGED reuse

RemoveExpired(c) ==
    /\ entries' = Retained
    /\ Leave(c, "idle")
    /\ UNCHANGED reuse

\* lock().await returns: the method runs to its end, or to the connect.
Locked(c) ==
    /\ at[c] = "lock"
    /\ holder = c
    /\ \/ op[c] = "get" /\ (TakeEntry(c) \/ NewConnection(c))
       \/ op[c] = "return" /\ PushReturned(c)
       \/ op[c] = "cleanup" /\ RemoveExpired(c)
    /\ UNCHANGED <<op, addr>>

\* TcpStream::connect succeeds.
Connected(c) ==
    /\ at[c] = "connect"
    /\ entries' = IF reuse[c] THEN entries ELSE Append(entries, NewEntry(addr[c]))
    /\ Leave(c, "using")
    /\ UNCHANGED <<op, addr, reuse>>

\* Fault: a connect that fails is tried again, the guard still held.
ConnectFailsRetried(c) ==
    /\ at[c] = "connect"
    /\ Go(c, "lock")
    /\ UNCHANGED <<entries, op, addr, reuse, lockVars>>

ConnectFails(c) ==
    /\ at[c] = "connect"
    /\ Leave(c, "idle")
    /\ UNCHANGED <<entries, op, addr, reuse>>

\* The caller's future is dropped at an await; the entry it took from the list is gone.
DropCaller(c) ==
    /\ at[c] \in {"lock", "connect"}
    /\ Go(c, "idle")
    /\ DropLock(c)
    /\ UNCHANGED <<entries, op, addr, reuse>>

\* The stream is dropped without a call of return_connection.
Abandon(c) ==
    /\ at[c] = "using"
    /\ Go(c, "idle")
    /\ UNCHANGED <<entries, op, addr, reuse, lockVars>>

\* Time passes; ages beyond the timeout are not told apart.
Tick ==
    /\ entries' = [i \in DOMAIN entries |->
                      IF Fresh(entries[i]) THEN [entries[i] EXCEPT !.idle = @ + 1]
                                           ELSE entries[i]]
    /\ UNCHANGED <<at, op, addr, reuse, lockVars>>

PoolNext ==
    \/ \E c \in Clients :
          \/ \E a \in Addrs : GetConnection(c, a)
          \/ ReturnConnection(c) \/ CleanupExpired(c)
          \/ Locked(c)
          \/ Connected(c) \/ ConnectFails(c)
          \/ DropCaller(c) \/ Abandon(c)
    \/ Tick

PoolSpec == PoolInit /\ [][PoolNext]_poolVars

\* tokio polls a task that has been given the lock, and the kernel lets no connect hang for
\* ever.  Nothing makes a client call the pool or give its stream back.
PoolFairness ==
    \A c \in Clients :
        /\ WF_poolVars(Locked(c))
        /\ WF_poolVars(Connected(c) \/ ConnectFails(c))

FairPoolSpec == PoolSpec /\ PoolFairness

-----------------------------------------------------------------------------

\* The list never outgrows max_connections, although the room for a new entry is checked
\* before the connect is awaited and the entry is pushed after it, while other tasks return
\* connections (pool.rs:62-70, 82-91).
PoolBounded == Len(entries) <= MaxConnections

\* The lock is handed on and never left behind: the callers in lock().await or in a connect,
\* and nobody else, have it or wait for it, each once, however many of them are dropped
\* while they wait or connect (pool.rs:34, 52, 63).
LockHandedOn == LockKept({c \in Clients : at[c] \in {"lock", "connect"}})

\* A connection that was idle for idle_timeout is not reused, however long the caller had to
\* wait for the lock after it called get_connection, and of the others only the one that is
\* reused and the expired ones leave the list (pool.rs:36-48).
ReuseIsFresh ==
    [][\A c \in Clients : (at[c] = "lock" /\ at'[c] = "connect" /\ reuse'[c]) =>
          \E i \in DOMAIN entries :
             /\ entries[i].addr = addr[c]
             /\ Fresh(entries[i])
             /\ IsSublistAt(entries', entries, {j \in DOMAIN entries \ {i} : Fresh(entries[j])})
      ]_poolVars

\* Every call returns, although one task at a time holds the mutex across its connect and all
\* others queue behind it: no caller is overtaken for ever, and dropping a caller that waits
\* for the lock or has just been given it never leaves the lock behind (pool.rs:34).
CallsReturn ==
    \A c \in Clients : (at[c] = "lock") ~> (at[c] \in {"idle", "using"})
=============================================================================
