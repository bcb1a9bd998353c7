---------------------------- MODULE TokioMutex -----------------------------
(***************************************************************************)
(* tokio::sync::Mutex, external to the repository: a lock that is handed   *)
(* from its holder to the task that has waited longest.  The guard may be  *)
(* held across an await; dropping a future gives up its guard or its place *)
(* in the queue.                                                           *)
(***************************************************************************)
EXTENDS Sequences, SequencesExt

CONSTANT NoOne      \* the lock is free

VARIABLES
    holder,     \* the task that has the guard, or NoOne
    waiting     \* the tasks suspended in lock().await, oldest first

lockVars == <<holder, waiting>>

LockTypeOK(tasks) ==
    /\ holder \in tasks \cup {NoOne}
    /\ waiting \in Seq(tasks)

LockInit ==
    /\ holder = NoOne
    /\ waiting = <<>>

\* Task t calls lock().
Lock(t) ==
    IF holder = NoOne
    THEN holder' = t /\ UNCHANGED waiting
    ELSE waiting' = Append(waiting, t) /\ UNCHANGED holder

\* The guard is dropped.
Unlock ==
    IF waiting = <<>>
    THEN holder' = NoOne /\ UNCHANGED waiting
    ELSE holder' = Head(waiting) /\ waiting' = Tail(waiting)

\* The future of task t is dropped while it waits for the lock or holds it.
DropLock(t) ==
    \/ holder = t /\ Unlock
    \/ /\ holder # t
       /\ \E i \in DOMAIN waiting : waiting[i] = t /\ waiting' = RemoveAt(waiting, i)
       /\ UNCHANGED holder

\* tasks, those that have called lock() and neither dropped the guard nor been dropped, are
\* the holder and the queue, each of them once, and the lock is not free while one waits.
LockKept(tasks) ==
    /\ tasks = ({holder} \ {NoOne}) \cup ToSet(waiting)
    /\ holder \notin ToSet(waiting)
    /\ IsInjective(waiting)
    /\ holder = NoOne => waiting = <<>>
=============================================================================
