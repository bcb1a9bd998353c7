-------------------------- MODULE TokioMutexProofs -------------------------
(***************************************************************************)
(* The lock is handed on: whoever calls lock(), drops its guard or is      *)
(* dropped, the tasks that want the lock are its holder and its queue, each*)
(* once.  The modules that use the lock build on these lemmas.             *)
(***************************************************************************)
EXTENDS TokioMutex, ListProofs

-----------------------------------------------------------------------------

\* Nobody wants a new lock.
LEMMA LockInitKept == LockInit => LockKept({})
BY DEF LockInit, LockKept, ToSet, IsInjective

\* A task that calls lock() has it or waits for it.
LEMMA LockCalled ==
    ASSUME NEW T, NoOne \notin T, LockTypeOK(T), NEW W, LockKept(W),
           NEW t \in T, t \notin W, Lock(t)
    PROVE  LockTypeOK(T)' /\ LockKept(W \cup {t})'
<1> USE DEF LockTypeOK, LockKept
<1>1. CASE holder = NoOne
  BY <1>1 DEF Lock, ToSet, IsInjective
<1>2. CASE holder # NoOne
  <2> DEFINE n == Len(waiting)
  <2>1. holder' = holder /\ waiting' = Append(waiting, t)
    BY <1>2 DEF Lock
  <2>2. /\ waiting' \in Seq(T) /\ DOMAIN waiting' = 1..(n + 1) /\ DOMAIN waiting = 1..n
        /\ n \in Nat /\ waiting'[n + 1] = t /\ \A j \in 1..n : waiting'[j] = waiting[j]
    BY <2>1
  <2> HIDE DEF n
  <2>3. ToSet(waiting') = ToSet(waiting) \cup {t}
    BY <2>2 DEF ToSet
  <2>4. IsInjective(waiting')
    BY <2>2 DEF IsInjective, ToSet
  <2> QED
    BY <1>2, <2>1, <2>2, <2>3, <2>4
<1> QED
  BY <1>1, <1>2

\* A guard that is dropped goes to the task that waited longest.
LEMMA LockHandedOver ==
    ASSUME NEW T, NoOne \notin T, LockTypeOK(T), NEW W, LockKept(W),
           NEW t \in T, holder = t, Unlock
    PROVE  LockTypeOK(T)' /\ LockKept(W \ {t})'
<1> USE DEF LockTypeOK, LockKept
<1>1. CASE waiting = <<>>
  BY <1>1 DEF Unlock, ToSet, IsInjective
<1>2. CASE waiting # <<>>
  <2> DEFINE n == Len(waiting)
  <2>1. holder' = waiting[1] /\ waiting' = Tail(waiting)
    BY <1>2 DEF Unlock
  <2>2. /\ waiting' \in Seq(T) /\ DOMAIN waiting' = 1..(n - 1) /\ DOMAIN waiting = 1..n
        /\ n \in Nat /\ n >= 1 /\ \A j \in 1..(n - 1) : waiting'[j] = waiting[j + 1]
    BY <1>2, <2>1
  <2> HIDE DEF n
  <2>3. waiting[1] \in T /\ waiting[1] \in ToSet(waiting)
    BY <2>2 DEF ToSet
  <2>4. ToSet(waiting') = ToSet(waiting) \ {waiting[1]}
    <3>1. \A j \in 1..n : j # 1 => j - 1 \in 1..(n - 1) /\ waiting'[j - 1] = waiting[j]
      BY <2>2
    <3>2. \A j \in 1..(n - 1) : waiting'[j] \in ToSet(waiting) /\ waiting'[j] # waiting[1]
      BY <2>2 DEF ToSet, IsInjective
    <3>3. ASSUME NEW x \in ToSet(waiting), x # waiting[1] PROVE x \in ToSet(waiting')
      <4>1. PICK j \in 1..n : x = waiting[j]
        BY <2>2 DEF ToSet
      <4> QED
        BY <2>2, <3>1, <3>3, <4>1 DEF ToSet
    <3>4. ASSUME NEW x \in ToSet(waiting') PROVE x \in ToSet(waiting) /\ x # waiting[1]
      BY <2>2, <3>2 DEF ToSet
    <3> QED
      BY <3>3, <3>4
  <2>5. IsInjective(waiting')
    <3> SUFFICES ASSUME NEW j \in 1..(n - 1), NEW k \in 1..(n - 1), waiting'[j] = waiting'[k]
                 PROVE  j = k
      BY <2>2 DEF IsInjective
    <3>1. waiting[j + 1] = waiting[k + 1] /\ j + 1 \in 1..n /\ k + 1 \in 1..n
      BY <2>2
    <3>2. j + 1 = k + 1
      BY <2>2, <3>1 DEF IsInjective
    <3> QED
      BY <3>2
  <2> QED
    BY <2>1, <2>2, <2>3, <2>4, <2>5
<1> QED
  BY <1>1, <1>2

\* A future that is dropped leaves neither the lock nor its place in the queue behind.
LEMMA LockDropped ==
    ASSUME NEW T, NoOne \notin T, LockTypeOK(T), NEW W, LockKept(W),
           NEW t \in T, DropLock(t)
    PROVE  LockTypeOK(T)' /\ LockKept(W \ {t})'
<1>1. CASE holder = t
  BY <1>1, LockHandedOver DEF DropLock
<1>2. CASE holder # t
  <2>1. PICK i \in DOMAIN waiting : waiting[i] = t /\ waiting' = RemoveAt(waiting, i)
    BY <1>2 DEF DropLock
  <2>2. waiting' \in Seq(T) /\ IsInjective(waiting') /\ ToSet(waiting') = ToSet(waiting) \ {t}
    BY <2>1, RemoveAtPlaces, RemoveAtOnce DEF LockTypeOK, LockKept
  <2>3. holder' = holder /\ holder # NoOne
    BY <1>2, <2>1 DEF DropLock, LockKept
  <2> QED
    BY <1>2, <2>2, <2>3 DEF LockTypeOK, LockKept
<1> QED
  BY <1>1, <1>2

-----------------------------------------------------------------------------

\* The tasks that have the lock before the one at place i of a queue gets it.
Ahead(h, queue, i) == {h} \cup {queue[n] : n \in 1..(i - 1)}

\* Whom a waiting task has ahead of it, it had ahead of it before.
NobodyOvertakes ==
    \A i \in DOMAIN waiting, j \in DOMAIN waiting' :
        waiting'[j] = waiting[i] => Ahead(holder', waiting', j) \subseteq Ahead(holder, waiting, i)

\* A task that calls lock() gets it after the ones that wait.
LEMMA LockOvertakesNone ==
    ASSUME NEW T, LockTypeOK(T), NEW W, LockKept(W), NEW t, t \notin W, Lock(t)
    PROVE  NobodyOvertakes
<1> SUFFICES ASSUME NEW i \in DOMAIN waiting, NEW j \in DOMAIN waiting', waiting'[j] = waiting[i]
             PROVE  Ahead(holder', waiting', j) \subseteq Ahead(holder, waiting, i)
  BY DEF NobodyOvertakes
<1> DEFINE n == Len(waiting)
<1>1. waiting \in Seq(T) /\ n \in Nat /\ DOMAIN waiting = 1..n /\ i \in 1..n
  BY DEF LockTypeOK
<1>2. holder # NoOne
  BY <1>1 DEF LockKept
<1>3. holder' = holder /\ waiting' = Append(waiting, t)
  BY <1>2 DEF Lock
<1>4. DOMAIN waiting' = 1..(n + 1) /\ waiting'[n + 1] = t /\ \A m \in 1..n : waiting'[m] = waiting[m]
  BY <1>1, <1>3
<1>5. waiting[i] \in W
  BY <1>1 DEF LockKept, ToSet
<1> HIDE DEF n
<1>6. j \in 1..n
  BY <1>1, <1>4, <1>5
<1>7. i = j
  BY <1>1, <1>4, <1>6 DEF LockKept, IsInjective
<1> QED
  BY <1>1, <1>3, <1>4, <1>7 DEF Ahead

\* A guard that is dropped goes to the first of the queue.
LEMMA UnlockOvertakesNone ==
    ASSUME NEW T, LockTypeOK(T), NEW W, LockKept(W), Unlock
    PROVE  NobodyOvertakes
<1> SUFFICES ASSUME NEW i \in DOMAIN waiting, NEW j \in DOMAIN waiting', waiting'[j] = waiting[i]
             PROVE  Ahead(holder', waiting', j) \subseteq Ahead(holder, waiting, i)
  BY DEF NobodyOvertakes
<1> DEFINE n == Len(waiting)
<1>1. waiting \in Seq(T) /\ n \in Nat /\ DOMAIN waiting = 1..n /\ i \in 1..n
  BY DEF LockTypeOK
<1>2. holder' = waiting[1] /\ waiting' = Tail(waiting)
  BY <1>1 DEF Unlock
<1>3. DOMAIN waiting' = 1..(n - 1) /\ \A m \in 1..(n - 1) : waiting'[m] = waiting[m + 1]
  BY <1>1, <1>2
<1> HIDE DEF n
<1>4. j + 1 \in 1..n /\ waiting[j + 1] = waiting[i]
  BY <1>1, <1>3
<1>5. i = j + 1
  BY <1>1, <1>4 DEF LockKept, IsInjective
<1>6. \A m \in 1..(j - 1) : m + 1 \in 1..(i - 1) /\ waiting'[m] = waiting[m + 1]
  BY <1>1, <1>3, <1>4, <1>5
<1>7. 1 \in 1..(i - 1)
  BY <1>1, <1>3, <1>5
<1> QED
  BY <1>2, <1>6, <1>7 DEF Ahead

\* A task that is dropped only makes room.
LEMMA DropOvertakesNone ==
    ASSUME NEW T, LockTypeOK(T), NEW W, LockKept(W), NEW t, DropLock(t)
    PROVE  NobodyOvertakes
<1>1. CASE holder = t
  BY <1>1, UnlockOvertakesNone DEF DropLock
<1>2. CASE holder # t
  <2>1. PICK p \in DOMAIN waiting : waiting[p] = t /\ waiting' = RemoveAt(waiting, p)
    BY <1>2 DEF DropLock
  <2>2. holder' = holder
    BY <1>2 DEF DropLock
  <2> SUFFICES ASSUME NEW i \in DOMAIN waiting, NEW j \in DOMAIN waiting', waiting'[j] = waiting[i]
               PROVE  Ahead(holder', waiting', j) \subseteq Ahead(holder, waiting, i)
    BY DEF NobodyOvertakes
  <2> DEFINE n == Len(waiting)
             from(m) == IF m < p THEN m ELSE m + 1
  <2>3. waiting \in Seq(T) /\ n \in Nat /\ DOMAIN waiting = 1..n /\ p \in 1..n /\ i \in 1..n
    BY <2>1 DEF LockTypeOK
  <2>4. /\ DOMAIN waiting' = 1..(n - 1)
        /\ \A m \in 1..(n - 1) : waiting'[m] = waiting[from(m)]
    <3>1. /\ waiting' \in Seq(T) /\ Len(waiting') = n - 1
          /\ \A m \in 1..(n - 1) : waiting'[m] = IF m < p THEN waiting[m] ELSE waiting[m + 1]
      BY <2>1, <2>3, RemoveAtPlaces
    <3>2. DOMAIN waiting' = 1..(n - 1)
      BY <3>1
    <3> QED
      BY <3>1, <3>2
  <2> HIDE DEF n
  <2>5. from(j) \in 1..n /\ waiting[from(j)] = waiting[i]
    BY <2>3, <2>4
  <2>6. i = from(j)
    BY <2>3, <2>5 DEF LockKept, IsInjective
  <2>7. \A m \in 1..(j - 1) : from(m) \in 1..(i - 1) /\ waiting'[m] = waiting[from(m)]
    BY <2>3, <2>4, <2>6
  <2> QED
    BY <2>2, <2>7 DEF Ahead
<1> QED
  BY <1>1, <1>2

\* Nothing happens to the lock.
LEMMA RestOvertakesNone ==
    ASSUME NEW T, LockTypeOK(T), NEW W, LockKept(W), UNCHANGED lockVars
    PROVE  NobodyOvertakes
<1>1. \A i \in DOMAIN waiting, j \in DOMAIN waiting : waiting[j] = waiting[i] => i = j
  BY DEF LockKept, IsInjective
<1> QED
  BY <1>1 DEF NobodyOvertakes, lockVars
=============================================================================
