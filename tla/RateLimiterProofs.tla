------------------------- MODULE RateLimiterProofs -------------------------
(***************************************************************************)
(* The limiter's invariants for every burst, key set and number of         *)
(* replenishment intervals.                                                *)
(***************************************************************************)
EXTENDS RateLimiter, TLAPS

\* The burst the limiter is built with is a positive number, whatever burst_size is
\* configured (rate_limit.rs:30-32).
LEMMA BurstPositive == Burst \in Nat /\ Burst > 0
BY LimiterAssumption DEF Burst

LimInv == LimTypeOK /\ QuotaRespected

\* LimInv holds of a new limiter.
LEMMA LimInitInv == LimInit => LimInv
BY BurstPositive DEF LimInit, LimInv, LimTypeOK, QuotaRespected

\* LimInv is inductive: every step of the limiter keeps it.
LEMMA LimStepInv == LimInv /\ [LimNext]_limVars => LimInv'
<1> SUFFICES ASSUME LimInv, [LimNext]_limVars
             PROVE  LimInv'
  OBVIOUS
<1> USE BurstPositive DEF LimInv, LimTypeOK, QuotaRespected
<1>1. CASE Replenish
  BY <1>1 DEF Replenish
<1>2. ASSUME NEW k \in LimitKeys, CheckKeyOk(k)
      PROVE  LimInv'
  BY <1>2 DEF CheckKeyOk
<1>3. ASSUME NEW k \in LimitKeys, CheckKeyErr(k)
      PROVE  LimInv'
  BY <1>3 DEF CheckKeyErr, limVars
<1>4. CASE UNCHANGED limVars
  BY <1>4 DEF limVars
<1> QED
  BY <1>1, <1>2, <1>3, <1>4 DEF LimNext

\* A bucket never holds more than the burst nor less than nothing (LimTypeOK), for every
\* configuration of the limiter.
THEOREM LimTypeCorrect == LimSpec => []LimTypeOK
<1>1. LimInv => LimTypeOK
  BY DEF LimInv
<1> QED
  BY <1>1, LimInitInv, LimStepInv, PTL DEF LimSpec

\* For every burst size and every interleaving, check_key admits a key at most burst plus
\* one times per elapsed interval (QuotaRespected).
THEOREM LimQuota == LimSpec => []QuotaRespected
<1>1. LimInv => QuotaRespected
  BY DEF LimInv
<1> QED
  BY <1>1, LimInitInv, LimStepInv, PTL DEF LimSpec

-----------------------------------------------------------------------------
(* The quota of any stretch of time, not only of the time since the start. *)

\* What key k has been admitted, and may still be at once, since a moment when it had been
\* admitted a times and i intervals had elapsed.
SinceThen(k, a, i) == admitted[k] + cells[k] + i <= a + Burst + intervals

\* SinceThen holds at that moment: a bucket holds no more than the burst.
LEMMA SinceThenStarts ==
    ASSUME LimInv, NEW k \in LimitKeys, NEW a \in Nat, NEW i \in Nat, admitted[k] = a, intervals = i
    PROVE  SinceThen(k, a, i)
BY BurstPositive DEF LimInv, LimTypeOK, SinceThen

\* Every step of the limiter keeps it.
LEMMA SinceThenKept ==
    ASSUME LimInv, NEW k \in LimitKeys, NEW a \in Nat, NEW i \in Nat, SinceThen(k, a, i),
           [LimNext]_limVars
    PROVE  SinceThen(k, a, i)'
<1> USE BurstPositive DEF LimInv, LimTypeOK, SinceThen
<1>1. CASE Replenish
  BY <1>1 DEF Replenish
<1>2. ASSUME NEW l \in LimitKeys, CheckKeyOk(l)
      PROVE  SinceThen(k, a, i)'
  BY <1>2 DEF CheckKeyOk
<1>3. ASSUME NEW l \in LimitKeys, CheckKeyErr(l)
      PROVE  SinceThen(k, a, i)'
  BY <1>3 DEF CheckKeyErr, limVars
<1>4. CASE UNCHANGED limVars
  BY <1>4 DEF limVars
<1> QED
  BY <1>1, <1>2, <1>3, <1>4 DEF LimNext

\* It bounds what the key was admitted since.
LEMMA SinceThenBounds ==
    ASSUME LimInv, NEW k \in LimitKeys, NEW a \in Nat, NEW i \in Nat, SinceThen(k, a, i)
    PROVE  admitted[k] + i <= a + Burst + intervals
BY BurstPositive DEF LimInv, LimTypeOK, SinceThen

\* The quota holds of every window: from any moment on (a admissions and i intervals so far)
\* check_key admits a key at most the burst plus one time per interval that elapses, however
\* long it was idle before; unused allowance does not pile up beyond the burst
\* (Quota::per_second(rps).allow_burst(burst)).
THEOREM LimWindow ==
    ASSUME NEW k \in LimitKeys, NEW a \in Nat, NEW i \in Nat
    PROVE  LimSpec => [](admitted[k] = a /\ intervals = i =>
                             [](admitted[k] + i <= a + Burst + intervals))
<1>1. LimInv /\ admitted[k] = a /\ intervals = i => SinceThen(k, a, i)
  BY SinceThenStarts
<1>2. LimInv /\ SinceThen(k, a, i) /\ [LimNext]_limVars => SinceThen(k, a, i)'
  BY SinceThenKept
<1>3. LimInv /\ SinceThen(k, a, i) => admitted[k] + i <= a + Burst + intervals
  BY SinceThenBounds
<1> QED
  BY <1>1, <1>2, <1>3, LimInitInv, LimStepInv, PTL DEF LimSpec
=============================================================================
