---------------------------- MODULE RateLimiter ----------------------------
(***************************************************************************)
(* RateLimitLayer (src/middleware/rate_limit.rs): one keyed limiter shared *)
(* by every request through an Arc.  The limiter itself is the governor    *)
(* crate, external to the repository and modelled as the token bucket the  *)
(* code configures: Quota::per_second(rps).allow_burst(burst) gives every  *)
(* key burst cells and replenishes one cell each 1/rps second, which is    *)
(* what a Replenish step stands for.  check_key is one atomic operation.   *)
(***************************************************************************)
EXTENDS Naturals

CONSTANTS
    BurstSize,      \* rate_limit.burst_size (u32)
    LimitKeys,      \* the keys check_key is called with
    MaxReplenish    \* bound on the number of replenishment intervals

ASSUME LimiterAssumption == BurstSize \in Nat /\ MaxReplenish \in Nat

VARIABLES
    cells,       \* cells[k]: cells left in the bucket of key k
    admitted,    \* admitted[k]: how often check_key(k) returned Ok
    intervals    \* replenishment intervals elapsed so far

limVars == <<cells, admitted, intervals>>

\* NonZeroU32::new(burst).unwrap_or(100)
Burst == IF BurstSize = 0 THEN 100 ELSE BurstSize

LimTypeOK ==
    /\ cells \in [LimitKeys -> 0..Burst]
    /\ admitted \in [LimitKeys -> Nat]
    /\ intervals \in Nat

\* Fault: allow_burst is given the default, whatever burst_size says.
LimInitDefaultBurst ==
    /\ cells = [k \in LimitKeys |-> 100]
    /\ admitted = [k \in LimitKeys |-> 0]
    /\ intervals = 0

LimInit ==
    /\ cells = [k \in LimitKeys |-> Burst]
    /\ admitted = [k \in LimitKeys |-> 0]
    /\ intervals = 0

\* check_key(k) = Ok(())
CheckKeyOk(k) ==
    /\ cells[k] > 0
    /\ cells' = [cells EXCEPT ![k] = @ - 1]
    /\ admitted' = [admitted EXCEPT ![k] = @ + 1]
    /\ UNCHANGED intervals

\* check_key(k) = Err(_)
CheckKeyErr(k) ==
    /\ cells[k] = 0
    /\ UNCHANGED limVars

Replenish ==
    /\ intervals < MaxReplenish
    /\ cells' = [k \in LimitKeys |-> IF cells[k] < Burst THEN cells[k] + 1 ELSE Burst]
    /\ intervals' = intervals + 1
    /\ UNCHANGED admitted

LimNext == Replenish \/ \E k \in LimitKeys : CheckKeyOk(k) \/ CheckKeyErr(k)

LimSpec == LimInit /\ [][LimNext]_limVars

-----------------------------------------------------------------------------

\* However the requests interleave with each other and with replenishment, a key is
\* admitted at most its burst plus one request per interval elapsed; what is left in the
\* bucket is already part of that allowance (RateLimitLayer::new, limiter.check_key).
QuotaRespected ==
    \A k \in LimitKeys : admitted[k] + cells[k] <= Burst + intervals
=============================================================================
