--------------------------- MODULE MCProxyClient ---------------------------
(***************************************************************************)
(* ProxyClient for TLC.  A call is made at most once, so the model ends    *)
(* when all of them have settled; any other state without a step would be  *)
(* a stuck call, and is reported as a deadlock.                            *)
(***************************************************************************)
EXTENDS ProxyClient

AllSettled ==
    /\ \A c \in Calls : stage[c] \in Settled
    /\ UNCHANGED callVars

MCNext == CallNext \/ AllSettled

MCSpec == CallInit /\ [][MCNext]_callVars

MCFairSpec == MCSpec /\ \A c \in Calls : CallFairness(c)
=============================================================================
