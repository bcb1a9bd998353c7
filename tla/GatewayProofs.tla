--------------------------- MODULE GatewayProofs ---------------------------
(***************************************************************************)
(* The pipeline's invariants for every configuration, every set of         *)
(* requests and every interleaving.  Safety of the pipeline rests on the   *)
(* two components it shares: each of its steps is a step of the limiter    *)
(* and of the proxy client, or leaves them alone, so their invariants hold *)
(* here too.  From the same invariant follow what the gateway shows to the *)
(* outside: its counters, and the contract of the module GatewayContract.  *)
(***************************************************************************)
EXTENDS GatewayRefinement, RateLimiterProofs, ListProofs

-----------------------------------------------------------------------------
(* The proxy client.  Its invariants hold for every number of calls, every *)
(* max_attempts and every behaviour of the upstreams.  They are not        *)
(* inductive by themselves: a bound on the executions needs to know that   *)
(* an attempt still on the wire was not executed yet (Accounted), and that *)
(* a call in backoff has attempts left (Resumable).                        *)

\* The part of AttemptsAccounted that concerns one call.
Accounted(c) ==
    /\ IsFiniteSet(wire[c])
    /\ wire[c] \subseteq 1..attempt[c]
    /\ executed[c] + Cardinality(wire[c]) = attempt[c]
    /\ attempt[c] <= plan[c].max

\* What the loop relies on when it goes on from an await.
Resumable(c) ==
    /\ stage[c] \in {"none", "body"} => attempt[c] = 0
    /\ stage[c] = "backoff" => attempt[c] < plan[c].max
    /\ stage[c] \in {"none", "body", "backoff"} => reply[c] = NoReply

\* Where the answer at hand and the error of a call come from.
Outcome(c) ==
    /\ reply[c] # NoReply => executed[c] >= 1 /\ attempt[c] \notin wire[c]
    /\ stage[c] \in {"read", "ok"} =>
          reply[c] # NoReply /\ (IsServerError(reply[c]) => attempt[c] = plan[c].max)
    /\ error[c] # "None" => stage[c] = "failed"
    /\ error[c] = "UpstreamUnavailable" => attempt[c] = 0

CallOK(c) == Accounted(c) /\ Resumable(c) /\ Outcome(c)

\* The inductive invariant.
CallInv ==
    /\ CallTypeOK
    /\ \A c \in Calls : CallOK(c)

\* A new client satisfies CallInv.
LEMMA CallInitInv == CallInit => CallInv
<1> SUFFICES ASSUME CallInit PROVE CallInv
  OBVIOUS
<1>1. CallTypeOK
  BY DEF CallInit, CallTypeOK, Stages, Errors, NoReply
<1>2. ASSUME NEW c \in Calls PROVE CallOK(c)
  BY FS_EmptySet DEF CallInit, CallOK, Accounted, Resumable, Outcome, NoReply
<1> QED
  BY <1>1, <1>2 DEF CallInv

\* Every step of a call keeps the types of the variables.
LEMMA CallStepType == CallTypeOK /\ CallNext => CallTypeOK'
<1> SUFFICES ASSUME CallTypeOK, CallNext PROVE CallTypeOK'
  OBVIOUS
<1> PICK c \in Calls :
        \/ \E max \in Budgets, timed \in BOOLEAN : StartCall(c, max, timed)
        \/ Progress(c)
        \/ DropCall(c)
        \/ \E n \in wire[c], status \in Statuses : Execute(c, n, status)
  BY DEF CallNext
<1> USE ProxyAssumption DEF CallTypeOK, Stages, Waiting, Settled, Errors, NoReply
<1>1. ASSUME NEW max \in Budgets, NEW timed \in BOOLEAN, StartCall(c, max, timed)
      PROVE  CallTypeOK'
  BY <1>1 DEF StartCall
<1>2. CASE CollectBody(c)
  BY <1>2 DEF CollectBody, Send
<1>3. CASE NoAttempts(c)
  BY <1>3 DEF NoAttempts, Fail
<1>4. CASE CollectBodyError(c)
  BY <1>4 DEF CollectBodyError, Fail
<1>5. CASE RetryAfterReply(c)
  BY <1>5 DEF RetryAfterReply
<1>6. CASE AcceptReply(c)
  BY <1>6 DEF AcceptReply
<1>7. CASE BackoffElapsed(c)
  BY <1>7 DEF BackoffElapsed, Send
<1>8. CASE ReadBody(c)
  BY <1>8 DEF ReadBody
<1>9. ASSUME NEW cause \in Causes, RetryAfterError(c, cause)
      PROVE  CallTypeOK'
  BY <1>9 DEF RetryAfterError
<1>10. ASSUME NEW cause \in Causes, GiveUp(c, cause)
       PROVE  CallTypeOK'
  BY <1>10 DEF GiveUp, Fail
<1>11. ASSUME NEW cause \in Causes, ReadBodyError(c, cause)
       PROVE  CallTypeOK'
  BY <1>11 DEF ReadBodyError, Fail
<1>12. CASE DropCall(c)
  BY <1>12 DEF DropCall
<1>13. ASSUME NEW n \in wire[c], NEW status \in Statuses, Execute(c, n, status)
       PROVE  CallTypeOK'
  BY <1>13 DEF Execute
<1> QED
  BY <1>1, <1>2, <1>3, <1>4, <1>5, <1>6, <1>7, <1>8, <1>9, <1>10, <1>11, <1>12, <1>13
     DEF Progress

\* A call whose own variables a step leaves alone stays well formed.
LEMMA OtherCallOK ==
    ASSUME NEW d \in Calls, CallOK(d),
           stage'[d] = stage[d], plan'[d] = plan[d], attempt'[d] = attempt[d],
           reply'[d] = reply[d], error'[d] = error[d], wire'[d] = wire[d],
           executed'[d] = executed[d]
    PROVE  CallOK(d)'
BY DEF CallOK, Accounted, Resumable, Outcome

\* Sending the next attempt adds one attempt to the wire.
LEMMA SendOK ==
    ASSUME NEW c \in Calls, CallTypeOK, CallOK(c), reply[c] = NoReply, error[c] = "None",
           attempt[c] < plan[c].max, Send(c, attempt[c] + 1),
           UNCHANGED <<plan, reply, error, executed>>
    PROVE  CallOK(c)'
<1> DEFINE n == attempt[c] + 1
<1>1. /\ attempt'[c] = n /\ wire'[c] = wire[c] \cup {n} /\ stage'[c] = "await"
      /\ plan'[c] = plan[c] /\ reply'[c] = reply[c] /\ error'[c] = error[c]
      /\ executed'[c] = executed[c]
  BY DEF Send, CallTypeOK
<1>2. attempt[c] \in Nat /\ executed[c] \in Nat /\ plan[c].max \in Nat
  BY DEF CallTypeOK
<1>3. n \notin wire[c]
  BY <1>2 DEF CallOK, Accounted
<1>4. IsFiniteSet(wire'[c]) /\ Cardinality(wire'[c]) = Cardinality(wire[c]) + 1
  <2> HIDE DEF n
  <2>1. IsFiniteSet(wire[c])
    BY DEF CallOK, Accounted
  <2>2. /\ IsFiniteSet(wire[c] \cup {n})
        /\ Cardinality(wire[c] \cup {n}) = Cardinality(wire[c]) + 1
    BY <1>3, <2>1, FS_AddElement
  <2> QED
    BY <1>1, <2>2
<1>5. Cardinality(wire[c]) \in Nat
  BY FS_CardinalityType DEF CallOK, Accounted
<1>6. Accounted(c)'
  BY <1>1, <1>2, <1>4, <1>5 DEF CallOK, Accounted
<1>7. Resumable(c)'
  BY <1>1 DEF Resumable
<1>8. Outcome(c)'
  BY <1>1 DEF Outcome
<1> QED
  BY <1>6, <1>7, <1>8 DEF CallOK

\* An execution moves one attempt from the wire to the count of executions.
LEMMA ExecuteOK ==
    ASSUME NEW c \in Calls, CallTypeOK, CallOK(c), NEW n \in wire[c], NEW status \in Statuses,
           Execute(c, n, status)
    PROVE  CallOK(c)'
<1>1. /\ attempt'[c] = attempt[c] /\ wire'[c] = wire[c] \ {n} /\ stage'[c] = stage[c]
      /\ plan'[c] = plan[c] /\ error'[c] = error[c] /\ executed'[c] = executed[c] + 1
      /\ reply'[c] = IF stage[c] = "await" /\ attempt[c] = n THEN status ELSE reply[c]
  BY DEF Execute, CallTypeOK
<1>2. attempt[c] \in Nat /\ executed[c] \in Nat /\ plan[c].max \in Nat
  BY DEF CallTypeOK
<1>3. IsFiniteSet(wire'[c]) /\ Cardinality(wire'[c]) = Cardinality(wire[c]) - 1
  <2>1. IsFiniteSet(wire[c])
    BY DEF CallOK, Accounted
  <2>2. /\ IsFiniteSet(wire[c] \ {n})
        /\ Cardinality(wire[c] \ {n}) = Cardinality(wire[c]) - 1
    BY <2>1, FS_RemoveElement
  <2> QED
    BY <1>1, <2>2
<1>4. Cardinality(wire[c]) \in Nat
  BY FS_CardinalityType DEF CallOK, Accounted
<1>5. Accounted(c)'
  BY <1>1, <1>2, <1>3, <1>4 DEF CallOK, Accounted
<1>6. Resumable(c)'
  BY <1>1 DEF CallOK, Resumable
<1>7. Outcome(c)'
  BY <1>1, <1>2 DEF CallOK, Outcome
<1> QED
  BY <1>5, <1>6, <1>7 DEF CallOK

\* A server error is accepted only from the last attempt.
LEMMA AcceptedIsLast ==
    ASSUME NEW c \in Calls, CallTypeOK, Accounted(c), AcceptReply(c)
    PROVE  IsServerError(reply[c]) => attempt[c] = plan[c].max
<1>1. attempt[c] \in Nat /\ plan[c].max \in Nat
  BY DEF CallTypeOK
<1>2. attempt[c] <= plan[c].max
  BY DEF Accounted
<1>3. IsServerError(reply[c]) => ~ (attempt[c] < plan[c].max)
  BY Zenon DEF AcceptReply
<1> QED
  BY <1>1, <1>2, <1>3 DEF IsServerError

\* Every step of the client keeps CallInv.
LEMMA CallStepInv == CallInv /\ [CallNext]_callVars => CallInv'
<1> SUFFICES ASSUME CallInv, [CallNext]_callVars PROVE CallInv'
  OBVIOUS
<1>1. CASE UNCHANGED callVars
  <2>1. CallTypeOK'
    BY <1>1 DEF CallInv, CallTypeOK, callVars
  <2>2. ASSUME NEW d \in Calls PROVE CallOK(d)'
    BY <1>1, OtherCallOK DEF CallInv, callVars
  <2> QED
    BY <2>1, <2>2 DEF CallInv
<1>2. CASE CallNext
  <2>type. CallTypeOK /\ CallTypeOK'
    BY <1>2, CallStepType DEF CallInv
  <2>all. \A d \in Calls : CallOK(d)
    BY DEF CallInv
  <2> PICK c \in Calls :
          \/ \E max \in Budgets, timed \in BOOLEAN : StartCall(c, max, timed)
          \/ Progress(c)
          \/ DropCall(c)
          \/ \E n \in wire[c], status \in Statuses : Execute(c, n, status)
    BY <1>2 DEF CallNext
  <2>other. ASSUME NEW d \in Calls, d # c PROVE CallOK(d)'
    <3>1. /\ stage'[d] = stage[d] /\ plan'[d] = plan[d] /\ attempt'[d] = attempt[d]
          /\ reply'[d] = reply[d] /\ error'[d] = error[d] /\ wire'[d] = wire[d]
          /\ executed'[d] = executed[d]
      BY <2>type, <2>other
         DEF CallTypeOK, Progress, StartCall, CollectBody, NoAttempts, CollectBodyError,
             RetryAfterReply, AcceptReply, BackoffElapsed, ReadBody, RetryAfterError, GiveUp,
             ReadBodyError, DropCall, Execute, Send, Fail
    <3> QED
      BY <2>all, <3>1, OtherCallOK
  <2>self. CallOK(c)'
    <3> USE <2>type, <2>all DEF CallTypeOK
    <3>1. ASSUME NEW max \in Budgets, NEW timed \in BOOLEAN, StartCall(c, max, timed)
          PROVE  CallOK(c)'
      BY <3>1, ProxyAssumption DEF StartCall, CallOK, Accounted, Resumable, Outcome
    <3>2. CASE CollectBody(c)
      <4>1. reply[c] = NoReply /\ error[c] = "None"
        BY <3>2 DEF CollectBody, CallOK, Resumable, Outcome
      <4>2. attempt[c] + 1 = 1 /\ attempt[c] < plan[c].max
        BY <3>2 DEF CollectBody, CallOK, Resumable
      <4>3. Send(c, attempt[c] + 1) /\ UNCHANGED <<plan, reply, error, executed>>
        BY <3>2, <4>2 DEF CollectBody, Send
      <4> QED
        <5> HIDE DEF CallTypeOK
        <5> QED
          BY <2>type, <2>all, <4>1, <4>2, <4>3, SendOK
    <3>3. CASE NoAttempts(c)
      BY <3>3 DEF NoAttempts, Fail, CallOK, Accounted, Resumable, Outcome
    <3>4. CASE CollectBodyError(c)
      BY <3>4 DEF CollectBodyError, Fail, CallOK, Accounted, Resumable, Outcome
    <3>5. CASE RetryAfterReply(c)
      BY <3>5 DEF RetryAfterReply, CallOK, Accounted, Resumable, Outcome
    <3>6. CASE AcceptReply(c)
      <4>1. IsServerError(reply[c]) => attempt[c] = plan[c].max
        BY <3>6, AcceptedIsLast DEF CallOK
      <4> QED
        BY <3>6, <4>1 DEF AcceptReply, CallOK, Accounted, Resumable, Outcome, IsServerError
    <3>7. CASE BackoffElapsed(c)
      <4>1. attempt[c] < plan[c].max /\ reply[c] = NoReply /\ error[c] = "None"
        BY <3>7 DEF BackoffElapsed, CallOK, Resumable, Outcome
      <4> QED
        BY <3>7, <4>1, SendOK DEF BackoffElapsed
    <3>8. CASE ReadBody(c)
      BY <3>8 DEF ReadBody, CallOK, Accounted, Resumable, Outcome
    <3>9. ASSUME NEW cause \in Causes, RetryAfterError(c, cause)
          PROVE  CallOK(c)'
      BY <3>9 DEF RetryAfterError, CallOK, Accounted, Resumable, Outcome
    <3>10. ASSUME NEW cause \in Causes, GiveUp(c, cause)
           PROVE  CallOK(c)'
      BY <3>10 DEF GiveUp, Fail, CallOK, Accounted, Resumable, Outcome
    <3>11. ASSUME NEW cause \in Causes, ReadBodyError(c, cause)
           PROVE  CallOK(c)'
      BY <3>11 DEF ReadBodyError, Fail, CallOK, Accounted, Resumable, Outcome
    <3>12. CASE DropCall(c)
      BY <3>12 DEF DropCall, Waiting, CallOK, Accounted, Resumable, Outcome
    <3>13. ASSUME NEW n \in wire[c], NEW status \in Statuses, Execute(c, n, status)
           PROVE  CallOK(c)'
      BY <3>13, ExecuteOK
    <3> QED
      BY <3>1, <3>2, <3>3, <3>4, <3>5, <3>6, <3>7, <3>8, <3>9, <3>10, <3>11, <3>12, <3>13
         DEF Progress
  <2> QED
    BY <2>type, <2>self, <2>other DEF CallInv
<1> QED
  BY <1>1, <1>2

-----------------------------------------------------------------------------

\* CallInv holds in every reachable state.
THEOREM CallInvariant == CallSpec => []CallInv
BY CallInitInv, CallStepInv, PTL DEF CallSpec

\* The stage, reply and error of every call stay among those proxy() has (CallTypeOK).
THEOREM CallTypeCorrect == CallSpec => []CallTypeOK
<1>1. CallInv => CallTypeOK
  BY DEF CallInv
<1> QED
  BY <1>1, CallInvariant, PTL

\* No attempt is lost, executed twice or made beyond the budget, for every max_attempts,
\* every number of concurrent calls and every timing of the upstreams (AttemptsAccounted).
THEOREM CallsAccounted == CallSpec => []AttemptsAccounted
<1>1. CallInv => AttemptsAccounted
  BY DEF CallInv, CallOK, Accounted, AttemptsAccounted
<1> QED
  BY <1>1, CallInvariant, PTL

\* The upstream executes a request at most max_attempts times (ExecutionsBounded).
THEOREM CallsBounded == CallSpec => []ExecutionsBounded
<1>1. CallInv => ExecutionsBounded
  <2> SUFFICES ASSUME CallInv, NEW c \in Calls PROVE executed[c] <= plan[c].max
    BY DEF ExecutionsBounded
  <2>1. Cardinality(wire[c]) \in Nat
    BY FS_CardinalityType DEF CallInv, CallOK, Accounted
  <2> QED
    BY <2>1 DEF CallInv, CallOK, CallTypeOK, Accounted
<1> QED
  BY <1>1, CallInvariant, PTL

\* A relayed response is the upstream's answer to the last attempt, and a relayed server
\* error means that no attempt was left (RelayedIsLastAttempt).
THEOREM CallsRelayLastAttempt == CallSpec => []RelayedIsLastAttempt
<1>1. CallInv => RelayedIsLastAttempt
  BY DEF CallInv, CallOK, Outcome, RelayedIsLastAttempt
<1> QED
  BY <1>1, CallInvariant, PTL

\* UpstreamUnavailable is reported only for requests that were never sent
\* (UnavailableMeansNeverSent).
THEOREM CallsUnavailable == CallSpec => []UnavailableMeansNeverSent
<1>1. CallInv => UnavailableMeansNeverSent
  <2> SUFFICES ASSUME CallInv, NEW c \in Calls, error[c] = "UpstreamUnavailable"
               PROVE  executed[c] = 0 /\ wire[c] = {}
    BY DEF UnavailableMeansNeverSent
  <2>1. attempt[c] = 0 /\ wire[c] \subseteq 1..0 /\ IsFiniteSet(wire[c])
    BY DEF CallInv, CallOK, Outcome, Accounted
  <2>2. wire[c] = {}
    BY <2>1
  <2>3. Cardinality(wire[c]) = 0
    BY <2>2, FS_EmptySet
  <2>4. executed[c] \in Nat /\ executed[c] + Cardinality(wire[c]) = attempt[c]
    BY DEF CallInv, CallOK, CallTypeOK, Accounted
  <2> QED
    BY <2>1, <2>2, <2>3, <2>4
<1> QED
  BY <1>1, CallInvariant, PTL

\* The outcome of a settled call is final (SettledIsFinal).
THEOREM CallsFinal == CallSpec => SettledIsFinal
<1>1. CallInv /\ [CallNext]_callVars =>
        [\A c \in Calls : stage[c] \in Settled =>
            /\ stage'[c] = stage[c]
            /\ reply'[c] = reply[c]
            /\ error'[c] = error[c]]_callVars
  <2> SUFFICES ASSUME CallTypeOK, CallNext, NEW d \in Calls, stage[d] \in Settled
               PROVE  stage'[d] = stage[d] /\ reply'[d] = reply[d] /\ error'[d] = error[d]
    BY DEF CallInv
  <2>1. stage[d] \notin {"none", "body", "await", "backoff", "read"}
    BY DEF Settled
  <2> QED
    BY <2>1 DEF CallNext, CallTypeOK, Progress, StartCall, CollectBody, NoAttempts,
        CollectBodyError, RetryAfterReply, AcceptReply, BackoffElapsed, ReadBody,
        RetryAfterError, GiveUp, ReadBodyError, DropCall, Waiting, Execute, Send, Fail
<1> QED
  BY <1>1, CallInvariant, PTL DEF CallSpec, SettledIsFinal

-----------------------------------------------------------------------------
(* The retry loop runs down: the safety half of TimedCallsSettle.          *)

\* How many more steps call c may take, whatever the upstream does.
StepsLeft(c) ==
    CASE stage[c] = "body"    -> 2 * plan[c].max + 1
      [] stage[c] = "await"   -> 2 * (plan[c].max - attempt[c]) + 2
      [] stage[c] = "backoff" -> 2 * (plan[c].max - attempt[c]) + 1
      [] stage[c] = "read"    -> 1
      [] OTHER                -> 0

\* A step of the call c itself, which has been made.
OneStepLess(c) ==
    /\ stage[c] # "none" /\ stage'[c] # "none"
    /\ plan'[c] = plan[c]
    /\ StepsLeft(c)' < StepsLeft(c)

\* What a step does to call c: nothing, it starts it, or it takes one of the steps left.
RunsDown(c) ==
    \/ UNCHANGED <<stage[c], plan[c], attempt[c]>>
    \/ stage[c] = "none" /\ stage'[c] = "body" /\ StepsLeft(c)' = 2 * plan'[c].max + 1
    \/ OneStepLess(c)

\* The steps left are a number: attempts never exceed max_attempts.
LEMMA StepsLeftType ==
    ASSUME CallInv, NEW c \in Calls
    PROVE  StepsLeft(c) \in Nat /\ (stage[c] \in Waiting => StepsLeft(c) > 0)
<1>1. /\ plan[c].max \in Nat /\ attempt[c] \in Nat /\ attempt[c] <= plan[c].max
  BY DEF CallInv, CallTypeOK, CallOK, Accounted
<1>2. 2 * (plan[c].max - attempt[c]) \in Nat
  BY <1>1
<1> QED
  BY <1>1, <1>2 DEF StepsLeft, Waiting

\* A step of a call takes one of its steps left.
LEMMA CallRunsDown ==
    ASSUME CallInv, NEW c \in Calls, Progress(c) \/ DropCall(c)
    PROVE  OneStepLess(c)
<1>1. /\ plan[c].max \in Nat /\ attempt[c] \in Nat /\ attempt[c] <= plan[c].max
      /\ stage \in [Calls -> Stages] /\ attempt \in [Calls -> Nat]
  BY DEF CallInv, CallTypeOK, CallOK, Accounted
<1>2. CASE CollectBody(c)
  BY <1>1, <1>2 DEF CollectBody, Send, StepsLeft, OneStepLess
<1>3. CASE RetryAfterReply(c) \/ AcceptReply(c)
  BY <1>1, <1>3 DEF RetryAfterReply, AcceptReply, StepsLeft, OneStepLess
<1>4. CASE BackoffElapsed(c)
  <2>1. attempt[c] < plan[c].max
    BY <1>4 DEF BackoffElapsed, CallInv, CallOK, Resumable
  <2> QED
    BY <1>1, <1>4, <2>1 DEF BackoffElapsed, Send, StepsLeft, OneStepLess
<1>5. ASSUME NEW cause \in Causes, RetryAfterError(c, cause) PROVE OneStepLess(c)
  BY <1>1, <1>5 DEF RetryAfterError, StepsLeft, OneStepLess
<1>6. ASSUME stage[c] \in Waiting, stage'[c] \in Settled, plan' = plan PROVE OneStepLess(c)
  <2>1. StepsLeft(c) \in Nat /\ StepsLeft(c) > 0
    BY <1>6, StepsLeftType
  <2>2. StepsLeft(c)' = 0 /\ stage[c] # "none" /\ stage'[c] # "none"
    BY <1>6 DEF StepsLeft, Settled, Waiting
  <2> QED
    BY <1>6, <2>1, <2>2 DEF OneStepLess
<1>7. CASE NoAttempts(c) \/ CollectBodyError(c) \/ ReadBody(c) \/ DropCall(c)
  BY <1>1, <1>6, <1>7 DEF NoAttempts, CollectBodyError, ReadBody, DropCall, Fail, Waiting, Settled
<1>8. ASSUME NEW cause \in Causes, GiveUp(c, cause) \/ ReadBodyError(c, cause)
      PROVE  OneStepLess(c)
  BY <1>1, <1>6, <1>8 DEF GiveUp, ReadBodyError, Fail, Waiting, Settled
<1> QED
  BY <1>2, <1>3, <1>4, <1>5, <1>7, <1>8 DEF Progress

\* Every step of the client leaves a call alone, starts it or runs it down.
LEMMA StepRunsDown ==
    ASSUME CallInv, [CallNext]_callVars, NEW d \in Calls
    PROVE  RunsDown(d)
<1>1. CASE UNCHANGED callVars
  BY <1>1 DEF callVars, RunsDown
<1>2. CASE CallNext
  <2>0. CallTypeOK
    BY DEF CallInv
  <2>1. PICK c \in Calls :
          \/ \E max \in Budgets, timed \in BOOLEAN : StartCall(c, max, timed)
          \/ Progress(c)
          \/ DropCall(c)
          \/ \E n \in wire[c], status \in Statuses : Execute(c, n, status)
    BY <1>2 DEF CallNext
  <2>2. CASE d # c
    BY <2>0, <2>1, <2>2
       DEF RunsDown, CallTypeOK, Progress, StartCall, CollectBody, NoAttempts, CollectBodyError,
           RetryAfterReply, AcceptReply, BackoffElapsed, ReadBody, RetryAfterError, GiveUp,
           ReadBodyError, DropCall, Execute, Send, Fail
  <2>3. CASE d = c /\ (Progress(c) \/ DropCall(c))
    BY <2>3, CallRunsDown DEF RunsDown
  <2>4. ASSUME NEW max \in Budgets, NEW timed \in BOOLEAN, StartCall(d, max, timed)
        PROVE  RunsDown(d)
    BY <2>0, <2>4 DEF StartCall, RunsDown, CallTypeOK, StepsLeft
  <2>5. ASSUME NEW n \in wire[d], NEW status \in Statuses, Execute(d, n, status)
        PROVE  RunsDown(d)
    BY <2>5 DEF Execute, RunsDown
  <2> QED
    BY <2>1, <2>2, <2>3, <2>4, <2>5
<1> QED
  BY <1>1, <1>2

\* Once started, a call takes at most 2 * max_attempts + 1 steps of its own, however often
\* the upstream fails, times out or answers late: every step lowers a number that starts
\* there, so nothing keeps the loop going for ever but a step that is never taken
\* (proxy.rs:139-175).
THEOREM CallsRunDown ==
    CallSpec => /\ [](\A c \in Calls : StepsLeft(c) \in Nat)
                /\ [][\A c \in Calls : RunsDown(c)]_callVars
<1>1. CallInv => \A c \in Calls : StepsLeft(c) \in Nat
  BY StepsLeftType
<1>2. CallInv /\ [CallNext]_callVars => [\A c \in Calls : RunsDown(c)]_callVars
  BY StepRunsDown
<1> QED
  BY <1>1, <1>2, CallInvariant, PTL DEF CallSpec

-----------------------------------------------------------------------------
(* Routing.                                                                *)

\* The route of a request is the first one, in configuration order, that accepts it; it
\* is 0 exactly when none does (match_route).
LEMMA MatchIndexLeast ==
    ASSUME NEW q
    PROVE  LET i == MatchIndex(q)
           IN  \/ i = 0 /\ \A j \in DOMAIN Routes : ~ EntryAccepts(Routes[j], q)
               \/ /\ i \in DOMAIN Routes
                  /\ EntryAccepts(Routes[i], q)
                  /\ \A j \in DOMAIN Routes : EntryAccepts(Routes[j], q) => i <= j
<1> DEFINE accepting == {i \in DOMAIN Routes : EntryAccepts(Routes[i], q)}
<1>1. CASE accepting = {}
  BY <1>1 DEF MatchIndex
<1>2. CASE accepting # {}
  <2>1. accepting \subseteq Nat
    BY ConfigAssumption
  <2>2. \E i \in accepting : \A j \in accepting : i <= j
    BY <1>2, <2>1, LeastNatural
  <2>3. MatchIndex(q) = CHOOSE i \in accepting : \A j \in accepting : i <= j
    BY <1>2, Zenon DEF MatchIndex
  <2>4. MatchIndex(q) \in accepting /\ \A j \in accepting : MatchIndex(q) <= j
    BY <2>2, <2>3, Zenon
  <2> QED
    BY <2>4
<1> QED
  BY <1>1, <1>2

\* A matched route is one of the configured ones.
LEMMA MatchIndexRange ==
    ASSUME NEW q
    PROVE  MatchIndex(q) \in 0..Len(Routes)
BY MatchIndexLeast, ConfigAssumption

\* The code's status for an error is a natural number (GatewayError::status_code).
LEMMA StatusCodeType == \A e : StatusCode(e) \in Nat
BY DEF StatusCode

\* The fields of a configured route that the pipeline uses have their types.
LEMMA RouteType ==
    ASSUME NEW i \in DOMAIN Routes
    PROVE  Routes[i].upstream \in UpstreamConfig /\ Routes[i].timeout_ms \in BOOLEAN
<1>1. Routes[i] \in RouteConfig
  BY ConfigAssumption
<1> QED
  BY <1>1 DEF RouteConfig

\* What a route resolves to is one of the targets.
LEMMA ResolveType ==
    ASSUME NEW i \in DOMAIN Routes
    PROVE  ResolveUpstream(Routes[i].upstream)
               \subseteq STRING \cup ServiceEndpoints \cup {Unresolved}
<1> DEFINE u == Routes[i].upstream
<1>1. u \in UpstreamConfig
  BY RouteType
<1>2. u.endpoints \in Seq(STRING) /\ (u.type = "static" => Len(u.endpoints) = 1)
  BY <1>1 DEF UpstreamConfig
<1>3. u.type \in {"static", "service", "load_balance"}
  BY <1>1 DEF UpstreamConfig
<1> HIDE DEF u
<1>4. u.endpoints # <<>> => u.endpoints[1] \in STRING
  BY <1>2
<1>5. u.type = "static" => u.endpoints[1] \in STRING
  BY <1>2
<1>6. ResolveUpstream(u) \subseteq STRING \cup ServiceEndpoints \cup {Unresolved}
  BY <1>3, <1>4, <1>5 DEF ResolveUpstream
<1> QED
  BY <1>6 DEF u

-----------------------------------------------------------------------------
(* The inductive invariant of the pipeline.                                *)

Routed(r) ==
    /\ route[r] = MatchIndex(input[r])
    /\ route[r] \in DOMAIN Routes
    /\ target[r] # Unresolved

\* Each check still holds of the request at the phases after it.
ChecksHold(r) ==
    /\ pc[r] # "idle" => input[r] \in Inputs
    /\ pc[r] \in {"cors", "auth", "limit", "cache", "proxy"} => Routed(r)
    /\ pc[r] \in {"auth", "limit", "cache", "proxy"} => ~ IsPreflight(input[r])
    /\ pc[r] \in {"limit", "cache", "proxy"} => AuthPasses(input[r])

\* A call of proxy() exists for the requests that got that far and for no others, and it
\* keeps what the checks found when its request is over.
CallMatches(r) ==
    /\ pc[r] \in {"idle", "route", "cors", "auth", "limit", "cache", "panicked"} =>
          stage[r] = "none"
    /\ stage[r] # "none" =>
          /\ pc[r] \in {"proxy", "done", "cancelled"}
          /\ Routed(r)
          /\ ~ IsPreflight(input[r])
          /\ AuthPasses(input[r])
          /\ plan[r].max = MaxAttempts(Routes[route[r]])
    /\ pc[r] # "done" => response[r].by = "nobody"
    /\ response[r].by \in {"router", "preflight", "auth", "limiter", "cache"} => stage[r] = "none"

PipeOK(r) == ChecksHold(r) /\ CallMatches(r)

\* The requests that hold an admission of key k.
Holding(k) ==
    {r \in Requests : (pc[r] = "cache" \/ stage[r] # "none") /\ LimitKey(input[r]) = k}

QuotaHeld ==
    RateLimit.enabled => \A k \in LimitKeys : Cardinality(Holding(k)) <= admitted[k]

PipeInv == PipeTypeOK /\ \A r \in Requests : PipeOK(r)

GatewayInv == PipeInv /\ LimInv /\ CallInv /\ QuotaHeld

\* The steps of one request, as Next combines them.
RequestStep(r) ==
    \/ \E q \in Inputs : Receive(r, q)
    \/ HandleRequest(r)
    \/ Cancel(r)
    \/ Upstream(r)

\* Every step of the pipeline is a step of the limiter or leaves it alone.
LEMMA StepLimiter ==
    ASSUME PipeInv, [Next]_vars
    PROVE  [LimNext]_limVars
<1>1. ASSUME NEW r \in Requests, RequestStep(r)
      PROVE  [LimNext]_limVars
  <2>1. pc[r] = "limit" => LimitKey(input[r]) \in LimitKeys
    BY GatewayAssumption DEF PipeInv, PipeOK, ChecksHold
  <2>2. CASE TooManyRequests(r)
    BY <2>1, <2>2 DEF TooManyRequests, LimNext
  <2>3. CASE WithinQuota(r)
    BY <2>1, <2>3 DEF WithinQuota, LimNext
  <2>4. CASE ~ TooManyRequests(r) /\ ~ WithinQuota(r)
    BY <1>1, <2>4
       DEF RequestStep, HandleRequest, Receive, NotFound, MatchRoute, Preflight, NoPreflight,
           Unauthorized, Authenticated, CacheHit, CacheHitPanics, CacheMiss, ProxyStep, Relay,
           ProxyError, Cancel, Upstream
  <2> QED
    BY <2>2, <2>3, <2>4
<1>2. CASE TimePasses
  BY <1>2 DEF TimePasses, LimNext
<1>3. ASSUME NEW k \in CacheKeys, SharedStore(k)
      PROVE  [LimNext]_limVars
  BY <1>3 DEF SharedStore
<1>4. CASE UNCHANGED vars
  BY <1>4 DEF vars
<1> QED
  BY <1>1, <1>2, <1>3, <1>4 DEF Next, Finished, RequestStep

\* Every step of the pipeline is a step of the proxy client or leaves it alone.
LEMMA StepCall ==
    ASSUME PipeInv, [Next]_vars
    PROVE  [CallNext]_callVars
<1>1. ASSUME NEW r \in Requests, RequestStep(r)
      PROVE  [CallNext]_callVars
  <2>0. r \in Calls
    BY DEF Requests
  <2>1. CASE CacheMiss(r)
    <3>1. route[r] \in DOMAIN Routes
      BY <2>1 DEF CacheMiss, PipeInv, PipeOK, ChecksHold, Routed
    <3>2. MaxAttempts(Routes[route[r]]) \in Budgets /\ Routes[route[r]].timeout_ms \in BOOLEAN
      BY <3>1, RouteType, GatewayAssumption
    <3> QED
      BY <2>0, <2>1, <3>2 DEF CacheMiss, CallNext
  <2>2. CASE ProxyStep(r)
    BY <2>0, <2>2 DEF ProxyStep, CallNext, Progress
  <2>3. CASE Relay(r)
    BY <2>0, <2>3 DEF Relay, CallNext, Progress
  <2>4. CASE ProxyError(r)
    BY <2>0, <2>4 DEF ProxyError, CallNext, Progress
  <2>5. CASE Cancel(r)
    BY <2>0, <2>5 DEF Cancel, CallNext
  <2>6. CASE Upstream(r)
    BY <2>0, <2>6 DEF Upstream, CallNext
  <2>7. ASSUME NEW q \in Inputs, Receive(r, q)
        PROVE  UNCHANGED callVars
    BY <2>7 DEF Receive
  <2>8. CASE \/ NotFound(r) \/ MatchRoute(r) \/ Preflight(r) \/ NoPreflight(r)
            \/ Unauthorized(r) \/ Authenticated(r) \/ TooManyRequests(r) \/ WithinQuota(r)
            \/ CacheHit(r) \/ CacheHitPanics(r)
    BY <2>8 DEF NotFound, MatchRoute, Preflight, NoPreflight, Unauthorized, Authenticated,
        TooManyRequests, WithinQuota, CacheHit, CacheHitPanics
  <2> QED
    BY <1>1, <2>1, <2>2, <2>3, <2>4, <2>5, <2>6, <2>7, <2>8 DEF RequestStep, HandleRequest
<1>2. CASE TimePasses
  BY <1>2 DEF TimePasses
<1>3. ASSUME NEW k \in CacheKeys, SharedStore(k)
      PROVE  [CallNext]_callVars
  BY <1>3 DEF SharedStore
<1>4. CASE UNCHANGED vars
  BY <1>4 DEF vars
<1> QED
  BY <1>1, <1>2, <1>3, <1>4 DEF Next, Finished, RequestStep

\* Statuses are numbers.
LEMMA StatusesNat == \A x \in Statuses \cup {NoReply, Unbuildable} : x \in Nat
BY ProxyAssumption DEF NoReply, Unbuildable

\* An answer has the type of a response.
LEMMA AnswerType ==
    ASSUME NEW r \in Requests, NEW status \in Nat, NEW by \in Producers, NEW acao \in BOOLEAN,
           PipeTypeOK, Answer(r, status, by, acao)
    PROVE  pc' \in [Requests -> Phases] /\ response' \in [Requests -> Responses]
BY DEF Answer, GoTo, PipeTypeOK, Phases, Responses

\* An answer ends the request and names its producer.
LEMMA AnswerEffect ==
    ASSUME NEW r \in Requests, NEW status, NEW by, NEW acao,
           PipeTypeOK, Answer(r, status, by, acao)
    PROVE  pc'[r] = "done" /\ response'[r].by = by
BY DEF Answer, GoTo, PipeTypeOK

\* Counting keeps the type of the counters.
LEMMA CountType ==
    ASSUME NEW names, PipeTypeOK, Count(names)
    PROVE  metrics' \in [Counters -> Nat]
BY DEF Count, PipeTypeOK

\* Every step keeps the types of the pipeline's variables.
LEMMA StepType ==
    ASSUME PipeInv, CallTypeOK, [Next]_vars
    PROVE  PipeTypeOK'
<1> PipeTypeOK
  BY DEF PipeInv
<1>1. ASSUME NEW r \in Requests, RequestStep(r)
      PROVE  PipeTypeOK'
  <2>1. ASSUME NEW q \in Inputs, Receive(r, q)
        PROVE  PipeTypeOK'
    BY <2>1 DEF Receive, GoTo, PipeTypeOK, Phases
  <2>2. CASE NotFound(r)
    <3>1. pc' \in [Requests -> Phases] /\ response' \in [Requests -> Responses]
      BY <2>2 DEF NotFound, Answer, GoTo, PipeTypeOK, Phases, Responses, Producers
    <3> QED
      BY <2>2, <3>1 DEF NotFound, PipeTypeOK
  <2>3. CASE MatchRoute(r)
    <3> DEFINE i == MatchIndex(input[r])
    <3>1. i \in DOMAIN Routes /\ i \in 0..Len(Routes)
      BY <2>3, MatchIndexLeast, MatchIndexRange DEF MatchRoute
    <3>2. PICK t \in ResolveUpstream(Routes[i].upstream) : target' = [target EXCEPT ![r] = t]
      BY <2>3 DEF MatchRoute
    <3>3. t \in STRING \cup ServiceEndpoints \cup {Unresolved}
      BY <3>1, <3>2, ResolveType
    <3>4. route' = [route EXCEPT ![r] = i]
      BY <2>3 DEF MatchRoute
    <3> HIDE DEF i
    <3> QED
      BY <2>3, <3>1, <3>2, <3>3, <3>4 DEF MatchRoute, GoTo, PipeTypeOK, Phases
  <2>4. CASE Preflight(r)
    <3>1. pc' \in [Requests -> Phases] /\ response' \in [Requests -> Responses]
      BY <2>4 DEF Preflight, Answer, GoTo, PipeTypeOK, Phases, Responses, Producers
    <3> QED
      BY <2>4, <3>1 DEF Preflight, PipeTypeOK
  <2>5. CASE NoPreflight(r)
    BY <2>5 DEF NoPreflight, GoTo, PipeTypeOK, Phases
  <2>6. CASE Unauthorized(r)
    <3>1. pc' \in [Requests -> Phases] /\ response' \in [Requests -> Responses]
      BY <2>6 DEF Unauthorized, Answer, GoTo, PipeTypeOK, Phases, Responses, Producers
    <3> QED
      BY <2>6, <3>1, CountType DEF Unauthorized, PipeTypeOK
  <2>7. CASE Authenticated(r)
    BY <2>7 DEF Authenticated, GoTo, PipeTypeOK, Phases
  <2>8. CASE TooManyRequests(r)
    <3>1. pc' \in [Requests -> Phases] /\ response' \in [Requests -> Responses]
      BY <2>8 DEF TooManyRequests, Answer, GoTo, PipeTypeOK, Phases, Responses, Producers
    <3> QED
      BY <2>8, <3>1, CountType DEF TooManyRequests, PipeTypeOK
  <2>9. CASE WithinQuota(r)
    BY <2>9 DEF WithinQuota, GoTo, PipeTypeOK, Phases
  <2>10. CASE CacheHit(r)
    <3> DEFINE status == store[BuildKey(input[r])]
    <3>1. input[r] \in Inputs
      BY <2>10 DEF CacheHit, PipeInv, PipeOK, ChecksHold
    <3>2. BuildKey(input[r]) \in CacheKeys
      BY <3>1, Zenon DEF CacheKeys
    <3>3. status \in Nat
      BY <3>2, StatusesNat DEF PipeTypeOK
    <3>4. Answer(r, status, "cache", FALSE)
      BY <2>10 DEF CacheHit
    <3> HIDE DEF status
    <3>5. pc' \in [Requests -> Phases] /\ response' \in [Requests -> Responses]
      BY <3>3, <3>4, AnswerType DEF Producers
    <3> QED
      BY <2>10, <3>5, CountType DEF CacheHit, PipeTypeOK
  <2>11. CASE CacheMiss(r)
    BY <2>11 DEF CacheMiss, GoTo, PipeTypeOK, Phases
  <2>12. CASE ProxyStep(r)
    BY <2>12 DEF ProxyStep, pipeVars, PipeTypeOK
  <2>13. CASE Relay(r)
    <3>1. reply[r] \in Nat
      <4>1. reply[r] \in Statuses \cup {NoReply}
        BY DEF CallTypeOK, Requests
      <4> QED
        BY <4>1, StatusesNat
    <3>2. PICK origin \in EchoedOrigins :
              Answer(r, reply[r], "upstream",
                     Cors.enabled /\ origin # "" /\ IsOriginAllowed(origin))
      BY <2>13 DEF Relay
    <3>3. pc' \in [Requests -> Phases] /\ response' \in [Requests -> Responses]
      BY <3>1, <3>2, AnswerType DEF Producers
    <3> QED
      BY <2>13, <3>3, CountType DEF Relay, PipeTypeOK
  <2>14. CASE ProxyError(r)
    <3>1. StatusCode(error'[r]) \in Nat
      BY StatusCodeType
    <3>2. pc' \in [Requests -> Phases] /\ response' \in [Requests -> Responses]
      BY <2>14, <3>1, AnswerType DEF ProxyError, Producers
    <3> QED
      BY <2>14, <3>2 DEF ProxyError, PipeTypeOK
  <2>15. CASE Cancel(r)
    BY <2>15 DEF Cancel, GoTo, PipeTypeOK, Phases
  <2>16. CASE Upstream(r)
    BY <2>16 DEF Upstream, pipeVars, PipeTypeOK
  <2>17. CASE CacheHitPanics(r)
    BY <2>17, CountType DEF CacheHitPanics, GoTo, PipeTypeOK, Phases
  <2> QED
    BY <1>1, <2>1, <2>2, <2>3, <2>4, <2>5, <2>6, <2>7, <2>8, <2>9, <2>10, <2>11, <2>12,
       <2>13, <2>14, <2>15, <2>16, <2>17 DEF RequestStep, HandleRequest
<1>2. CASE TimePasses
  BY <1>2 DEF TimePasses, pipeVars, PipeTypeOK
<1>3. ASSUME NEW k \in CacheKeys, SharedStore(k)
      PROVE  PipeTypeOK'
  <2>1. PICK status \in Statuses \cup {NoReply, Unbuildable} : store' = [store EXCEPT ![k] = status]
    BY <1>3 DEF SharedStore
  <2> QED
    BY <1>3, <2>1 DEF SharedStore, PipeTypeOK
<1>4. CASE UNCHANGED vars
  BY <1>4 DEF vars, pipeVars, PipeTypeOK
<1> QED
  BY <1>1, <1>2, <1>3, <1>4 DEF Next, Finished, RequestStep

\* A request whose own variables a step leaves alone stays well formed.
LEMMA SamePipeOK ==
    ASSUME NEW d \in Requests, PipeOK(d),
           pc'[d] = pc[d], input'[d] = input[d], route'[d] = route[d], target'[d] = target[d],
           response'[d] = response[d], stage'[d] = stage[d], plan'[d] = plan[d]
    PROVE  PipeOK(d)'
BY DEF PipeOK, ChecksHold, CallMatches, Routed, IsPreflight, AuthPasses

\* A step of one request leaves the others alone.
LEMMA StepOthers ==
    ASSUME PipeInv, CallTypeOK, NEW r \in Requests, RequestStep(r),
           NEW d \in Requests, d # r
    PROVE  /\ pc'[d] = pc[d] /\ input'[d] = input[d] /\ route'[d] = route[d]
           /\ target'[d] = target[d] /\ response'[d] = response[d]
           /\ stage'[d] = stage[d] /\ plan'[d] = plan[d]
<1> r \in Calls /\ d \in Calls
  BY DEF Requests
<1>1. stage'[d] = stage[d] /\ plan'[d] = plan[d]
  BY DEF CallTypeOK, RequestStep, HandleRequest, Receive, NotFound, MatchRoute, Preflight,
      NoPreflight, Unauthorized, Authenticated, TooManyRequests, WithinQuota, CacheHit,
      CacheHitPanics, CacheMiss, ProxyStep, Relay, ProxyError, Cancel, Upstream, callVars, StartCall,
      CollectBody, NoAttempts, CollectBodyError, RetryAfterReply, AcceptReply,
      BackoffElapsed, ReadBody, RetryAfterError, GiveUp, ReadBodyError, DropCall, Execute,
      Send, Fail
<1>2. /\ pc'[d] = pc[d] /\ input'[d] = input[d] /\ route'[d] = route[d]
      /\ target'[d] = target[d] /\ response'[d] = response[d]
  BY DEF PipeInv, PipeTypeOK, RequestStep, HandleRequest, Receive, NotFound, MatchRoute,
      Preflight, NoPreflight, Unauthorized, Authenticated, TooManyRequests, WithinQuota,
      CacheHit, CacheHitPanics, CacheMiss, ProxyStep, Relay, ProxyError, Cancel, Upstream,
      pipeVars, GoTo, Answer
<1> QED
  BY <1>1, <1>2

\* A step of a call under way keeps its plan.
LEMMA CallStepKeepsPlan ==
    ASSUME CallTypeOK, NEW c \in Calls, Progress(c) \/ DropCall(c)
    PROVE  plan' = plan /\ stage[c] # "none"
BY DEF Progress, DropCall, Waiting, CollectBody, NoAttempts, CollectBodyError,
    RetryAfterReply, AcceptReply, BackoffElapsed, ReadBody, RetryAfterError, GiveUp,
    ReadBodyError

\* A step of a request keeps it well formed.
LEMMA StepSelf ==
    ASSUME PipeInv, CallTypeOK, NEW r \in Requests, RequestStep(r)
    PROVE  PipeOK(r)'
<1> /\ PipeTypeOK /\ PipeOK(r) /\ r \in Calls
  BY DEF PipeInv, Requests
<1> USE DEF PipeTypeOK, CallTypeOK
<1>1. ASSUME NEW q \in Inputs, Receive(r, q)
      PROVE  PipeOK(r)'
  BY <1>1 DEF Receive, GoTo, PipeOK, ChecksHold, CallMatches, callVars
<1>2. CASE NotFound(r)
  BY <1>2 DEF NotFound, Answer, GoTo, PipeOK, ChecksHold, CallMatches, callVars
<1>3. CASE MatchRoute(r)
  <2>1. MatchIndex(input[r]) \in DOMAIN Routes
    BY <1>3, MatchIndexLeast DEF MatchRoute
  <2>2. target'[r] # Unresolved /\ route'[r] = MatchIndex(input[r])
    BY <1>3 DEF MatchRoute
  <2> QED
    BY <1>3, <2>1, <2>2 DEF MatchRoute, GoTo, PipeOK, ChecksHold, CallMatches, Routed, callVars
<1>4. CASE Preflight(r)
  BY <1>4 DEF Preflight, Answer, GoTo, PipeOK, ChecksHold, CallMatches, callVars
<1>5. CASE NoPreflight(r)
  BY <1>5 DEF NoPreflight, GoTo, PipeOK, ChecksHold, CallMatches, Routed, callVars, IsPreflight
<1>6. CASE Unauthorized(r)
  BY <1>6 DEF Unauthorized, Answer, GoTo, PipeOK, ChecksHold, CallMatches, callVars
<1>7. CASE Authenticated(r)
  BY <1>7 DEF Authenticated, GoTo, PipeOK, ChecksHold, CallMatches, Routed, callVars,
      IsPreflight, AuthPasses
<1>8. CASE TooManyRequests(r)
  BY <1>8 DEF TooManyRequests, Answer, GoTo, PipeOK, ChecksHold, CallMatches, callVars
<1>9. CASE WithinQuota(r)
  BY <1>9 DEF WithinQuota, GoTo, PipeOK, ChecksHold, CallMatches, Routed, callVars,
      IsPreflight, AuthPasses
<1>10. CASE CacheHit(r)
  BY <1>10 DEF CacheHit, Answer, GoTo, PipeOK, ChecksHold, CallMatches, callVars
<1>11. CASE CacheMiss(r)
  BY <1>11 DEF CacheMiss, StartCall, GoTo, PipeOK, ChecksHold, CallMatches, Routed,
      IsPreflight, AuthPasses
<1>12. CASE ProxyStep(r)
  <2>1. plan' = plan /\ stage[r] # "none"
    BY <1>12, CallStepKeepsPlan DEF ProxyStep, Progress
  <2> QED
    BY <1>12, <2>1 DEF ProxyStep, pipeVars, PipeOK, ChecksHold, CallMatches, Routed,
        IsPreflight, AuthPasses
<1>13. CASE Relay(r)
  <2>1. plan' = plan /\ stage[r] # "none"
    BY <1>13, CallStepKeepsPlan DEF Relay, Progress
  <2>2. pc'[r] = "done" /\ response'[r].by = "upstream"
    BY <1>13, AnswerEffect DEF Relay
  <2>3. input' = input /\ route' = route /\ target' = target /\ pc[r] = "proxy"
    BY <1>13 DEF Relay
  <2> QED
    BY <2>1, <2>2, <2>3 DEF PipeOK, ChecksHold, CallMatches, Routed, IsPreflight, AuthPasses
<1>14. CASE ProxyError(r)
  <2>1. plan' = plan /\ stage[r] # "none"
    BY <1>14, CallStepKeepsPlan DEF ProxyError, Progress
  <2> QED
    BY <1>14, <2>1 DEF ProxyError, Answer, GoTo, PipeOK, ChecksHold, CallMatches, Routed,
        IsPreflight, AuthPasses
<1>15. CASE Cancel(r)
  <2>1. CASE pc[r] = "proxy"
    <3>1. plan' = plan /\ stage[r] # "none"
      BY <1>15, <2>1, CallStepKeepsPlan DEF Cancel
    <3>2. /\ pc'[r] = "cancelled" /\ response' = response
          /\ input' = input /\ route' = route /\ target' = target
      BY <1>15 DEF Cancel, GoTo
    <3> QED
      BY <2>1, <3>1, <3>2 DEF PipeOK, ChecksHold, CallMatches, Routed, IsPreflight, AuthPasses
  <2>2. CASE pc[r] # "proxy"
    BY <1>15, <2>2 DEF Cancel, Suspended, GoTo, PipeOK, ChecksHold, CallMatches, callVars
  <2> QED
    BY <2>1, <2>2
<1>16. CASE Upstream(r)
  BY <1>16, SamePipeOK DEF Upstream, pipeVars, Execute
<1>17. CASE CacheHitPanics(r)
  BY <1>17 DEF CacheHitPanics, GoTo, PipeOK, ChecksHold, CallMatches, callVars
<1> QED
  BY <1>1, <1>2, <1>3, <1>4, <1>5, <1>6, <1>7, <1>8, <1>9, <1>10, <1>11, <1>12, <1>13,
     <1>14, <1>15, <1>16, <1>17 DEF RequestStep, HandleRequest

\* Every step keeps the pipeline well formed.
LEMMA StepPipe ==
    ASSUME PipeInv, CallTypeOK, [Next]_vars
    PROVE  PipeInv'
<1> SUFFICES ASSUME NEW d \in Requests PROVE PipeOK(d)'
  BY StepType DEF PipeInv, Requests
<1> PipeOK(d)
  BY DEF PipeInv
<1>1. ASSUME NEW r \in Requests, RequestStep(r)
      PROVE  PipeOK(d)'
  <2>1. CASE d = r
    BY <1>1, <2>1, StepSelf
  <2>2. CASE d # r
    BY <1>1, <2>2, StepOthers, SamePipeOK
  <2> QED
    BY <2>1, <2>2
<1>2. CASE TimePasses
  BY <1>2, SamePipeOK DEF TimePasses, pipeVars, callVars
<1>3. ASSUME NEW k \in CacheKeys, SharedStore(k)
      PROVE  PipeOK(d)'
  BY <1>3, SamePipeOK DEF SharedStore, callVars
<1>4. CASE UNCHANGED vars
  BY <1>4, SamePipeOK DEF vars, pipeVars, callVars
<1> QED
  BY <1>1, <1>2, <1>3, <1>4 DEF Next, Finished, RequestStep

\* Only WithinQuota makes a request hold an admission.
LEMMA HoldingShrinks ==
    ASSUME PipeInv, CallTypeOK, NEW r \in Requests, RequestStep(r), ~ WithinQuota(r), NEW k
    PROVE  Holding(k)' \subseteq Holding(k)
<1> SUFFICES ASSUME NEW d \in Requests, d \in Holding(k)' PROVE d \in Holding(k)
  BY DEF Holding, Requests
<1>1. CASE d # r
  BY <1>1, StepOthers DEF Holding
<1>2. CASE d = r
  <2> r \in Calls /\ PipeTypeOK /\ CallMatches(r)
    BY DEF Requests, PipeInv, PipeOK
  <2>1. (pc'[r] = "cache" \/ stage'[r] # "none") /\ LimitKey(input'[r]) = k
    BY <1>2 DEF Holding
  <2>2. ASSUME NEW q \in Inputs, Receive(r, q)
        PROVE  FALSE
    BY <2>1, <2>2 DEF Receive, GoTo, callVars, CallMatches, PipeTypeOK
  <2>3. CASE \/ NotFound(r) \/ Preflight(r) \/ Unauthorized(r) \/ TooManyRequests(r)
            \/ CacheHit(r) \/ CacheHitPanics(r)
    BY <2>1, <2>3 DEF NotFound, Preflight, Unauthorized, TooManyRequests, CacheHit,
        CacheHitPanics, Answer, GoTo, callVars, CallMatches, PipeTypeOK
  <2>4. CASE MatchRoute(r) \/ NoPreflight(r) \/ Authenticated(r)
    BY <2>1, <2>4 DEF MatchRoute, NoPreflight, Authenticated, GoTo, callVars, CallMatches,
        PipeTypeOK
  <2>5. CASE CacheMiss(r)
    BY <1>2, <2>1, <2>5 DEF CacheMiss, Holding
  <2>6. CASE ProxyStep(r) \/ Relay(r) \/ ProxyError(r)
    <3>1. stage[r] # "none"
      BY <2>6, CallStepKeepsPlan DEF ProxyStep, Relay, ProxyError, Progress
    <3> QED
      BY <1>2, <2>1, <2>6, <3>1 DEF ProxyStep, Relay, ProxyError, pipeVars, Holding
  <2>7. CASE Cancel(r)
    BY <1>2, <2>1, <2>7 DEF Cancel, Holding, GoTo, DropCall, Waiting, callVars, PipeTypeOK
  <2>8. CASE Upstream(r)
    BY <1>2, <2>1, <2>8 DEF Upstream, Execute, pipeVars, Holding
  <2> QED
    BY <2>2, <2>3, <2>4, <2>5, <2>6, <2>7, <2>8 DEF RequestStep, HandleRequest
<1> QED
  BY <1>1, <1>2

\* The admissions held for a key are finitely many.
LEMMA HoldingFinite ==
    ASSUME NEW k
    PROVE  IsFiniteSet(Holding(k)) /\ Cardinality(Holding(k)) \in Nat
<1>1. Holding(k) \subseteq Calls
  BY DEF Holding, Requests
<1> QED
  BY <1>1, GatewayAssumption, FS_Subset, FS_CardinalityType

\* Every step keeps the admissions held within the admissions granted.
LEMMA StepQuota ==
    ASSUME PipeInv, CallTypeOK, LimTypeOK, QuotaHeld, [Next]_vars
    PROVE  QuotaHeld'
<1> SUFFICES ASSUME RateLimit.enabled, NEW k \in LimitKeys
             PROVE  Cardinality(Holding(k)') <= admitted'[k]
  BY DEF QuotaHeld
<1>1. /\ IsFiniteSet(Holding(k)) /\ Cardinality(Holding(k)) \in Nat
      /\ Cardinality(Holding(k)) <= admitted[k] /\ admitted[k] \in Nat
  BY HoldingFinite DEF QuotaHeld, LimTypeOK
<1>2. ASSUME Holding(k)' \subseteq Holding(k), admitted'[k] = admitted[k]
      PROVE  Cardinality(Holding(k)') <= admitted'[k]
  <2>1. Cardinality(Holding(k)') <= Cardinality(Holding(k)) /\ IsFiniteSet(Holding(k)')
    BY <1>1, <1>2, FS_Subset
  <2>2. Cardinality(Holding(k)') \in Nat
    BY <2>1, FS_CardinalityType
  <2> QED
    BY <1>1, <1>2, <2>1, <2>2
<1>3. ASSUME NEW r \in Requests, WithinQuota(r)
      PROVE  Cardinality(Holding(k)') <= admitted'[k]
  <2>1. Holding(k)' \subseteq Holding(k) \cup {r}
    BY <1>3 DEF WithinQuota, Holding, GoTo, callVars, PipeInv, PipeTypeOK, Requests
  <2>2. CASE LimitKey(input[r]) = k
    <3>1. admitted'[k] = admitted[k] + 1
      BY <1>3, <2>2 DEF WithinQuota, CheckKeyOk, LimTypeOK
    <3>2. /\ IsFiniteSet(Holding(k) \cup {r})
          /\ Cardinality(Holding(k) \cup {r}) <= Cardinality(Holding(k)) + 1
      <4> DEFINE H == Holding(k)
      <4>1. IsFiniteSet(H) /\ Cardinality(H) \in Nat
        BY <1>1
      <4> HIDE DEF H
      <4>2. /\ IsFiniteSet(H \cup {r})
            /\ Cardinality(H \cup {r}) = IF r \in H THEN Cardinality(H) ELSE Cardinality(H) + 1
        BY <4>1, FS_AddElement
      <4>3. Cardinality(H \cup {r}) <= Cardinality(H) + 1
        BY <4>1, <4>2
      <4> QED
        BY <4>2, <4>3 DEF H
    <3>3. /\ IsFiniteSet(Holding(k)')
          /\ Cardinality(Holding(k)') <= Cardinality(Holding(k) \cup {r})
      BY <2>1, <3>2, FS_Subset
    <3>4. Cardinality(Holding(k)') \in Nat /\ Cardinality(Holding(k) \cup {r}) \in Nat
      BY <3>2, <3>3, FS_CardinalityType
    <3> QED
      BY <1>1, <3>1, <3>2, <3>3, <3>4
  <2>3. CASE LimitKey(input[r]) # k
    <3>1. admitted'[k] = admitted[k]
      BY <1>3, <2>3 DEF WithinQuota, CheckKeyOk, LimTypeOK
    <3>2. Holding(k)' \subseteq Holding(k)
      BY <1>3, <2>1, <2>3 DEF WithinQuota, Holding
    <3> QED
      BY <1>2, <3>1, <3>2
  <2> QED
    BY <2>2, <2>3
<1>4. ASSUME NEW r \in Requests, RequestStep(r), ~ WithinQuota(r)
      PROVE  Cardinality(Holding(k)') <= admitted'[k]
  <2>1. admitted' = admitted
    BY <1>4 DEF RequestStep, HandleRequest, Receive, NotFound, MatchRoute, Preflight,
        NoPreflight, Unauthorized, Authenticated, TooManyRequests, CheckKeyErr, CacheHit,
        CacheHitPanics, CacheMiss, ProxyStep, Relay, ProxyError, Cancel, Upstream, limVars
  <2> QED
    BY <1>2, <1>4, <2>1, HoldingShrinks
<1>5. ASSUME UNCHANGED <<pc, input, stage>>, admitted'[k] = admitted[k]
      PROVE  Cardinality(Holding(k)') <= admitted'[k]
  BY <1>2, <1>5 DEF Holding
<1>6. CASE TimePasses
  BY <1>5, <1>6 DEF TimePasses, Replenish, pipeVars, callVars
<1>7. ASSUME NEW key \in CacheKeys, SharedStore(key)
      PROVE  Cardinality(Holding(k)') <= admitted'[k]
  BY <1>5, <1>7 DEF SharedStore, limVars, callVars
<1>8. CASE UNCHANGED vars
  BY <1>5, <1>8 DEF vars, pipeVars, limVars, callVars
<1> QED
  BY <1>3, <1>4, <1>6, <1>7, <1>8 DEF Next, Finished, RequestStep

\* GatewayInv holds of a new gateway.
LEMMA GatewayInitInv == Init => GatewayInv
<1> SUFFICES ASSUME Init PROVE GatewayInv
  OBVIOUS
<1>1. PipeTypeOK
  BY ConfigAssumption
     DEF Init, PipeTypeOK, Phases, NoResponse, Responses, Producers, Counters, NoReply
<1>2. ASSUME NEW r \in Requests PROVE PipeOK(r)
  BY DEF Init, CallInit, Requests, PipeOK, ChecksHold, CallMatches, NoResponse
<1>3. LimInv /\ CallInv
  BY LimInitInv, CallInitInv DEF Init
<1>4. QuotaHeld
  <2> SUFFICES ASSUME NEW k \in LimitKeys PROVE Cardinality(Holding(k)) <= admitted[k]
    BY DEF QuotaHeld
  <2>1. Holding(k) = {}
    BY DEF Holding, Init, CallInit, Requests
  <2>2. Cardinality(Holding(k)) = 0 /\ admitted[k] = 0
    BY <2>1, FS_EmptySet DEF Init, LimInit
  <2> QED
    BY <2>2
<1> QED
  BY <1>1, <1>2, <1>3, <1>4 DEF GatewayInv, PipeInv

\* GatewayInv is inductive.
LEMMA GatewayStepInv == GatewayInv /\ [Next]_vars => GatewayInv'
<1> SUFFICES ASSUME GatewayInv, [Next]_vars PROVE GatewayInv'
  OBVIOUS
<1>1. PipeInv /\ CallTypeOK /\ LimTypeOK /\ QuotaHeld
  BY DEF GatewayInv, CallInv, LimInv
<1>2. PipeInv'
  BY <1>1, StepPipe
<1>3. LimInv' /\ CallInv'
  BY <1>1, StepLimiter, StepCall, LimStepInv, CallStepInv DEF GatewayInv
<1>4. QuotaHeld'
  BY <1>1, StepQuota
<1> QED
  BY <1>2, <1>3, <1>4 DEF GatewayInv

-----------------------------------------------------------------------------

\* GatewayInv holds in every reachable state of the gateway.
THEOREM GatewayInvariant == Spec => []GatewayInv
BY GatewayInitInv, GatewayStepInv, PTL DEF Spec

\* Type correctness of the gateway for every configuration.
THEOREM GatewayTypeCorrect == Spec => []TypeOK
<1>1. GatewayInv => TypeOK
  BY DEF GatewayInv, PipeInv, LimInv, CallInv, TypeOK
<1> QED
  BY <1>1, GatewayInvariant, PTL

\* The gateway uses its limiter as the limiter's specification allows (refinement).
THEOREM GatewayImplementsLimiter == Spec => LimSpec
<1>1. Init => LimInit
  BY DEF Init
<1>2. GatewayInv /\ [Next]_vars => [LimNext]_limVars
  BY StepLimiter DEF GatewayInv
<1> QED
  BY <1>1, <1>2, GatewayInvariant, PTL DEF Spec, LimSpec

\* The gateway uses its proxy client as the client's specification allows (refinement), so
\* every theorem about calls holds of the calls the gateway makes.
THEOREM GatewayImplementsCalls == Spec => CallSpec
<1>1. Init => CallInit
  BY DEF Init
<1>2. GatewayInv /\ [Next]_vars => [CallNext]_callVars
  BY StepCall DEF GatewayInv
<1> QED
  BY <1>1, <1>2, GatewayInvariant, PTL DEF Spec, CallSpec

\* For every configuration, number of clients and timing, the requests handed to the proxy
\* for a key stay within its burst plus one per interval (ForwardedWithinQuota).
THEOREM GatewayQuota == Spec => []ForwardedWithinQuota
<1>1. GatewayInv => ForwardedWithinQuota
  <2> SUFFICES ASSUME GatewayInv, RateLimit.enabled, NEW k \in LimitKeys
               PROVE  Cardinality({r \in Requests : stage[r] # "none" /\ LimitKey(input[r]) = k})
                          <= Burst + intervals
    BY DEF ForwardedWithinQuota
  <2> DEFINE F == {r \in Requests : stage[r] # "none" /\ LimitKey(input[r]) = k}
  <2>1. IsFiniteSet(Holding(k)) /\ Cardinality(Holding(k)) \in Nat
    BY HoldingFinite
  <2>2. F \subseteq Holding(k)
    BY DEF Holding
  <2> HIDE DEF F
  <2>3. Cardinality(F) <= Cardinality(Holding(k)) /\ IsFiniteSet(F)
    BY <2>1, <2>2, FS_Subset
  <2>4. Cardinality(F) \in Nat
    BY <2>3, FS_CardinalityType
  <2>5. Cardinality(Holding(k)) <= admitted[k]
    BY DEF GatewayInv, QuotaHeld
  <2>6. /\ admitted[k] \in Nat /\ cells[k] \in Nat /\ intervals \in Nat /\ Burst \in Nat
        /\ admitted[k] + cells[k] <= Burst + intervals
    BY BurstPositive DEF GatewayInv, LimInv, LimTypeOK, QuotaRespected
  <2>7. Cardinality(F) <= Burst + intervals
    BY <2>1, <2>3, <2>4, <2>5, <2>6
  <2> QED
    BY <2>7 DEF F
<1> QED
  BY <1>1, GatewayInvariant, PTL

\* Admissions of key k that were not held at a moment when those of H were and i intervals
\* had elapsed, and what the key may still be admitted at once.
NewlyHeld(k, H, i) == Cardinality(Holding(k) \ H) + cells[k] + i <= Burst + intervals

\* Every step keeps the new admissions within the burst and the intervals since then.
LEMMA StepWindow ==
    ASSUME GatewayInv, RateLimit.enabled, NEW k \in LimitKeys, NEW H, NEW i \in Nat,
           NewlyHeld(k, H, i), [Next]_vars
    PROVE  NewlyHeld(k, H, i)'
<1> DEFINE A == Holding(k) \ H
           B == Holding(k)' \ H
<1>1. /\ PipeInv /\ CallTypeOK /\ LimTypeOK
      /\ cells[k] \in 0..Burst /\ intervals \in Nat /\ Burst \in Nat
  BY BurstPositive DEF GatewayInv, CallInv, LimInv, LimTypeOK
<1>2. IsFiniteSet(A)
  BY HoldingFinite, FS_Subset
<1>3. Cardinality(A) + cells[k] + i <= Burst + intervals
  BY DEF NewlyHeld
<1>4. SUFFICES Cardinality(B) + cells'[k] + i <= Burst + intervals'
  BY DEF NewlyHeld
<1>5. ASSUME Holding(k)' \subseteq Holding(k), UNCHANGED limVars
      PROVE  Cardinality(B) + cells'[k] + i <= Burst + intervals'
  <2>1. B \subseteq A
    BY <1>5
  <2> HIDE DEF A, B
  <2>2. Cardinality(A) \in Nat /\ Cardinality(B) \in Nat /\ Cardinality(B) <= Cardinality(A)
    BY <1>2, <2>1, SizeGrows
  <2> QED
    BY <1>1, <1>3, <1>5, <2>2 DEF limVars
<1>6. ASSUME NEW r \in Requests, WithinQuota(r)
      PROVE  Cardinality(B) + cells'[k] + i <= Burst + intervals'
  <2>1. Holding(k)' \subseteq Holding(k) \cup {r}
    BY <1>1, <1>6 DEF WithinQuota, Holding, GoTo, callVars, PipeInv, PipeTypeOK, Requests
  <2>2. CheckKeyOk(LimitKey(input[r]))
    BY <1>6 DEF WithinQuota
  <2>3. CASE LimitKey(input[r]) = k
    <3>1. cells'[k] = cells[k] - 1 /\ intervals' = intervals
      BY <1>1, <2>2, <2>3 DEF CheckKeyOk, LimTypeOK
    <3>2. B \subseteq A \cup {r}
      BY <2>1
    <3> HIDE DEF A, B
    <3>3. Cardinality(A) \in Nat /\ Cardinality(B) \in Nat /\ Cardinality(B) <= Cardinality(A) + 1
      BY <1>2, <3>2, SizeGrows
    <3> QED
      BY <1>1, <1>3, <3>1, <3>3
  <2>4. CASE LimitKey(input[r]) # k
    <3>1. cells'[k] = cells[k] /\ intervals' = intervals
      BY <1>1, <2>2, <2>4 DEF CheckKeyOk, LimTypeOK
    <3>2. Holding(k)' \subseteq Holding(k)
      BY <1>6, <2>1, <2>4 DEF WithinQuota, Holding
    <3>3. B \subseteq A
      BY <3>2
    <3> HIDE DEF A, B
    <3>4. Cardinality(A) \in Nat /\ Cardinality(B) \in Nat /\ Cardinality(B) <= Cardinality(A)
      BY <1>2, <3>3, SizeGrows
    <3> QED
      BY <1>1, <1>3, <3>1, <3>4
  <2> QED
    BY <2>3, <2>4
<1>7. ASSUME NEW r \in Requests, RequestStep(r), ~ WithinQuota(r)
      PROVE  Cardinality(B) + cells'[k] + i <= Burst + intervals'
  <2>1. UNCHANGED limVars
    BY <1>7 DEF RequestStep, HandleRequest, Receive, NotFound, MatchRoute, Preflight,
        NoPreflight, Unauthorized, Authenticated, TooManyRequests, CheckKeyErr, CacheHit,
        CacheHitPanics, CacheMiss, ProxyStep, Relay, ProxyError, Cancel, Upstream
  <2>2. Holding(k)' \subseteq Holding(k)
    BY <1>1, <1>7, HoldingShrinks
  <2> QED
    BY <1>5, <2>1, <2>2
<1>8. CASE TimePasses
  <2>1. /\ Holding(k)' = Holding(k) /\ intervals' = intervals + 1
        /\ cells'[k] = IF cells[k] < Burst THEN cells[k] + 1 ELSE Burst
    BY <1>8 DEF TimePasses, Replenish, pipeVars, callVars, Holding
  <2>2. B = A
    BY <2>1
  <2> HIDE DEF A, B
  <2>3. Cardinality(A) \in Nat
    BY <1>2, FS_CardinalityType
  <2> QED
    BY <1>1, <1>3, <2>1, <2>2, <2>3
<1>9. ASSUME UNCHANGED <<pc, input, stage>>, UNCHANGED limVars
      PROVE  Cardinality(B) + cells'[k] + i <= Burst + intervals'
  BY <1>5, <1>9 DEF Holding
<1>10. ASSUME NEW key \in CacheKeys, SharedStore(key)
       PROVE  Cardinality(B) + cells'[k] + i <= Burst + intervals'
  BY <1>9, <1>10 DEF SharedStore, callVars
<1>11. CASE UNCHANGED vars
  BY <1>9, <1>11 DEF vars, pipeVars, callVars
<1> QED
  BY <1>6, <1>7, <1>8, <1>10, <1>11 DEF Next, Finished, RequestStep

\* The quota holds of every window of time, not only since the start: of the requests that
\* were not admitted at some moment (H were, i intervals had elapsed), at most the burst plus
\* one per interval that elapses since are ever handed to the proxy, whatever the key has or
\* has not used before (gateway.rs:343-372).
THEOREM GatewayWindow ==
    ASSUME RateLimit.enabled, NEW k \in LimitKeys, NEW H, NEW i \in Nat
    PROVE  Spec => [](Holding(k) = H /\ intervals = i =>
               [](Cardinality({r \in Requests : stage[r] # "none" /\ LimitKey(input[r]) = k} \ H) + i
                      <= Burst + intervals))
<1> DEFINE F == {r \in Requests : stage[r] # "none" /\ LimitKey(input[r]) = k}
<1>1. ASSUME GatewayInv, Holding(k) = H, intervals = i PROVE NewlyHeld(k, H, i)
  <2>1. Holding(k) \ H = {}
    BY <1>1
  <2>2. Cardinality(Holding(k) \ H) = 0
    BY <2>1, FS_EmptySet
  <2>3. cells[k] \in 0..Burst /\ Burst \in Nat
    BY <1>1, BurstPositive DEF GatewayInv, LimInv, LimTypeOK
  <2> QED
    BY <1>1, <2>2, <2>3 DEF NewlyHeld
<1>2. GatewayInv /\ NewlyHeld(k, H, i) /\ [Next]_vars => NewlyHeld(k, H, i)'
  BY StepWindow
<1>3. ASSUME GatewayInv, NewlyHeld(k, H, i) PROVE Cardinality(F \ H) + i <= Burst + intervals
  <2>1. F \ H \subseteq Holding(k) \ H
    BY DEF Holding
  <2>2. IsFiniteSet(Holding(k) \ H)
    BY HoldingFinite, FS_Subset
  <2> DEFINE a == Cardinality(Holding(k) \ H)
             b == Cardinality(F \ H)
  <2>3. a \in Nat /\ b \in Nat /\ b <= a
    BY <2>1, <2>2, FS_Subset, FS_CardinalityType
  <2>4. a + cells[k] + i <= Burst + intervals
    BY <1>3 DEF NewlyHeld
  <2>5. cells[k] \in Nat /\ Burst \in Nat /\ intervals \in Nat
    BY <1>3, BurstPositive DEF GatewayInv, LimInv, LimTypeOK
  <2> HIDE DEF a, b
  <2>6. b + i <= Burst + intervals
    BY <2>3, <2>4, <2>5
  <2> QED
    BY <2>6 DEF b
<1> QED
  BY <1>1, <1>2, <1>3, GatewayInvariant, PTL DEF Spec

\* For every configuration, what reaches the proxy passed every check of the pipeline
\* (ForwardedIsAdmitted).
THEOREM GatewayAdmission == Spec => []ForwardedIsAdmitted
<1>1. GatewayInv => ForwardedIsAdmitted
  <2> SUFFICES ASSUME GatewayInv, NEW r \in Requests, stage[r] # "none"
               PROVE  /\ Routed(r) /\ plan[r].max = MaxAttempts(Routes[route[r]])
                      /\ AuthPasses(input[r]) /\ ~ IsPreflight(input[r])
    BY DEF ForwardedIsAdmitted, Routed, AuthPasses, TokenAccepted, IsPreflight
  <2> QED
    BY DEF GatewayInv, PipeInv, PipeOK, CallMatches
<1> QED
  BY <1>1, GatewayInvariant, PTL

\* For every configuration, a request the gateway answers itself, or panics on, never
\* reaches an upstream (LocalAnswersStayLocal).
THEOREM GatewayLocalAnswers == Spec => []LocalAnswersStayLocal
<1>1. GatewayInv => LocalAnswersStayLocal
  <2> SUFFICES ASSUME GatewayInv, NEW r \in Requests,
                      \/ response[r].by \in {"router", "preflight", "auth", "limiter", "cache"}
                      \/ pc[r] = "panicked"
               PROVE  stage[r] = "none" /\ wire[r] = {} /\ executed[r] = 0
    BY DEF LocalAnswersStayLocal
  <2>1. r \in Calls /\ stage[r] = "none" /\ CallTypeOK /\ CallOK(r)
    BY DEF GatewayInv, PipeInv, PipeOK, CallMatches, CallInv, Requests
  <2>2. wire[r] \subseteq 1..0
    BY <2>1 DEF CallOK, Accounted, Resumable
  <2>3. wire[r] = {}
    BY <2>2
  <2>4. Cardinality(wire[r]) = 0
    BY <2>3, FS_EmptySet
  <2>5. executed[r] \in Nat /\ executed[r] + Cardinality(wire[r]) = 0
    BY <2>1 DEF CallTypeOK, CallOK, Accounted, Resumable
  <2> QED
    BY <2>1, <2>3, <2>4, <2>5
<1> QED
  BY <1>1, GatewayInvariant, PTL

-----------------------------------------------------------------------------
(* The pipeline runs down: the safety half of EveryRequestEnds.            *)

\* How many phases request r has before it.
PhasesLeft(r) ==
    CASE pc[r] = "idle"  -> 7
      [] pc[r] = "route" -> 6
      [] pc[r] = "cors"  -> 5
      [] pc[r] = "auth"  -> 4
      [] pc[r] = "limit" -> 3
      [] pc[r] = "cache" -> 2
      [] pc[r] = "proxy" -> 1
      [] OTHER           -> 0

\* What a step does to request r: nothing, it takes it to a later phase, or it takes one of
\* the steps its call has left.
MovesOn(r) ==
    \/ UNCHANGED <<pc[r], stage[r], attempt[r]>>
    \/ PhasesLeft(r)' < PhasesLeft(r)
    \/ pc[r] = "proxy" /\ pc'[r] = "proxy" /\ OneStepLess(r)

\* A step of a request takes it on.
LEMMA RequestMovesOn ==
    ASSUME GatewayInv, NEW r \in Requests, RequestStep(r)
    PROVE  MovesOn(r)
<1>1. PipeTypeOK /\ CallInv /\ r \in Calls /\ pc \in [Requests -> Phases]
  BY DEF GatewayInv, PipeInv, PipeTypeOK, Requests
<1> USE <1>1 DEF PhasesLeft, MovesOn
<1>2. ASSUME NEW q \in Inputs, Receive(r, q) PROVE MovesOn(r)
  BY <1>2 DEF Receive, GoTo
<1>3. CASE NotFound(r) \/ MatchRoute(r)
  BY <1>3 DEF NotFound, MatchRoute, Answer, GoTo
<1>4. CASE Preflight(r) \/ NoPreflight(r)
  BY <1>4 DEF Preflight, NoPreflight, Answer, GoTo
<1>5. CASE Unauthorized(r) \/ Authenticated(r)
  BY <1>5 DEF Unauthorized, Authenticated, Answer, GoTo
<1>6. CASE TooManyRequests(r) \/ WithinQuota(r)
  BY <1>6 DEF TooManyRequests, WithinQuota, Answer, GoTo
<1>7. CASE CacheHit(r) \/ CacheHitPanics(r) \/ CacheMiss(r)
  BY <1>7 DEF CacheHit, CacheHitPanics, CacheMiss, Answer, GoTo
<1>8. CASE ProxyStep(r)
  <2>1. Progress(r) /\ pc[r] = "proxy" /\ pc' = pc
    BY <1>8 DEF ProxyStep, Progress, pipeVars
  <2>2. OneStepLess(r)
    BY <2>1, CallRunsDown
  <2> QED
    BY <2>1, <2>2
<1>9. CASE Relay(r) \/ ProxyError(r)
  <2>1. pc[r] = "proxy" /\ GoTo(r, "done")
    BY <1>9, Zenon DEF Relay, ProxyError, Answer
  <2> QED
    BY <2>1 DEF GoTo
<1>10. CASE Cancel(r)
  BY <1>10 DEF Cancel, Suspended, GoTo
<1>11. CASE Upstream(r)
  BY <1>11 DEF Upstream, Execute, pipeVars
<1> QED
  BY <1>2, <1>3, <1>4, <1>5, <1>6, <1>7, <1>8, <1>9, <1>10, <1>11 DEF RequestStep, HandleRequest

\* No request goes back to an earlier phase or goes round in one: every step of
\* handle_request takes it to a later phase or, in the call of proxy(), takes one of the at
\* most 2 * max_attempts + 1 steps the call has, and what other requests, the clock and the
\* shared cache do leaves it where it is (gateway.rs:246-430).
THEOREM GatewayMovesOn == Spec => [][\A r \in Requests : MovesOn(r)]_vars
<1>1. GatewayInv /\ [Next]_vars => [\A r \in Requests : MovesOn(r)]_vars
  <2> SUFFICES ASSUME GatewayInv, Next, NEW d \in Requests PROVE MovesOn(d)
    OBVIOUS
  <2>0. PipeInv /\ CallTypeOK /\ d \in Calls
    BY DEF GatewayInv, CallInv, Requests
  <2>1. ASSUME NEW r \in Requests, RequestStep(r) PROVE MovesOn(d)
    <3>1. CASE d = r
      BY <2>1, <3>1, RequestMovesOn
    <3>2. CASE d # r
      <4>1. pc'[d] = pc[d] /\ stage'[d] = stage[d]
        BY <2>0, <2>1, <3>2, StepOthers
      <4>2. attempt'[d] = attempt[d]
        BY <2>0, <2>1, <3>2
           DEF CallTypeOK, RequestStep, HandleRequest, Receive, NotFound, MatchRoute, Preflight,
               NoPreflight, Unauthorized, Authenticated, TooManyRequests, WithinQuota, CacheHit,
               CacheHitPanics, CacheMiss, ProxyStep, Relay, ProxyError, Cancel, Upstream, callVars, StartCall,
               CollectBody, NoAttempts, CollectBodyError, RetryAfterReply, AcceptReply,
               BackoffElapsed, ReadBody, RetryAfterError, GiveUp, ReadBodyError, DropCall,
               Execute, Send, Fail
      <4> QED
        BY <4>1, <4>2 DEF MovesOn
    <3> QED
      BY <3>1, <3>2
  <2>2. ASSUME UNCHANGED <<pc, stage, attempt>> PROVE MovesOn(d)
    BY <2>2 DEF MovesOn
  <2>3. CASE TimePasses \/ Finished
    BY <2>2, <2>3 DEF TimePasses, Finished, vars, pipeVars, callVars
  <2>4. ASSUME NEW k \in CacheKeys, SharedStore(k) PROVE MovesOn(d)
    BY <2>2, <2>4 DEF SharedStore, callVars
  <2> QED
    BY <2>1, <2>3, <2>4 DEF Next, RequestStep
<1> QED
  BY <1>1, GatewayInvariant, PTL DEF Spec

-----------------------------------------------------------------------------
(* The counters.                                                           *)

\* The relayed responses that count as errors.
RelayedErrors == {r \in AnsweredBy("upstream") : response[r].status >= 400}

\* What was answered so far is finite.
LEMMA AnsweredFinite ==
    ASSUME NEW p
    PROVE  /\ IsFiniteSet(AnsweredBy(p)) /\ IsFiniteSet(AnsweredBy(p)')
           /\ IsFiniteSet(RelayedErrors) /\ IsFiniteSet(RelayedErrors')
<1>1. /\ AnsweredBy(p) \subseteq Calls /\ AnsweredBy(p)' \subseteq Calls
      /\ RelayedErrors \subseteq Calls /\ RelayedErrors' \subseteq Calls
  BY DEF AnsweredBy, RelayedErrors, Requests
<1> QED
  BY <1>1, GatewayAssumption, FS_Subset

\* The requests that panicked so far are finitely many.
LEMMA PanickedFinite == IsFiniteSet(Panicked)
<1>1. Panicked \subseteq Calls
  BY DEF Panicked, Requests
<1> QED
  BY <1>1, GatewayAssumption, FS_Subset

\* An answer adds its request to those its producer answered, and to no others.
LEMMA AnswerAdds ==
    ASSUME PipeInv, NEW r \in Requests, pc[r] # "done",
           NEW status, NEW by, by # "nobody", NEW acao, Answer(r, status, by, acao),
           NEW p, p # "nobody"
    PROVE  Cardinality(AnsweredBy(p)')
               = Cardinality(AnsweredBy(p)) + (IF p = by THEN 1 ELSE 0)
<1>1. response[r].by = "nobody" /\ response \in [Requests -> Responses]
  BY DEF PipeInv, PipeTypeOK, PipeOK, CallMatches
<1>2. r \notin AnsweredBy(p)
  BY <1>1 DEF AnsweredBy
<1>3. /\ response'[r].by = by
      /\ \A d \in Requests : d # r => response'[d] = response[d]
  BY <1>1 DEF Answer
<1>4. Cardinality(AnsweredBy(p)) \in Nat
  BY AnsweredFinite, FS_CardinalityType
<1>5. CASE p = by
  <2>1. AnsweredBy(p)' = AnsweredBy(p) \cup {r}
    BY <1>3, <1>5 DEF AnsweredBy, Requests
  <2> QED
    BY <1>2, <1>5, <2>1, AnsweredFinite, FS_AddElement
<1>6. CASE p # by
  <2>1. AnsweredBy(p)' = AnsweredBy(p)
    BY <1>2, <1>3, <1>6 DEF AnsweredBy, Requests
  <2> QED
    BY <1>4, <1>6, <2>1
<1> QED
  BY <1>5, <1>6

\* An answer adds its request to the relayed errors if it is one.
LEMMA AnswerAddsError ==
    ASSUME PipeInv, NEW r \in Requests, pc[r] # "done",
           NEW status, NEW by, NEW acao, Answer(r, status, by, acao)
    PROVE  Cardinality(RelayedErrors')
               = Cardinality(RelayedErrors) + (IF by = "upstream" /\ status >= 400 THEN 1 ELSE 0)
<1>1. response[r].by = "nobody" /\ response \in [Requests -> Responses]
  BY DEF PipeInv, PipeTypeOK, PipeOK, CallMatches
<1>2. r \notin RelayedErrors
  BY <1>1 DEF RelayedErrors, AnsweredBy
<1>3. /\ response'[r].by = by /\ response'[r].status = status
      /\ \A d \in Requests : d # r => response'[d] = response[d]
  BY <1>1 DEF Answer
<1>4. Cardinality(RelayedErrors) \in Nat
  BY AnsweredFinite, FS_CardinalityType
<1>5. CASE by = "upstream" /\ status >= 400
  <2>1. RelayedErrors' = RelayedErrors \cup {r}
    BY <1>3, <1>5 DEF RelayedErrors, AnsweredBy, Requests
  <2> QED
    BY <1>2, <1>5, <2>1, AnsweredFinite, FS_AddElement
<1>6. CASE ~ (by = "upstream" /\ status >= 400)
  <2>1. RelayedErrors' = RelayedErrors
    BY <1>2, <1>3, <1>6 DEF RelayedErrors, AnsweredBy, Requests
  <2> QED
    BY <1>4, <1>6, <2>1
<1> QED
  BY <1>5, <1>6

\* The counter a step adds one to, by the producer of its answer.
CounterOf(by, status) ==
    CASE by = "upstream" /\ status >= 400 -> {"requests_total", "requests_error_total"}
      [] by = "upstream" /\ ~ (status >= 400) -> {"requests_total"}
      [] by = "cache"    -> {"cache_hits_total"}
      [] by = "limiter"  -> {"rate_limited_total"}
      [] by = "auth"     -> {"auth_failures_total"}
      [] OTHER           -> {}

\* An answer that is counted under its producer keeps the counters exact.
LEMMA AnswerCounted ==
    ASSUME PipeInv, CountersExact, NEW r \in Requests, pc[r] \notin {"done", "panicked"},
           NEW status, NEW by, by # "nobody", NEW acao, Answer(r, status, by, acao),
           Count(CounterOf(by, status))
    PROVE  CountersExact'
<1>1. /\ Cardinality(AnsweredBy("upstream")')
             = Cardinality(AnsweredBy("upstream")) + (IF "upstream" = by THEN 1 ELSE 0)
      /\ Cardinality(AnsweredBy("cache")')
             = Cardinality(AnsweredBy("cache")) + (IF "cache" = by THEN 1 ELSE 0)
      /\ Cardinality(AnsweredBy("limiter")')
             = Cardinality(AnsweredBy("limiter")) + (IF "limiter" = by THEN 1 ELSE 0)
      /\ Cardinality(AnsweredBy("auth")')
             = Cardinality(AnsweredBy("auth")) + (IF "auth" = by THEN 1 ELSE 0)
  BY AnswerAdds
<1>2. Cardinality(RelayedErrors')
          = Cardinality(RelayedErrors) + (IF by = "upstream" /\ status >= 400 THEN 1 ELSE 0)
  BY AnswerAddsError
<1>3. \A m \in Counters :
          /\ metrics[m] \in Nat
          /\ metrics'[m] = metrics[m] + (IF m \in CounterOf(by, status) THEN 1 ELSE 0)
  BY DEF PipeInv, PipeTypeOK, Count
<1>4. /\ metrics["requests_total"] = Cardinality(AnsweredBy("upstream"))
      /\ metrics["requests_error_total"] = Cardinality(RelayedErrors)
      /\ metrics["cache_hits_total"] = Cardinality(AnsweredBy("cache")) + Cardinality(Panicked)
      /\ metrics["rate_limited_total"] = Cardinality(AnsweredBy("limiter"))
      /\ metrics["auth_failures_total"] = Cardinality(AnsweredBy("auth"))
  BY DEF CountersExact, RelayedErrors
<1>5. /\ "requests_total" \in CounterOf(by, status) <=> "upstream" = by
      /\ "requests_error_total" \in CounterOf(by, status) <=> by = "upstream" /\ status >= 400
      /\ "cache_hits_total" \in CounterOf(by, status) <=> "cache" = by
      /\ "rate_limited_total" \in CounterOf(by, status) <=> "limiter" = by
      /\ "auth_failures_total" \in CounterOf(by, status) <=> "auth" = by
  BY DEF CounterOf
<1>6. Panicked' = Panicked
  <2>1. pc'[r] = "done" /\ \A d \in Requests : d # r => pc'[d] = pc[d]
    BY DEF Answer, GoTo, PipeInv, PipeTypeOK
  <2> QED
    BY <2>1 DEF Panicked, Requests
<1>7. Cardinality(Panicked) \in Nat /\ Cardinality(AnsweredBy("cache")) \in Nat
  BY AnsweredFinite, PanickedFinite, FS_CardinalityType
<1>8. /\ metrics'["requests_total"] = Cardinality(AnsweredBy("upstream")')
      /\ metrics'["requests_error_total"] = Cardinality(RelayedErrors')
      /\ metrics'["cache_hits_total"] = Cardinality(AnsweredBy("cache")') + Cardinality(Panicked')
      /\ metrics'["rate_limited_total"] = Cardinality(AnsweredBy("limiter")')
      /\ metrics'["auth_failures_total"] = Cardinality(AnsweredBy("auth")')
  BY <1>1, <1>2, <1>3, <1>4, <1>5, <1>6, <1>7 DEF Counters
<1> QED
  BY <1>8 DEF CountersExact, RelayedErrors

\* A hit whose response cannot be built keeps the counters exact: it is one more panic.
LEMMA PanicCounted ==
    ASSUME PipeInv, CountersExact, NEW r \in Requests, CacheHitPanics(r)
    PROVE  CountersExact'
<1>1. /\ pc[r] # "panicked" /\ pc'[r] = "panicked"
      /\ \A d \in Requests : d # r => pc'[d] = pc[d]
  BY DEF CacheHitPanics, GoTo, PipeInv, PipeTypeOK
<1>2. Panicked' = Panicked \cup {r} /\ r \notin Panicked
  BY <1>1 DEF Panicked, Requests
<1>3. Cardinality(Panicked') = Cardinality(Panicked) + 1
  BY <1>2, PanickedFinite, FS_AddElement
<1>4. Cardinality(Panicked) \in Nat /\ Cardinality(AnsweredBy("cache")) \in Nat
  BY AnsweredFinite, PanickedFinite, FS_CardinalityType
<1>5. response' = response
  BY DEF CacheHitPanics
<1>6. \A m \in Counters :
          metrics'[m] = IF m = "cache_hits_total" THEN metrics[m] + 1 ELSE metrics[m]
  BY DEF CacheHitPanics, Count
<1>7. metrics["cache_hits_total"] = Cardinality(AnsweredBy("cache")) + Cardinality(Panicked)
  BY DEF CountersExact
<1>8. metrics'["cache_hits_total"] = Cardinality(AnsweredBy("cache")) + Cardinality(Panicked')
  BY <1>3, <1>4, <1>6, <1>7 DEF Counters
<1>9. \A p : AnsweredBy(p)' = AnsweredBy(p)
  BY <1>5 DEF AnsweredBy, Requests
<1>10. RelayedErrors' = RelayedErrors
  BY <1>5, <1>9 DEF RelayedErrors
<1> QED
  BY <1>6, <1>8, <1>9, <1>10 DEF CountersExact, Counters, RelayedErrors

\* Every step keeps the counters exact.
LEMMA StepCounters ==
    ASSUME PipeInv, CallTypeOK, CountersExact, [Next]_vars
    PROVE  CountersExact'
<1>1. ASSUME UNCHANGED <<response, metrics>>, Panicked' = Panicked PROVE CountersExact'
  BY <1>1 DEF CountersExact, AnsweredBy, Requests
<1>2. ASSUME NEW r \in Requests, RequestStep(r)
      PROVE  CountersExact'
  <2>1. ASSUME NEW q \in Inputs, Receive(r, q) PROVE CountersExact'
    <3>1. Panicked' = Panicked
      BY <2>1 DEF Receive, GoTo, Panicked, Requests, PipeInv, PipeTypeOK
    <3> QED
      BY <1>1, <2>1, <3>1 DEF Receive
  <2>2. ASSUME NEW status, NEW by \in {"router", "preflight", "error"}, NEW acao,
               Answer(r, status, by, acao), pc[r] \notin {"done", "panicked"},
               metrics' = metrics
        PROVE  CountersExact'
    <3>1. Count(CounterOf(by, status))
      BY <2>2 DEF Count, CounterOf, PipeInv, PipeTypeOK
    <3> QED
      BY <2>2, <3>1, AnswerCounted
  <2>3. CASE NotFound(r)
    BY <2>2, <2>3 DEF NotFound
  <2>4. CASE Preflight(r)
    BY <2>2, <2>4 DEF Preflight
  <2>5. CASE ProxyError(r)
    BY <2>2, <2>5 DEF ProxyError
  <2>6. CASE Unauthorized(r)
    BY <2>6, AnswerCounted DEF Unauthorized, CounterOf
  <2>7. CASE TooManyRequests(r)
    BY <2>7, AnswerCounted DEF TooManyRequests, CounterOf
  <2>8. CASE CacheHit(r)
    <3> DEFINE status == store[BuildKey(input[r])]
    <3>1. /\ pc[r] \notin {"done", "panicked"} /\ Answer(r, status, "cache", FALSE)
          /\ Count({"cache_hits_total"})
      BY <2>8 DEF CacheHit
    <3> HIDE DEF status
    <3>2. Count(CounterOf("cache", status))
      BY <3>1 DEF CounterOf
    <3> QED
      BY <3>1, <3>2, AnswerCounted
  <2>9. CASE Relay(r)
    <3>1. PICK origin \in EchoedOrigins :
              Answer(r, reply[r], "upstream",
                     Cors.enabled /\ origin # "" /\ IsOriginAllowed(origin))
      BY <2>9 DEF Relay
    <3>2. pc[r] \notin {"done", "panicked"} /\ Count(CounterOf("upstream", reply[r]))
      <4>1. CounterOf("upstream", reply[r]) =
                {"requests_total"} \cup
                (IF reply[r] >= 400 THEN {"requests_error_total"} ELSE {})
        BY DEF CounterOf
      <4> QED
        BY <2>9, <4>1 DEF Relay
    <3> QED
      BY <3>1, <3>2, AnswerCounted
  <2>10. CASE \/ MatchRoute(r) \/ NoPreflight(r) \/ Authenticated(r) \/ WithinQuota(r)
            \/ CacheMiss(r) \/ ProxyStep(r) \/ Cancel(r) \/ Upstream(r)
    <3>1. \/ pc' = pc
          \/ /\ pc[r] # "panicked"
             /\ \E place \in {"cors", "auth", "limit", "cache", "proxy", "cancelled"} :
                    GoTo(r, place)
      BY <2>10 DEF MatchRoute, NoPreflight, Authenticated, WithinQuota, CacheMiss,
          ProxyStep, Cancel, Suspended, Upstream, pipeVars
    <3>2. Panicked' = Panicked
      BY <3>1 DEF GoTo, Panicked, Requests, PipeInv, PipeTypeOK
    <3>3. UNCHANGED <<response, metrics>>
      BY <2>10 DEF MatchRoute, NoPreflight, Authenticated, WithinQuota, CacheMiss,
          ProxyStep, Cancel, Upstream, pipeVars
    <3> QED
      BY <1>1, <3>2, <3>3
  <2>11. CASE CacheHitPanics(r)
    BY <2>11, PanicCounted
  <2> QED
    BY <1>2, <2>1, <2>6, <2>7, <2>8, <2>9, <2>10, <2>11, <2>3, <2>4, <2>5
       DEF RequestStep, HandleRequest
<1>3. CASE TimePasses
  BY <1>1, <1>3 DEF TimePasses, pipeVars, Panicked
<1>4. ASSUME NEW k \in CacheKeys, SharedStore(k) PROVE CountersExact'
  BY <1>1, <1>4 DEF SharedStore, Panicked
<1>5. CASE UNCHANGED vars
  BY <1>1, <1>5 DEF vars, pipeVars, Panicked
<1> QED
  BY <1>2, <1>3, <1>4, <1>5 DEF Next, Finished, RequestStep

\* The counters of a new gateway are zero, and nothing was answered.
LEMMA InitCounters == Init => CountersExact
<1> SUFFICES ASSUME Init PROVE CountersExact
  OBVIOUS
<1>1. \A p : p # "nobody" => AnsweredBy(p) = {}
  BY DEF Init, AnsweredBy, NoResponse
<1>2. {r \in AnsweredBy("upstream") : response[r].status >= 400} = {}
  BY <1>1
<1>3. \A m \in Counters : metrics[m] = 0
  BY DEF Init
<1>4. Panicked = {}
  BY DEF Init, Panicked
<1>5. \A p \in {"upstream", "cache", "limiter", "auth"} : Cardinality(AnsweredBy(p)) = 0
  BY <1>1, FS_EmptySet
<1>6. /\ Cardinality(Panicked) = 0
      /\ Cardinality({r \in AnsweredBy("upstream") : response[r].status >= 400}) = 0
  BY <1>2, <1>4, FS_EmptySet
<1>7. metrics["cache_hits_total"] = Cardinality(AnsweredBy("cache")) + Cardinality(Panicked)
  BY <1>3, <1>5, <1>6 DEF Counters
<1> QED
  BY <1>3, <1>5, <1>6, <1>7 DEF CountersExact, Counters

\* For every configuration, number of requests and interleaving, the counters tell exactly
\* what was answered, once per request, however many attempts it took; only the cache hits
\* also count the handlers that panicked after the hit (CountersExact).
THEOREM GatewayCounters == Spec => []CountersExact
<1>1. Init => CountersExact
  BY InitCounters
<1>2. GatewayInv /\ CountersExact /\ [Next]_vars => CountersExact'
  BY StepCounters DEF GatewayInv, CallInv
<1> QED
  BY <1>1, <1>2, GatewayInvariant, PTL DEF Spec

-----------------------------------------------------------------------------
(* The contract.                                                           *)

\* A request that goes on to another place in handle_request is elsewhere in the contract
\* exactly if the contract tells the two places apart.
LEMMA PhaseMoves ==
    ASSUME PipeTypeOK, NEW r \in Requests, NEW place, GoTo(r, place)
    PROVE  PhaseMap' = [PhaseMap EXCEPT ![r] = PhaseOf(r)'] /\ pc'[r] = place
<1>1. pc'[r] = place /\ \A d \in Requests : d # r => pc'[d] = pc[d]
  BY DEF GoTo, PipeTypeOK
<1>2. \A d \in Requests : d # r => PhaseOf(d)' = PhaseOf(d)
  BY <1>1 DEF PhaseOf
<1>3. PhaseMap' = [d \in Requests |-> PhaseOf(d)']
  BY DEF PhaseMap, Requests
<1> QED
  BY <1>1, <1>2, <1>3 DEF PhaseMap

\* A place that the contract does not tell from the one before is a stutter.
LEMMA PhaseStays ==
    ASSUME PipeTypeOK, NEW r \in Requests, NEW place, GoTo(r, place), PhaseOf(r)' = PhaseOf(r)
    PROVE  PhaseMap' = PhaseMap
<1>1. PhaseMap' = [PhaseMap EXCEPT ![r] = PhaseMap[r]]
  BY PhaseMoves DEF PhaseMap
<1> QED
  BY <1>1 DEF PhaseMap

\* What a step leaves alone does not change in the contract either.
LEMMA SameMaps ==
    /\ pc' = pc => PhaseMap' = PhaseMap
    /\ response' = response => AnsweredMap' = AnsweredMap
    /\ plan' = plan => AllowanceMap' = AllowanceMap
BY DEF PhaseMap, PhaseOf, AnsweredMap, AnswererOf, AllowanceMap, Requests

\* An answer is an answer of the contract.
LEMMA AnswerMaps ==
    ASSUME PipeTypeOK, NEW r \in Requests, NEW status, NEW by, by # "nobody", NEW acao,
           Answer(r, status, by, acao)
    PROVE  /\ PhaseMap' = [PhaseMap EXCEPT ![r] = "answered"]
           /\ AnsweredMap' = [AnsweredMap EXCEPT ![r] =
                  [by |-> IF by \in {"upstream", "error"} THEN by ELSE "gateway",
                   status |-> status]]
<1>1. PhaseMap' = [PhaseMap EXCEPT ![r] = PhaseOf(r)'] /\ pc'[r] = "done"
  BY PhaseMoves DEF Answer
<1>2. PhaseOf(r)' = "answered"
  BY <1>1 DEF PhaseOf
<1>3. /\ response'[r].by = by /\ response'[r].status = status
      /\ \A d \in Requests : d # r => response'[d] = response[d]
  BY DEF Answer, PipeTypeOK
<1>4. AnsweredMap' = [d \in Requests |-> [by |-> AnswererOf(d)', status |-> response'[d].status]]
  BY DEF AnsweredMap, Requests
<1>5. /\ AnswererOf(r)' = IF by \in {"upstream", "error"} THEN by ELSE "gateway"
      /\ \A d \in Requests : d # r => AnswererOf(d)' = AnswererOf(d)
  BY <1>3 DEF AnswererOf
<1> QED
  BY <1>1, <1>2, <1>3, <1>4, <1>5 DEF AnsweredMap

\* An early return of handle_request is an answer of the gateway alone.
LEMMA LocalAnswer ==
    ASSUME GatewayInv, NEW r \in Requests, PhaseOf(r) = "pending",
           NEW status \in AnswerStatus, NEW acao,
           NEW by \in {"router", "preflight", "auth", "limiter", "cache"},
           Answer(r, status, by, acao), UNCHANGED callVars
    PROVE  Contract!AnswerLocally(r)
<1>1. /\ PhaseMap' = [PhaseMap EXCEPT ![r] = "answered"]
      /\ AnsweredMap' = [AnsweredMap EXCEPT ![r] = [by |-> "gateway", status |-> status]]
  BY AnswerMaps DEF GatewayInv, PipeInv
<1>2. AllowanceMap' = AllowanceMap /\ executed' = executed
  BY SameMaps DEF callVars
<1>3. PhaseMap[r] = "pending"
  BY DEF PhaseMap
<1> QED
  BY <1>1, <1>2, <1>3 DEF Contract!AnswerLocally, Contract!Move, Contract!AnswerWith

\* The statuses the gateway makes up are statuses of the contract.
LEMMA OwnStatuses == {204, 401, 404, 429} \subseteq AnswerStatus /\ Statuses \subseteq AnswerStatus
BY DEF AnswerStatus

\* A call that fails is answered with 500, or with 502 if it made no attempt at all.
LEMMA ErrorStatus ==
    ASSUME CallTypeOK, NEW r \in Calls,
           \/ NoAttempts(r)
           \/ CollectBodyError(r)
           \/ \E cause \in Causes : GiveUp(r, cause) \/ ReadBodyError(r, cause)
    PROVE  /\ StatusCode(error'[r]) \in {500, 502}
           /\ StatusCode(error'[r]) = 502 => plan[r].max = 0
           /\ plan' = plan /\ executed' = executed
<1>1. error'[r] \in {"Proxy", "UpstreamUnavailable"}
  BY DEF CallTypeOK, NoAttempts, CollectBodyError, GiveUp, ReadBodyError, Fail
<1>2. error'[r] = "UpstreamUnavailable" => plan[r].max = 0
  BY DEF CallTypeOK, NoAttempts, CollectBodyError, GiveUp, ReadBodyError, Fail
<1>3. plan' = plan /\ executed' = executed
  BY DEF NoAttempts, CollectBodyError, GiveUp, ReadBodyError
<1>4. StatusCode("Proxy") = 500 /\ StatusCode("UpstreamUnavailable") = 502
  BY DEF StatusCode
<1> QED
  BY <1>1, <1>2, <1>3, <1>4

\* A request that an upstream may still execute has some of its allowance left.
LEMMA WireMeansAllowance ==
    ASSUME CallInv, NEW r \in Calls, NEW n \in wire[r]
    PROVE  executed[r] < plan[r].max
<1>1. /\ IsFiniteSet(wire[r]) /\ executed[r] + Cardinality(wire[r]) = attempt[r]
      /\ attempt[r] <= plan[r].max
  BY DEF CallInv, CallOK, Accounted
<1>2. executed[r] \in Nat /\ attempt[r] \in Nat /\ plan[r].max \in Nat
  BY DEF CallInv, CallTypeOK
<1>3. Cardinality(wire[r]) \in Nat /\ Cardinality(wire[r]) # 0
  BY <1>1, FS_CardinalityType, FS_EmptySet
<1> QED
  BY <1>1, <1>2, <1>3

\* Each step of a request is a step of the contract, or one that it does not show.
LEMMA StepContract ==
    ASSUME GatewayInv, NEW r \in Requests, RequestStep(r)
    PROVE  [Contract!Next]_(Contract!contractVars)
<1> /\ PipeInv /\ PipeTypeOK /\ PipeOK(r) /\ CallInv /\ CallTypeOK /\ CallOK(r) /\ r \in Calls
  BY DEF GatewayInv, PipeInv, CallInv, Requests
<1>1. ASSUME NEW q \in Inputs, Receive(r, q) PROVE Contract!Receive(r)
  <2>1. PhaseMap' = [PhaseMap EXCEPT ![r] = PhaseOf(r)'] /\ pc'[r] = "route" /\ pc[r] = "idle"
    BY <1>1, PhaseMoves DEF Receive
  <2>2. PhaseMap[r] = "absent" /\ PhaseOf(r)' = "pending"
    BY <2>1 DEF PhaseMap, PhaseOf
  <2>3. UNCHANGED <<AnsweredMap, AllowanceMap, executed>>
    BY <1>1, SameMaps DEF Receive, callVars
  <2> QED
    BY <2>1, <2>2, <2>3 DEF Contract!Receive, Contract!Move
<1>2. ASSUME NotFound(r) PROVE Contract!AnswerLocally(r)
  <2>1. PhaseOf(r) = "pending" /\ UNCHANGED callVars
    BY <1>2 DEF NotFound, PhaseOf
  <2>2. Answer(r, 404, "router", FALSE)
    BY <1>2 DEF NotFound
  <2> QED
    BY <2>1, <2>2, LocalAnswer, OwnStatuses
<1>3. ASSUME Preflight(r) PROVE Contract!AnswerLocally(r)
  <2>1. PhaseOf(r) = "pending" /\ UNCHANGED callVars
    BY <1>3 DEF Preflight, PhaseOf
  <2> QED
    BY <1>3, <2>1, LocalAnswer, OwnStatuses DEF Preflight
<1>4. ASSUME Unauthorized(r) PROVE Contract!AnswerLocally(r)
  <2>1. PhaseOf(r) = "pending" /\ UNCHANGED callVars
    BY <1>4 DEF Unauthorized, PhaseOf
  <2> QED
    BY <1>4, <2>1, LocalAnswer, OwnStatuses DEF Unauthorized
<1>5. ASSUME TooManyRequests(r) PROVE Contract!AnswerLocally(r)
  <2>1. PhaseOf(r) = "pending" /\ UNCHANGED callVars
    BY <1>5 DEF TooManyRequests, PhaseOf
  <2> QED
    BY <1>5, <2>1, LocalAnswer, OwnStatuses DEF TooManyRequests
<1>6. ASSUME CacheHit(r) PROVE Contract!AnswerLocally(r)
  <2> DEFINE status == store[BuildKey(input[r])]
  <2>1. /\ Answer(r, status, "cache", FALSE) /\ status \notin {NoReply, Unbuildable}
        /\ UNCHANGED callVars
    BY <1>6 DEF CacheHit
  <2>2. PhaseOf(r) = "pending"
    BY <1>6 DEF CacheHit, PhaseOf
  <2>3. BuildKey(input[r]) \in CacheKeys
    <3>1. input[r] \in Inputs
      BY <1>6 DEF CacheHit, PipeOK, ChecksHold
    <3> QED
      BY <3>1, Zenon DEF CacheKeys
  <2>4. status \in AnswerStatus
    BY <2>1, <2>3, OwnStatuses DEF PipeTypeOK
  <2> HIDE DEF status
  <2> QED
    BY <2>1, <2>2, <2>4, LocalAnswer
<1>7. CASE MatchRoute(r) \/ NoPreflight(r) \/ Authenticated(r) \/ WithinQuota(r)
  <2>1. PICK place \in {"cors", "auth", "limit", "cache"} : GoTo(r, place)
    BY <1>7 DEF MatchRoute, NoPreflight, Authenticated, WithinQuota
  <2>2. PhaseOf(r)' = "pending" /\ PhaseOf(r) = "pending"
    BY <1>7, <2>1, PhaseMoves DEF MatchRoute, NoPreflight, Authenticated, WithinQuota, PhaseOf
  <2>3. PhaseMap' = PhaseMap
    BY <2>1, <2>2, PhaseStays
  <2>4. UNCHANGED <<AnsweredMap, AllowanceMap, executed>>
    BY <1>7, SameMaps DEF MatchRoute, NoPreflight, Authenticated, WithinQuota, callVars
  <2> QED
    BY <2>3, <2>4 DEF Contract!contractVars
<1>8. CASE CacheMiss(r)
  <2> DEFINE n == MaxAttempts(Routes[route[r]])
  <2>1. PhaseMap' = [PhaseMap EXCEPT ![r] = PhaseOf(r)'] /\ pc'[r] = "proxy" /\ pc[r] = "cache"
    BY <1>8, PhaseMoves DEF CacheMiss
  <2>2. PhaseMap[r] = "pending" /\ PhaseOf(r)' = "forwarded"
    BY <2>1 DEF PhaseMap, PhaseOf
  <2>3. n \in Budgets
    BY <1>8, GatewayAssumption DEF CacheMiss, PipeOK, ChecksHold, Routed
  <2>4. AllowanceMap' = [AllowanceMap EXCEPT ![r] = n]
    <3>1. plan' = [plan EXCEPT ![r] = [max |-> n, timed |-> Routes[route[r]].timeout_ms]]
      BY <1>8 DEF CacheMiss, StartCall
    <3> HIDE DEF n
    <3>2. AllowanceMap' = [d \in Requests |-> plan'[d].max]
      BY DEF AllowanceMap, Requests
    <3>3. plan'[r].max = n /\ \A d \in Requests : d # r => plan'[d] = plan[d]
      BY <3>1 DEF CallTypeOK, Requests
    <3> QED
      BY <3>2, <3>3 DEF AllowanceMap
  <2>5. UNCHANGED <<AnsweredMap, executed>>
    BY <1>8, SameMaps DEF CacheMiss, StartCall
  <2> HIDE DEF n
  <2>6. Contract!Forward(r)
    BY <2>1, <2>2, <2>3, <2>4, <2>5 DEF Contract!Forward, Contract!Move
  <2> QED
    BY <2>6 DEF Contract!Next
<1>9. CASE ProxyStep(r)
  <2>1. UNCHANGED <<pc, response, plan, executed>>
    BY <1>9 DEF ProxyStep, pipeVars, CollectBody, RetryAfterReply, RetryAfterError,
        BackoffElapsed, AcceptReply
  <2> QED
    BY <2>1, SameMaps DEF Contract!contractVars
<1>10. CASE Relay(r)
  <2>1. PICK origin \in EchoedOrigins :
            Answer(r, reply[r], "upstream",
                   Cors.enabled /\ origin # "" /\ IsOriginAllowed(origin))
    BY <1>10 DEF Relay
  <2>2. PhaseMap[r] = "forwarded"
    BY <1>10 DEF Relay, PhaseMap, PhaseOf
  <2>3. executed[r] >= 1 /\ reply[r] \in AnswerStatus
    <3>1. stage[r] = "read"
      BY <1>10 DEF Relay, ReadBody
    <3>2. executed[r] >= 1 /\ reply[r] # NoReply
      BY <3>1 DEF CallOK, Outcome
    <3>3. reply[r] \in Statuses \cup {NoReply}
      BY DEF CallTypeOK
    <3> QED
      BY <3>2, <3>3, OwnStatuses
  <2>4. /\ PhaseMap' = [PhaseMap EXCEPT ![r] = "answered"]
        /\ AnsweredMap' = [AnsweredMap EXCEPT ![r] = [by |-> "upstream", status |-> reply[r]]]
    BY <2>1, AnswerMaps
  <2>5. UNCHANGED <<AllowanceMap, executed>>
    BY <1>10, SameMaps DEF Relay, ReadBody
  <2>6. Contract!AnswerRelayed(r)
    BY <2>2, <2>3, <2>4, <2>5 DEF Contract!AnswerRelayed, Contract!Move, Contract!AnswerWith
  <2> QED
    BY <2>6 DEF Contract!Next
<1>11. CASE ProxyError(r)
  <2> DEFINE status == StatusCode(error'[r])
  <2>1. Answer(r, status, "error", FALSE)
    BY <1>11 DEF ProxyError
  <2>2. /\ status \in {500, 502} /\ (status = 502 => plan[r].max = 0)
        /\ plan' = plan /\ executed' = executed
    BY <1>11, ErrorStatus DEF ProxyError
  <2> HIDE DEF status
  <2>3. PhaseMap[r] = "forwarded"
    BY <1>11 DEF ProxyError, PhaseMap, PhaseOf
  <2>4. /\ PhaseMap' = [PhaseMap EXCEPT ![r] = "answered"]
        /\ AnsweredMap' = [AnsweredMap EXCEPT ![r] = [by |-> "error", status |-> status]]
    BY <2>1, AnswerMaps
  <2>5. AllowanceMap' = AllowanceMap /\ AllowanceMap[r] = plan[r].max
    BY <2>2, SameMaps DEF AllowanceMap
  <2>6. AnsweredMap'[r].status = 502 => AllowanceMap[r] = 0
    BY <2>2, <2>4, <2>5 DEF AnsweredMap
  <2>7. status \in AnswerStatus
    BY <2>2 DEF AnswerStatus
  <2>8. Contract!AnswerError(r)
    BY <2>2, <2>3, <2>4, <2>5, <2>6, <2>7
       DEF Contract!AnswerError, Contract!Move, Contract!AnswerWith
  <2> QED
    BY <2>8 DEF Contract!Next
<1>12. CASE Cancel(r)
  <2>1. PhaseMap' = [PhaseMap EXCEPT ![r] = PhaseOf(r)'] /\ pc'[r] = "cancelled"
    BY <1>12, PhaseMoves DEF Cancel
  <2>2. PhaseMap[r] \in {"pending", "forwarded"} /\ PhaseOf(r)' = "gone"
    BY <1>12, <2>1 DEF Cancel, Suspended, PhaseMap, PhaseOf
  <2>3. UNCHANGED <<AnsweredMap, AllowanceMap, executed>>
    BY <1>12, SameMaps DEF Cancel, DropCall, callVars
  <2>4. Contract!Leave(r)
    BY <2>1, <2>2, <2>3 DEF Contract!Leave, Contract!Move
  <2> QED
    BY <2>4 DEF Contract!Next
<1>13. CASE Upstream(r)
  <2>1. PICK n \in wire[r], status \in Statuses : Execute(r, n, status)
    BY <1>13 DEF Upstream
  <2>2. UNCHANGED <<PhaseMap, AnsweredMap, AllowanceMap>>
    BY <1>13, <2>1, SameMaps DEF Upstream, pipeVars, Execute
  <2>3. executed' = [executed EXCEPT ![r] = @ + 1]
    BY <2>1 DEF Execute
  <2>4. executed[r] < AllowanceMap[r]
    BY WireMeansAllowance DEF AllowanceMap
  <2>5. Contract!Effect(r)
    BY <2>2, <2>3, <2>4 DEF Contract!Effect
  <2> QED
    BY <2>5 DEF Contract!Next
<1>15. CASE CacheHitPanics(r)
  <2>1. PhaseMap' = [PhaseMap EXCEPT ![r] = PhaseOf(r)'] /\ pc'[r] = "panicked"
    BY <1>15, PhaseMoves DEF CacheHitPanics
  <2>2. PhaseMap[r] = "pending" /\ PhaseOf(r)' = "gone"
    BY <1>15, <2>1 DEF CacheHitPanics, PhaseMap, PhaseOf
  <2>3. UNCHANGED <<AnsweredMap, AllowanceMap, executed>>
    BY <1>15, SameMaps DEF CacheHitPanics, callVars
  <2>4. Contract!Leave(r)
    BY <2>1, <2>2, <2>3 DEF Contract!Leave, Contract!Move
  <2> QED
    BY <2>4 DEF Contract!Next
<1>14. CASE Contract!Receive(r) \/ Contract!AnswerLocally(r)
  BY <1>14 DEF Contract!Next
<1> QED
  BY <1>1, <1>2, <1>3, <1>4, <1>5, <1>6, <1>7, <1>8, <1>9, <1>10, <1>11, <1>12, <1>13,
     <1>14, <1>15 DEF RequestStep, HandleRequest

\* The pipeline implements its contract, for every configuration, number of requests and
\* behaviour of clients, upstreams and caches (ImplementsContract).
THEOREM GatewayImplementsContract == Spec => ImplementsContract
<1>1. Init => Contract!Init
  <2> SUFFICES ASSUME Init PROVE Contract!Init
    OBVIOUS
  <2>1. PhaseMap = [r \in Requests |-> "absent"]
    BY DEF Init, PhaseMap, PhaseOf
  <2>2. AnsweredMap = [r \in Requests |-> Contract!Nobody]
    BY DEF Init, AnsweredMap, AnswererOf, NoResponse, Contract!Nobody
  <2>3. AllowanceMap = [r \in Requests |-> 0] /\ executed = [r \in Requests |-> 0]
    BY DEF Init, CallInit, AllowanceMap, Requests
  <2> QED
    BY <2>1, <2>2, <2>3 DEF Contract!Init
<1>2. GatewayInv /\ [Next]_vars => [Contract!Next]_(Contract!contractVars)
  <2> SUFFICES ASSUME GatewayInv, [Next]_vars
               PROVE  [Contract!Next]_(Contract!contractVars)
    OBVIOUS
  <2>1. ASSUME NEW r \in Requests, RequestStep(r)
        PROVE  [Contract!Next]_(Contract!contractVars)
    BY <2>1, StepContract
  <2>2. ASSUME UNCHANGED <<pc, response, plan, executed>>
        PROVE  UNCHANGED Contract!contractVars
    BY <2>2, SameMaps DEF Contract!contractVars
  <2>3. CASE TimePasses
    BY <2>2, <2>3 DEF TimePasses, pipeVars, callVars
  <2>4. ASSUME NEW k \in CacheKeys, SharedStore(k)
        PROVE  UNCHANGED Contract!contractVars
    BY <2>2, <2>4 DEF SharedStore, callVars
  <2>5. CASE UNCHANGED vars
    BY <2>2, <2>5 DEF vars, pipeVars, callVars
  <2> QED
    BY <2>1, <2>3, <2>4, <2>5 DEF Next, Finished, RequestStep
<1> QED
  BY <1>1, <1>2, GatewayInvariant, PTL DEF Spec, ImplementsContract, Contract!Spec
=============================================================================
