---------------------------- MODULE ProxyClient ----------------------------
(***************************************************************************)
(* ProxyClient::proxy and execute_with_retry (src/proxy.rs) together with  *)
(* the upstream they talk to.  A call reads the client's body, sends the   *)
(* request up to max_attempts times, and reads the body of the response it *)
(* accepts.  Each .await is a point where other calls run and where the    *)
(* call itself may be dropped (the client's connection closed).            *)
(*                                                                         *)
(* The upstream is external: a request that was sent may execute at any    *)
(* later time or never, even after the attempt that sent it timed out or   *)
(* its call was dropped.  One send() is one execution; a chain of redirects*)
(* that reqwest follows inside it is part of that execution.               *)
(***************************************************************************)
EXTENDS Naturals, FiniteSets

CONSTANTS
    Calls,        \* calls of proxy(), each made at most once
    Budgets,      \* values max_attempts may have (u32)
    Statuses      \* statuses an upstream may answer with

NoReply == 0

ASSUME ProxyAssumption ==
    /\ Budgets \subseteq Nat
    /\ Statuses \subseteq 100..599

VARIABLES
    stage,      \* stage[c]: where call c is
    plan,       \* plan[c]: its RetryConfig and whether its route has a timeout
    attempt,    \* attempt[c]: the loop variable of execute_with_retry
    reply,      \* reply[c]: status of the answer at hand, or NoReply
    error,      \* error[c]: the GatewayError a failed call returned
    wire,       \* wire[c]: attempts sent and not (yet) executed upstream
    executed    \* executed[c]: how often the upstream executed the request of c

callVars == <<stage, plan, attempt, reply, error, wire, executed>>

Waiting == {"body", "await", "backoff", "read"}     \* suspended at an .await
Settled == {"ok", "failed", "dropped"}
Stages  == {"none"} \cup Waiting \cup Settled

Errors == {"None", "Proxy", "UpstreamUnavailable"}

\* GatewayError::status_code
StatusCode(e) ==
    CASE e = "RateLimited"         -> 429
      [] e = "Auth"                -> 401
      [] e = "Timeout"             -> 504
      [] e = "UpstreamUnavailable" -> 502
      [] e = "InvalidUri"          -> 400
      [] OTHER                     -> 500

IsServerError(status) == status \in 500..599

CallTypeOK ==
    /\ stage \in [Calls -> Stages]
    /\ plan \in [Calls -> [max : Nat, timed : BOOLEAN]]
    /\ attempt \in [Calls -> Nat]
    /\ reply \in [Calls -> Statuses \cup {NoReply}]
    /\ error \in [Calls -> Errors]
    /\ wire \in [Calls -> SUBSET Nat]
    /\ executed \in [Calls -> Nat]

CallInit ==
    /\ stage = [c \in Calls |-> "none"]
    /\ plan = [c \in Calls |-> [max |-> 0, timed |-> FALSE]]
    /\ attempt = [c \in Calls |-> 0]
    /\ reply = [c \in Calls |-> NoReply]
    /\ error = [c \in Calls |-> "None"]
    /\ wire = [c \in Calls |-> {}]
    /\ executed = [c \in Calls |-> 0]

-----------------------------------------------------------------------------

\* Fault: max_attempts is taken as the number of retries after the first attempt.
StartCallRetriesOnly(c, max, timed) ==
    /\ stage[c] = "none"
    /\ stage' = [stage EXCEPT ![c] = "body"]
    /\ plan' = [plan EXCEPT ![c] = [max |-> max - 1, timed |-> timed]]
    /\ UNCHANGED <<attempt, reply, error, wire, executed>>

\* proxy() up to its first await, req.into_body().collect().
StartCall(c, max, timed) ==
    /\ stage[c] = "none"
    /\ stage' = [stage EXCEPT ![c] = "body"]
    /\ plan' = [plan EXCEPT ![c] = [max |-> max, timed |-> timed]]
    /\ UNCHANGED <<attempt, reply, error, wire, executed>>

\* request.send() of attempt n.
Send(c, n) ==
    /\ attempt' = [attempt EXCEPT ![c] = n]
    /\ wire' = [wire EXCEPT ![c] = @ \cup {n}]
    /\ stage' = [stage EXCEPT ![c] = "await"]

Fail(c, e) ==
    /\ stage' = [stage EXCEPT ![c] = "failed"]
    /\ error' = [error EXCEPT ![c] = e]

\* The body is in: enter the retry loop with attempt 1.
CollectBody(c) ==
    /\ stage[c] = "body"
    /\ plan[c].max >= 1
    /\ Send(c, 1)
    /\ UNCHANGED <<plan, reply, error, executed>>

\* The body is in and 1..=max_attempts is empty.
NoAttempts(c) ==
    /\ stage[c] = "body"
    /\ plan[c].max = 0
    /\ Fail(c, "UpstreamUnavailable")
    /\ UNCHANGED <<plan, attempt, reply, wire, executed>>

\* The body cannot be read, or try_clone finds no valid request to send (the upstream's
\* URL does not parse).
CollectBodyError(c) ==
    /\ stage[c] = "body"
    /\ Fail(c, "Proxy")
    /\ UNCHANGED <<plan, attempt, reply, wire, executed>>

\* External: the upstream executes attempt n; its answer reaches the call only if
\* the call still waits for that attempt.
Execute(c, n, status) ==
    /\ n \in wire[c]
    /\ wire' = [wire EXCEPT ![c] = @ \ {n}]
    /\ executed' = [executed EXCEPT ![c] = @ + 1]
    /\ reply' = IF stage[c] = "await" /\ attempt[c] = n
                THEN [reply EXCEPT ![c] = status] ELSE reply
    /\ UNCHANGED <<stage, plan, attempt, error>>

\* Ok(resp) with a 5xx and attempts left.
RetryAfterReply(c) ==
    /\ stage[c] = "await"
    /\ IsServerError(reply[c])
    /\ attempt[c] < plan[c].max
    /\ stage' = [stage EXCEPT ![c] = "backoff"]
    /\ reply' = [reply EXCEPT ![c] = NoReply]
    /\ UNCHANGED <<plan, attempt, error, wire, executed>>

\* Fault: a server error is passed on although attempts are left.
AcceptReplyAnyStatus(c) ==
    /\ stage[c] = "await"
    /\ reply[c] # NoReply
    /\ stage' = [stage EXCEPT ![c] = "read"]
    /\ UNCHANGED <<plan, attempt, reply, error, wire, executed>>

\* Ok(resp) returned to proxy(), which goes on to read the body.
AcceptReply(c) ==
    /\ stage[c] = "await"
    /\ reply[c] # NoReply
    /\ ~ (IsServerError(reply[c]) /\ attempt[c] < plan[c].max)
    /\ stage' = [stage EXCEPT ![c] = "read"]
    /\ UNCHANGED <<plan, attempt, reply, error, wire, executed>>

\* send() returns Err: the route's timeout fired, or the connection failed.
Causes == {"timeout", "network"}
Strikes(c, cause) == cause = "timeout" => plan[c].timed

\* Fault: off by one, a retry is made after the last attempt as well.
RetryAfterErrorOnceMore(c, cause) ==
    /\ stage[c] = "await"
    /\ Strikes(c, cause)
    /\ attempt[c] <= plan[c].max
    /\ stage' = [stage EXCEPT ![c] = "backoff"]
    /\ reply' = [reply EXCEPT ![c] = NoReply]
    /\ UNCHANGED <<plan, attempt, error, wire, executed>>

RetryAfterError(c, cause) ==
    /\ stage[c] = "await"
    /\ Strikes(c, cause)
    /\ attempt[c] < plan[c].max
    /\ stage' = [stage EXCEPT ![c] = "backoff"]
    /\ reply' = [reply EXCEPT ![c] = NoReply]
    /\ UNCHANGED <<plan, attempt, error, wire, executed>>

\* Fault: every failed call is reported as an unavailable upstream.
GiveUpUnavailable(c, cause) ==
    /\ stage[c] = "await"
    /\ Strikes(c, cause)
    /\ attempt[c] >= plan[c].max
    /\ Fail(c, "UpstreamUnavailable")
    /\ UNCHANGED <<plan, attempt, reply, wire, executed>>

GiveUp(c, cause) ==
    /\ stage[c] = "await"
    /\ Strikes(c, cause)
    /\ attempt[c] >= plan[c].max
    /\ Fail(c, "Proxy")
    /\ UNCHANGED <<plan, attempt, reply, wire, executed>>

\* Fault: the retry does not count as a new attempt.
BackoffElapsedUncounted(c) ==
    /\ stage[c] = "backoff"
    /\ Send(c, attempt[c])
    /\ UNCHANGED <<plan, reply, error, executed>>

\* Fault: retries run in a task of their own, which outlives the call that is dropped.
BackoffElapsedDetached(c) ==
    /\ \/ stage[c] = "backoff"
       \/ stage[c] = "dropped" /\ attempt[c] \in 1..(plan[c].max - 1)
    /\ Send(c, attempt[c] + 1)
    /\ UNCHANGED <<plan, reply, error, executed>>

\* tokio::time::sleep(b * attempt) is over: next iteration of the loop.
BackoffElapsed(c) ==
    /\ stage[c] = "backoff"
    /\ Send(c, attempt[c] + 1)
    /\ UNCHANGED <<plan, reply, error, executed>>

\* response.bytes() succeeds; proxy() returns Ok.
ReadBody(c) ==
    /\ stage[c] = "read"
    /\ stage' = [stage EXCEPT ![c] = "ok"]
    /\ UNCHANGED <<plan, attempt, reply, error, wire, executed>>

\* response.bytes() fails; the timeout of the attempt covers the body as well.
ReadBodyError(c, cause) ==
    /\ stage[c] = "read"
    /\ Strikes(c, cause)
    /\ Fail(c, "Proxy")
    /\ UNCHANGED <<plan, attempt, reply, wire, executed>>

\* The future of the call is dropped at the await it is suspended at.
DropCall(c) ==
    /\ stage[c] \in Waiting
    /\ stage' = [stage EXCEPT ![c] = "dropped"]
    /\ UNCHANGED <<plan, attempt, reply, error, wire, executed>>

-----------------------------------------------------------------------------

Progress(c) ==
    \/ CollectBody(c) \/ NoAttempts(c) \/ CollectBodyError(c)
    \/ RetryAfterReply(c) \/ AcceptReply(c) \/ BackoffElapsed(c)
    \/ ReadBody(c)
    \/ \E cause \in Causes :
          RetryAfterError(c, cause) \/ GiveUp(c, cause) \/ ReadBodyError(c, cause)

CallNext ==
    \E c \in Calls :
        \/ \E max \in Budgets, timed \in BOOLEAN : StartCall(c, max, timed)
        \/ Progress(c)
        \/ DropCall(c)
        \/ \E n \in wire[c], status \in Statuses : Execute(c, n, status)

CallSpec == CallInit /\ [][CallNext]_callVars

\* What drives a call forward: the client finishes its body or goes away, the task runs
\* when it is ready, sleep() and the route's timeout fire.  Nothing obliges the upstream.
CallFairness(c) ==
    /\ WF_callVars(CollectBody(c) \/ NoAttempts(c) \/ CollectBodyError(c)
                     \/ (stage[c] = "body" /\ DropCall(c)))
    /\ WF_callVars(RetryAfterReply(c) \/ AcceptReply(c))
    /\ WF_callVars(BackoffElapsed(c))
    /\ WF_callVars(RetryAfterError(c, "timeout") \/ GiveUp(c, "timeout")
                     \/ ReadBodyError(c, "timeout"))

FairCallSpec == CallSpec /\ \A c \in Calls : CallFairness(c)

-----------------------------------------------------------------------------

\* Every attempt is accounted for: it was executed once or is still under way, none twice,
\* and the loop neither skips nor repeats a number (execute_with_retry).
AttemptsAccounted ==
    \A c \in Calls :
        /\ wire[c] \subseteq 1..attempt[c]
        /\ executed[c] + Cardinality(wire[c]) = attempt[c]
        /\ attempt[c] <= plan[c].max

\* Late executions included (an attempt that timed out, a call that was dropped), the
\* upstream executes a request at most max_attempts times (execute_with_retry).
ExecutionsBounded ==
    \A c \in Calls : stage[c] # "none" => executed[c] <= plan[c].max

\* The response a client is given was produced by the upstream for the last attempt, and
\* a server error is only passed on once the attempts are used up (proxy.rs:152).
RelayedIsLastAttempt ==
    \A c \in Calls : stage[c] \in {"read", "ok"} =>
        /\ reply[c] # NoReply
        /\ executed[c] >= 1
        /\ attempt[c] \notin wire[c]
        /\ IsServerError(reply[c]) => attempt[c] = plan[c].max

\* UpstreamUnavailable (502) is only reported for a request the upstream never saw and
\* never will (proxy.rs:174).
UnavailableMeansNeverSent ==
    \A c \in Calls : error[c] = "UpstreamUnavailable" => executed[c] = 0 /\ wire[c] = {}

\* What a call settled on is final: a late execution upstream changes neither its
\* outcome nor the status it returned.
SettledIsFinal ==
    [][\A c \in Calls : stage[c] \in Settled =>
          /\ stage'[c] = stage[c]
          /\ reply'[c] = reply[c]
          /\ error'[c] = error[c]]_callVars

\* A call on a route with timeout_ms comes to an end even if the upstream never answers
\* an attempt: every attempt times out and the attempts run out (proxy.rs:146, 162).
TimedCallsSettle ==
    \A c \in Calls : (stage[c] = "body" /\ plan[c].timed) ~> (stage[c] \in Settled)
=============================================================================
