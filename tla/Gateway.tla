------------------------------ MODULE Gateway ------------------------------
(***************************************************************************)
(* Gateway::handle_request (src/gateway.rs): the pipeline every request    *)
(* goes through, run concurrently for all requests over the shared rate    *)
(* limiter (RateLimiter), proxy client (ProxyClient), response cache and   *)
(* metrics.  pc[r] is where request r is in handle_request.  Its steps     *)
(* between two awaits run without interruption by the client, so Cancel is *)
(* only possible at the awaits: the query to discovery, the cache lookup   *)
(* and the call of proxy().  Request ids, x-user-id, latencies, sizes and  *)
(* log lines are data no step depends on, and are left out.                *)
(***************************************************************************)
EXTENDS Routing, RateLimiter, ProxyClient, FiniteSets

CONSTANTS
    Inputs,         \* contents of the requests clients send
    EchoedOrigins   \* values of the Origin header of upstream responses; "" is absent

\* Requests are the calls of handle_request; each makes at most one call of proxy().
Requests == Calls

NoInput == [method |-> "", path |-> <<>>, origin |-> "", token |-> "none",
            forwarded_for |-> "", limit_header |-> "", vary |-> <<>>]

CacheKeys == {BuildKey(q) : q \in Inputs}

ASSUME GatewayAssumption ==
    /\ Inputs \subseteq Request
    /\ LimitKeys = {LimitKey(q) : q \in Inputs}
    /\ Budgets = {MaxAttempts(Routes[i]) : i \in DOMAIN Routes}
    /\ EchoedOrigins \subseteq STRING
    /\ IsFiniteSet(Calls)
    /\ Unresolved \notin ServiceEndpoints

VARIABLES
    pc,        \* pc[r]: progress of handle_request(r)
    input,     \* input[r]: the request
    route,     \* route[r]: index of the matched route, 0 before there is one
    target,    \* target[r]: the upstream the route resolved to
    response,  \* response[r]: what the client is answered
    store,     \* store[k]: status of the cached response for key k, NoReply or Unbuildable
    metrics    \* the counters of src/metrics.rs

pipeVars == <<pc, input, route, target, response, store, metrics>>

vars == <<pipeVars, limVars, callVars>>

Phases == {"idle", "route", "cors", "auth", "limit", "cache", "proxy",
           "done", "cancelled", "panicked"}

\* A cached response that Response::builder refuses: its status is none (those are 100..999),
\* or a header is not valid.  Another program that shares the Redis store may have written it.
Unbuildable == 1000

\* by: the step that produced the response; acao: add_cors_headers was applied.
NoResponse == [status |-> 0, by |-> "nobody", acao |-> FALSE]
Producers  == {"nobody", "router", "preflight", "auth", "limiter", "cache", "upstream", "error"}
Responses  == [status : Nat, by : Producers, acao : BOOLEAN]

Counters == {"requests_total", "requests_error_total", "cache_hits_total",
             "rate_limited_total", "auth_failures_total"}

PipeTypeOK ==
    /\ pc \in [Requests -> Phases]
    /\ input \in [Requests -> Inputs \cup {NoInput}]
    /\ route \in [Requests -> 0..Len(Routes)]
    /\ target \in [Requests -> STRING \cup ServiceEndpoints \cup {Unresolved}]
    /\ response \in [Requests -> Responses]
    /\ store \in [CacheKeys -> Statuses \cup {NoReply, Unbuildable}]
    /\ metrics \in [Counters -> Nat]

\* Every variable keeps its type.
TypeOK == PipeTypeOK /\ LimTypeOK /\ CallTypeOK

Init ==
    /\ pc = [r \in Requests |-> "idle"]
    /\ input = [r \in Requests |-> NoInput]
    /\ route = [r \in Requests |-> 0]
    /\ target = [r \in Requests |-> Unresolved]
    /\ response = [r \in Requests |-> NoResponse]
    /\ store = [k \in CacheKeys |-> NoReply]
    /\ metrics = [m \in Counters |-> 0]
    /\ LimInit
    /\ CallInit

-----------------------------------------------------------------------------

GoTo(r, phase) == pc' = [pc EXCEPT ![r] = phase]

Answer(r, status, by, acao) ==
    /\ GoTo(r, "done")
    /\ response' = [response EXCEPT ![r] = [status |-> status, by |-> by, acao |-> acao]]

Count(names) == metrics' = [m \in Counters |-> IF m \in names THEN metrics[m] + 1 ELSE metrics[m]]

Receive(r, q) ==
    /\ pc[r] = "idle"
    /\ GoTo(r, "route")
    /\ input' = [input EXCEPT ![r] = q]
    /\ UNCHANGED <<route, target, response, store, metrics, limVars, callVars>>

\* match_route returns None: no entry accepts the request, or the first one that
\* does cannot be resolved (resolve_upstream(..).await.ok()?).
NotFound(r) ==
    /\ pc[r] = "route"
    /\ LET i == MatchIndex(input[r])
       IN  i # 0 => Unresolved \in ResolveUpstream(Routes[i].upstream)
    /\ Answer(r, 404, "router", FALSE)
    /\ UNCHANGED <<input, route, target, store, metrics, limVars, callVars>>

MatchRoute(r) ==
    LET i == MatchIndex(input[r])
    IN  /\ pc[r] = "route"
        /\ i # 0
        /\ \E t \in ResolveUpstream(Routes[i].upstream) \ {Unresolved} :
              target' = [target EXCEPT ![r] = t]
        /\ route' = [route EXCEPT ![r] = i]
        /\ GoTo(r, "cors")
        /\ UNCHANGED <<input, response, store, metrics, limVars, callVars>>

IsPreflight(q) == Cors.enabled /\ q.method = "OPTIONS" /\ IsOriginAllowed(q.origin)

\* build_preflight_response always sets Access-Control-Allow-Origin.
Preflight(r) ==
    /\ pc[r] = "cors"
    /\ IsPreflight(input[r])
    /\ Answer(r, 204, "preflight", TRUE)
    /\ UNCHANGED <<input, route, target, store, metrics, limVars, callVars>>

NoPreflight(r) ==
    /\ pc[r] = "cors"
    /\ ~ IsPreflight(input[r])
    /\ GoTo(r, "auth")
    /\ UNCHANGED <<input, route, target, response, store, metrics, limVars, callVars>>

AuthPasses(q) == ~ Auth.enabled \/ IsExcludedPath(q.path) \/ TokenAccepted(q)

\* Fault: any token will do.
AuthenticatedAnyToken(r) ==
    /\ pc[r] = "auth"
    /\ AuthPasses(input[r]) \/ input[r].token # "none"
    /\ GoTo(r, "limit")
    /\ UNCHANGED <<input, route, target, response, store, metrics, limVars, callVars>>

\* Missing token and rejected token alike.
Unauthorized(r) ==
    /\ pc[r] = "auth"
    /\ ~ AuthPasses(input[r])
    /\ Answer(r, 401, "auth", FALSE)
    /\ Count({"auth_failures_total"})
    /\ UNCHANGED <<input, route, target, store, limVars, callVars>>

Authenticated(r) ==
    /\ pc[r] = "auth"
    /\ AuthPasses(input[r])
    /\ GoTo(r, "limit")
    /\ UNCHANGED <<input, route, target, response, store, metrics, limVars, callVars>>

TooManyRequests(r) ==
    /\ pc[r] = "limit"
    /\ RateLimit.enabled
    /\ CheckKeyErr(LimitKey(input[r]))
    /\ Answer(r, 429, "limiter", FALSE)
    /\ Count({"rate_limited_total"})
    /\ UNCHANGED <<input, route, target, store, callVars>>

\* Fault: the verdict of check_key is only logged.
WithinQuotaUnenforced(r) ==
    /\ pc[r] = "limit"
    /\ RateLimit.enabled
    /\ CheckKeyOk(LimitKey(input[r])) \/ CheckKeyErr(LimitKey(input[r]))
    /\ GoTo(r, "cache")
    /\ UNCHANGED <<input, route, target, response, store, metrics, callVars>>

\* Fault: a cell is taken without asking whether one is left.
WithinQuotaUnasked(r) ==
    /\ pc[r] = "limit"
    /\ RateLimit.enabled
    /\ cells' = [cells EXCEPT ![LimitKey(input[r])] = @ - 1]
    /\ admitted' = [admitted EXCEPT ![LimitKey(input[r])] = @ + 1]
    /\ GoTo(r, "cache")
    /\ UNCHANGED <<intervals, input, route, target, response, store, metrics, callVars>>

WithinQuota(r) ==
    /\ pc[r] = "limit"
    /\ IF RateLimit.enabled THEN CheckKeyOk(LimitKey(input[r])) ELSE UNCHANGED limVars
    /\ GoTo(r, "cache")
    /\ UNCHANGED <<input, route, target, response, store, metrics, callVars>>

ConsultsCache(r) ==
    /\ Cache.enabled
    /\ Routes[route[r]].cache_enabled
    /\ input[r].method = "GET"

\* Fault: the upstream is called before the cache is looked at (as CacheService::call in
\* src/middleware/cache.rs does).
CacheHitAfterCall(r) ==
    LET status == store[BuildKey(input[r])]
    IN  /\ pc[r] = "cache"
        /\ ConsultsCache(r)
        /\ status \notin {NoReply, Unbuildable}
        /\ Answer(r, status, "cache", FALSE)
        /\ Count({"cache_hits_total"})
        /\ StartCall(r, MaxAttempts(Routes[route[r]]), Routes[route[r]].timeout_ms)
        /\ UNCHANGED <<input, route, target, store, limVars>>

\* Fault: a hit is not counted.
CacheHitUncounted(r) ==
    LET status == store[BuildKey(input[r])]
    IN  /\ pc[r] = "cache"
        /\ ConsultsCache(r)
        /\ status \notin {NoReply, Unbuildable}
        /\ Answer(r, status, "cache", FALSE)
        /\ UNCHANGED <<input, route, target, store, metrics, limVars, callVars>>

CacheHit(r) ==
    LET status == store[BuildKey(input[r])]
    IN  /\ pc[r] = "cache"
        /\ ConsultsCache(r)
        /\ status \notin {NoReply, Unbuildable}
        /\ Answer(r, status, "cache", FALSE)
        /\ Count({"cache_hits_total"})
        /\ UNCHANGED <<input, route, target, store, limVars, callVars>>

\* record_cache_hit has counted the hit when builder.body(..).unwrap() panics: the task of
\* the connection ends and nobody is answered.
CacheHitPanics(r) ==
    /\ pc[r] = "cache"
    /\ ConsultsCache(r)
    /\ store[BuildKey(input[r])] = Unbuildable
    /\ GoTo(r, "panicked")
    /\ Count({"cache_hits_total"})
    /\ UNCHANGED <<input, route, target, response, store, limVars, callVars>>

\* No lookup, Ok(None), or Err(_) from the backend (Redis unreachable): all go on to
\* the upstream.
CacheMiss(r) ==
    /\ pc[r] = "cache"
    /\ \/ ~ ConsultsCache(r)
       \/ store[BuildKey(input[r])] = NoReply
       \/ Cache.backend = "redis"
    /\ GoTo(r, "proxy")
    /\ StartCall(r, MaxAttempts(Routes[route[r]]), Routes[route[r]].timeout_ms)
    /\ UNCHANGED <<input, route, target, response, store, metrics, limVars>>

-----------------------------------------------------------------------------
(* The call of proxy_client.proxy(..).                                     *)

\* Steps of the call that do not finish it.
ProxyStep(r) ==
    /\ pc[r] = "proxy"
    /\ \/ CollectBody(r)
       \/ RetryAfterReply(r)
       \/ \E cause \in Causes : RetryAfterError(r, cause)
       \/ BackoffElapsed(r)
       \/ AcceptReply(r)
    /\ UNCHANGED <<pipeVars, limVars>>

\* Fault: the request is counted once per attempt.
RelayCountsAttempts(r) ==
    /\ pc[r] = "proxy"
    /\ ReadBody(r)
    /\ Answer(r, reply[r], "upstream", FALSE)
    /\ metrics' = [metrics EXCEPT !["requests_total"] = @ + attempt[r]]
    /\ UNCHANGED <<input, route, target, store, limVars>>

\* Ok(response): record_success, then the CORS headers for the Origin header of the
\* upstream's response.
Relay(r) ==
    /\ pc[r] = "proxy"
    /\ ReadBody(r)
    /\ \E origin \in EchoedOrigins :
          Answer(r, reply[r], "upstream",
                 Cors.enabled /\ origin # "" /\ IsOriginAllowed(origin))
    /\ Count({"requests_total"} \cup
             (IF reply[r] >= 400 THEN {"requests_error_total"} ELSE {}))
    /\ UNCHANGED <<input, route, target, store, limVars>>

\* Err(e): answered with e.status_code().
ProxyError(r) ==
    /\ pc[r] = "proxy"
    /\ \/ NoAttempts(r)
       \/ CollectBodyError(r)
       \/ \E cause \in Causes : GiveUp(r, cause) \/ ReadBodyError(r, cause)
    /\ Answer(r, StatusCode(error'[r]), "error", FALSE)
    /\ UNCHANGED <<input, route, target, store, metrics, limVars>>

-----------------------------------------------------------------------------

\* handle_request is suspended at an await.
Suspended(r) ==
    \/ /\ pc[r] = "route"
       /\ Discovery.enabled
       /\ MatchIndex(input[r]) # 0
       /\ Routes[MatchIndex(input[r])].upstream.type = "service"
    \/ pc[r] = "cache" /\ ConsultsCache(r)
    \/ pc[r] = "proxy"

\* Fault: the cell a cancelled request took from the limiter is handed back.
CancelRefund(r) ==
    /\ Suspended(r)
    /\ GoTo(r, "cancelled")
    /\ IF pc[r] = "proxy" THEN DropCall(r) ELSE UNCHANGED callVars
    /\ IF pc[r] # "route" /\ RateLimit.enabled
       THEN /\ cells' = [cells EXCEPT ![LimitKey(input[r])] = @ + 1]
            /\ UNCHANGED <<admitted, intervals>>
       ELSE UNCHANGED limVars
    /\ UNCHANGED <<input, route, target, response, store, metrics>>

\* The client's connection closes and hyper drops the future of handle_request.
Cancel(r) ==
    /\ Suspended(r)
    /\ GoTo(r, "cancelled")
    /\ IF pc[r] = "proxy" THEN DropCall(r) ELSE UNCHANGED callVars
    /\ UNCHANGED <<input, route, target, response, store, metrics, limVars>>

Upstream(r) ==
    /\ \E n \in wire[r], status \in Statuses : Execute(r, n, status)
    /\ UNCHANGED <<pipeVars, limVars>>

TimePasses ==
    /\ Replenish
    /\ UNCHANGED <<pipeVars, callVars>>

\* External: a Redis store is shared with other processes, which fill it, with what this
\* program can make a response of or not, and whose entries expire.  Nothing in
\* handle_request writes the cache.
SharedStore(k) ==
    /\ Cache.enabled
    /\ Cache.backend = "redis"
    /\ \E status \in (Statuses \cup {NoReply, Unbuildable}) \ {store[k]} :
          store' = [store EXCEPT ![k] = status]
    /\ UNCHANGED <<pc, input, route, target, response, metrics, limVars, callVars>>

\* All requests are finished; the bound on their number is reached.
Finished ==
    /\ \A r \in Requests : pc[r] \in {"done", "cancelled", "panicked"}
    /\ UNCHANGED vars

HandleRequest(r) ==
    \/ NotFound(r) \/ MatchRoute(r)
    \/ Preflight(r) \/ NoPreflight(r)
    \/ Unauthorized(r) \/ Authenticated(r)
    \/ TooManyRequests(r) \/ WithinQuota(r)
    \/ CacheHit(r) \/ CacheHitPanics(r) \/ CacheMiss(r)
    \/ ProxyStep(r) \/ Relay(r) \/ ProxyError(r)

Next ==
    \/ \E r \in Requests :
          \/ \E q \in Inputs : Receive(r, q)
          \/ HandleRequest(r)
          \/ Cancel(r)
          \/ Upstream(r)
    \/ TimePasses
    \/ \E k \in CacheKeys : SharedStore(k)
    \/ Finished

Spec == Init /\ [][Next]_vars

\* tokio runs a handler whose await is ready, and its timers fire.  The discovery service
\* and the cache are assumed to answer, a client to finish its body or to go away; the
\* upstream is not obliged to anything.
Fairness(r) ==
    /\ WF_vars(NotFound(r) \/ MatchRoute(r))
    /\ WF_vars(Preflight(r) \/ NoPreflight(r) \/ Unauthorized(r) \/ Authenticated(r)
               \/ TooManyRequests(r) \/ WithinQuota(r))
    /\ WF_vars(CacheHit(r) \/ CacheHitPanics(r) \/ CacheMiss(r))
    /\ WF_vars(stage[r] = "body" /\ (ProxyStep(r) \/ ProxyError(r) \/ Cancel(r)))
    /\ WF_vars(ProxyStep(r) /\ (RetryAfterReply(r) \/ AcceptReply(r) \/ BackoffElapsed(r)))
    /\ WF_vars(\/ ProxyStep(r) /\ RetryAfterError(r, "timeout")
               \/ ProxyError(r) /\ (GiveUp(r, "timeout") \/ ReadBodyError(r, "timeout")))

FairSpec == Spec /\ \A r \in Requests : Fairness(r)

-----------------------------------------------------------------------------

\* Per key, the number of requests that were handed to the proxy, whatever became of them
\* (answered, failed, dropped), stays within the burst plus one per interval: no order of
\* check_key calls, cancellations and retries lets more through (gateway.rs:343-372).
ForwardedWithinQuota ==
    RateLimit.enabled =>
        \A k \in LimitKeys :
            Cardinality({r \in Requests : stage[r] # "none" /\ LimitKey(input[r]) = k})
                <= Burst + intervals

\* What was handed to the proxy passed every check for the very request that came in: it
\* matched the route it is sent on, its path was excluded from auth or its token accepted,
\* and it was not a preflight request the gateway answers itself (gateway.rs:253-372).
ForwardedIsAdmitted ==
    \A r \in Requests : stage[r] # "none" =>
        /\ route[r] = MatchIndex(input[r])
        /\ target[r] # Unresolved
        /\ plan[r].max = MaxAttempts(Routes[route[r]])
        /\ \/ ~ Auth.enabled
           \/ IsExcludedPath(input[r].path)
           \/ Auth.provider = "jwt" /\ input[r].token \in {"good", "unprintable"}
        /\ ~ (Cors.enabled /\ input[r].method = "OPTIONS" /\ IsOriginAllowed(input[r].origin))

\* A request the gateway answers itself (404, preflight, 401, 429, cache hit), or panics on,
\* is never seen by an upstream, neither before nor after (the early returns of
\* handle_request).
LocalAnswersStayLocal ==
    \A r \in Requests :
        \/ response[r].by \in {"router", "preflight", "auth", "limiter", "cache"}
        \/ pc[r] = "panicked"
        => stage[r] = "none" /\ wire[r] = {} /\ executed[r] = 0

AnsweredBy(p) == {r \in Requests : response[r].by = p}

\* The requests whose handler panicked.
Panicked == {r \in Requests : pc[r] = "panicked"}

\* The counters tell exactly what was answered: a request is counted once however many
\* attempts it took, and a cancelled or failed call is not counted (metrics.rs:150-190).
\* Only the cache hits include what nobody was answered: a hit is counted before the
\* response is built, which may panic (gateway.rs:360-366).
CountersExact ==
    /\ metrics["requests_total"] = Cardinality(AnsweredBy("upstream"))
    /\ metrics["requests_error_total"] =
           Cardinality({r \in AnsweredBy("upstream") : response[r].status >= 400})
    /\ metrics["cache_hits_total"] = Cardinality(AnsweredBy("cache")) + Cardinality(Panicked)
    /\ metrics["rate_limited_total"] = Cardinality(AnsweredBy("limiter"))
    /\ metrics["auth_failures_total"] = Cardinality(AnsweredBy("auth"))

\* If every route has a timeout, every request received is answered, or its client is gone or
\* its handler has panicked, even when upstreams hang (handle_request returns).
EveryRequestEnds ==
    \A r \in Requests : (pc[r] = "route") ~> (pc[r] \in {"done", "cancelled", "panicked"})
=============================================================================
