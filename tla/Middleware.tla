----------------------------- MODULE Middleware ----------------------------
(***************************************************************************)
(* The tower services of src/middleware/: each wraps an inner service, and *)
(* a stack of them wraps the service that answers.  The gateway does not   *)
(* use them (handle_request has its own steps); they are what the crate    *)
(* offers to build another gateway from, in any order.                     *)
(*                                                                         *)
(* call() of a service is not async: it runs at once, and calls the inner  *)
(* service's call() before anything is awaited.  So calling the stack runs *)
(* the checks of every layer down to the first that refuses, those inside  *)
(* the cache included, down to the innermost service if none refuses, and  *)
(* only then the cache is looked up; after a hit the inner future is       *)
(* dropped.  The innermost service is anybody's: it may do its work in     *)
(* call(), as MockService in tests/middleware_test.rs does, or when its    *)
(* future is polled.                                                       *)
(* LoggingService passes everything through and is left out.               *)
(***************************************************************************)
EXTENDS Routing, RateLimiter, CacheBackend, FiniteSets

CONSTANTS
    Stacks,             \* layer orders, outermost first
    Requests,           \* calls of the stack
    Admins,             \* tasks that call delete or clear
    Inputs,             \* contents of the requests
    InnerRuns,          \* where the innermost service may do its work: "call", "poll"
    Statuses,           \* statuses the innermost service may answer with
    CacheableStatuses,  \* cache.cacheable_statuses
    CacheableMethods,   \* cache.cacheable_methods
    ExcludedPrefixes    \* cache.excluded_paths, which should_cache takes as they are written

Layers == {"metrics", "cors", "auth", "limit", "cache"}

\* No Origin header, or no Access-Control-Allow-Origin.
NoOrigin == ""

\* The origins a response may name.
Origins == {NoOrigin} \cup {q.origin : q \in Inputs}

\* What the cache layer may be given to store: should_cache looks at the status alone.
Storable ==
    [by : Layers \cup {"inner"}, status : CacheableStatuses, acao : Origins, hit : {FALSE}]

\* An entry that Response::builder refuses: its status is none (those are 100..999), or a
\* header is not valid.  Only another program that shares the Redis store writes one.
Unbuildable == [by |-> "inner", status |-> 1000, acao |-> NoOrigin, hit |-> FALSE]

\* A stack has each layer once.
ASSUME MiddlewareAssumption ==
    /\ \A s \in Stacks : s \in Seq(Layers) /\ IsInjective(s) /\ ToSet(s) = Layers
    /\ IsFiniteSet(Requests)
    /\ CacheUsers = Requests \cup Admins
    /\ Requests \cap Admins = {}
    /\ Inputs \subseteq Request
    /\ LimitKeys = {LimitKey(q) : q \in Inputs}
    /\ StoreKeys = {BuildKey(q) : q \in Inputs}
    /\ StoreValues = Storable \cup {Unbuildable}
    /\ InnerRuns \subseteq {"call", "poll"} /\ InnerRuns # {}
    /\ Statuses \cup CacheableStatuses \subseteq Nat \ {Unbuildable.status}

VARIABLES
    stack,      \* the order of the layers; it never changes
    pc,         \* pc[r]: what call r awaits
    input,      \* input[r]: the request
    depth,      \* depth[r]: place of the layer that refused it, Len(stack) + 1 if none did
    answer,     \* answer[r]: the response, as far as it has come through the layers
    ran,        \* ran[r]: the innermost service has worked on it
    counted     \* gateway_requests_total

mwVars == <<stack, pc, input, depth, answer, ran, counted>>

vars == <<mwVars, limVars, backVars>>

\* by: the layer or service that made the response; acao: the origin its CORS header allows,
\* NoOrigin if it has none; hit: it comes from the cache.
Response == [by : Layers \cup {"inner", "nobody"}, status : Nat, acao : Origins, hit : BOOLEAN]

NoAnswer == [by |-> "nobody", status |-> 0, acao |-> NoOrigin, hit |-> FALSE]

MwTypeOK ==
    /\ stack \in Stacks
    /\ pc \in [Requests -> {"idle", "lookup", "inner", "store",
                            "done", "failed", "gone", "panicked"}]
    /\ input \in [Requests -> Inputs]
    /\ depth \in [Requests -> 0..(Len(stack) + 1)]
    /\ answer \in [Requests -> Response]
    /\ ran \in [Requests -> BOOLEAN]
    /\ counted \in Nat
    /\ LimTypeOK
    /\ BackTypeOK

Init ==
    /\ stack \in Stacks
    /\ pc = [r \in Requests |-> "idle"]
    /\ input \in [Requests -> Inputs]
    /\ depth = [r \in Requests |-> 0]
    /\ answer = [r \in Requests |-> NoAnswer]
    /\ ran = [r \in Requests |-> FALSE]
    /\ counted = 0
    /\ LimInit
    /\ BackInit

-----------------------------------------------------------------------------

\* Place of a layer in the stack.
Place(layer) == CHOOSE i \in DOMAIN stack : stack[i] = layer

\* Layer a wraps layer b, with or without others between them.
Outside(a, b) == Place(a) < Place(b)

\* Fault: a token of any kind will do.
AuthorisedAnyToken(q) ==
    ~ Auth.enabled \/ IsExcludedPath(q.path) \/ q.token # "none"

\* AuthService::call lets the request through.
Authorised(q) == ~ Auth.enabled \/ IsExcludedPath(q.path) \/ TokenAccepted(q)

\* CorsService answers every OPTIONS request itself; AuthService what it does not accept.
Refuses(layer, q) ==
    \/ layer = "cors" /\ q.method = "OPTIONS"
    \/ layer = "auth" /\ ~ Authorised(q)

\* The sub of an accepted token is no header value: AuthService::call panics.
Panics(layer, q) ==
    /\ layer = "auth"
    /\ Auth.enabled /\ ~ IsExcludedPath(q.path)
    /\ TokenAccepted(q) /\ q.token = "unprintable"

\* How deep the calls get, were it not for the limiter.
Reach(q) ==
    LET last == {i \in DOMAIN stack : Refuses(stack[i], q) \/ Panics(stack[i], q)}
    IN  IF last = {} THEN Len(stack) + 1
        ELSE CHOOSE i \in last : \A j \in last : i <= j

\* The response of the layer that refuses request q.
Refusal(layer, q) ==
    [by |-> layer, hit |-> FALSE,
     acao |-> IF layer = "cors" /\ IsOriginAllowed(q.origin) THEN q.origin ELSE NoOrigin,
     status |-> CASE layer = "cors"  -> IF IsOriginAllowed(q.origin) THEN 204 ELSE 403
                  [] layer = "auth"  -> 401
                  [] layer = "limit" -> 429]

\* Fault: the header names a configured origin, not that of the request.
OutwardsConfigured(response, q, from, to) ==
    IF /\ Place("cors") \in from..to
       /\ q.origin # NoOrigin /\ IsOriginAllowed(q.origin)
    THEN [response EXCEPT !.acao = CHOOSE o \in Cors.allow_origins : TRUE]
    ELSE response

\* A response on its way out through the layers at places from..to: CorsService sets the
\* header for the origin of its own request.
Outwards(response, q, from, to) ==
    IF /\ Place("cors") \in from..to
       /\ q.origin # NoOrigin /\ IsOriginAllowed(q.origin)
    THEN [response EXCEPT !.acao = q.origin]
    ELSE response

\* Fault: errors are counted as well.
CountThroughErrors(from, to, ok) ==
    counted' = IF Place("metrics") \in from..to THEN counted + 1 ELSE counted

\* MetricsService counts a response that comes through it; an error is not counted.
CountThrough(from, to, ok) ==
    counted' = IF ok /\ Place("metrics") \in from..to THEN counted + 1 ELSE counted

GoTo(r, place) == pc' = [pc EXCEPT ![r] = place]

\* The response leaves the layers at places 1..to and is the answer.
Return(r, response, to) ==
    /\ GoTo(r, "done")
    /\ answer' = [answer EXCEPT ![r] = Outwards(response, input[r], 1, to)]

\* The cache layer is asked about r: GET, and no layer outside it refused.
Consults(r) == input[r].method = "GET" /\ depth[r] > Place("cache")

\* Fault: the verdict of check_key is only logged.
AskLimiterUnenforced(r, d) ==
    LET q == input[r]
    IN  /\ d = Reach(q)
        /\ \/ Place("limit") > Reach(q) /\ UNCHANGED limVars
           \/ Place("limit") < Reach(q) /\ (CheckKeyOk(LimitKey(q)) \/ CheckKeyErr(LimitKey(q)))

\* The limiter is asked if no layer outside it refuses.  Its verdict is the depth.
AskLimiter(r, d) ==
    LET q == input[r]
        l == Place("limit")
    IN  \/ l > Reach(q) /\ d = Reach(q) /\ UNCHANGED limVars
        \/ l < Reach(q) /\ d = Reach(q) /\ CheckKeyOk(LimitKey(q))
        \/ l < Reach(q) /\ d = l /\ CheckKeyErr(LimitKey(q))

\* call() of the whole stack, and the first poll of its future: a refusal outside the cache
\* is the answer at once, a GET waits for the cache, anything else for the inner service.
Call(r) ==
    /\ pc[r] = "idle"
    /\ \E d \in DOMAIN stack \cup {Len(stack) + 1} :
          /\ AskLimiter(r, d)
          /\ d <= Len(stack) => ~ Panics(stack[d], input[r])
          /\ depth' = [depth EXCEPT ![r] = d]
          /\ CASE input[r].method = "GET" /\ d > Place("cache") ->
                    /\ GoTo(r, "lookup")
                    /\ Issue(r, [op |-> "get", key |-> BuildKey(input[r])])
                    /\ \E moment \in InnerRuns :
                          ran' = [ran EXCEPT ![r] = d > Len(stack) /\ moment = "call"]
                    /\ UNCHANGED <<answer, counted>>
               [] ~ (input[r].method = "GET" /\ d > Place("cache")) /\ d <= Len(stack) ->
                    /\ Return(r, Refusal(stack[d], input[r]), d - 1)
                    /\ CountThrough(1, d - 1, TRUE)
                    /\ UNCHANGED <<ran, backVars>>
               [] OTHER ->
                    /\ GoTo(r, "inner")
                    /\ ran' = [ran EXCEPT ![r] = TRUE]
                    /\ UNCHANGED <<answer, counted, backVars>>
    /\ UNCHANGED <<stack, input>>

\* call() comes as far as the layer that panics: no layer outside of it gets a future.
CallPanics(r) ==
    /\ pc[r] = "idle"
    /\ \E d \in DOMAIN stack :
          /\ AskLimiter(r, d)
          /\ Panics(stack[d], input[r])
          /\ depth' = [depth EXCEPT ![r] = d]
    /\ GoTo(r, "panicked")
    /\ UNCHANGED <<stack, input, answer, ran, counted, backVars>>

\* The future of the cache or of the inner service goes on by itself.
Backend(t) ==
    /\ BackStep(t)
    /\ UNCHANGED <<mwVars, limVars>>

\* Ok(Some(cached)): the inner future is dropped.
Hit(r) ==
    /\ pc[r] = "lookup"
    /\ Take(r)
    /\ \E value \in result[r] \ {Unbuildable} :
          Return(r, [value EXCEPT !.hit = TRUE], Place("cache") - 1)
    /\ CountThrough(1, Place("cache") - 1, TRUE)
    /\ UNCHANGED <<stack, input, depth, ran, limVars>>

\* builder.body(..).unwrap() panics, and both futures are dropped.
HitPanics(r) ==
    /\ pc[r] = "lookup"
    /\ Take(r)
    /\ Unbuildable \in result[r]
    /\ GoTo(r, "panicked")
    /\ UNCHANGED <<stack, input, depth, answer, ran, counted, limVars>>

\* Fault: a response is cacheable whatever its status.
ShouldCacheAny(method, path, status) ==
    /\ Cache.enabled
    /\ method \in CacheableMethods
    /\ ~ \E p \in ExcludedPrefixes : IsPrefix(p, path)

ShouldCache(method, path, status) ==
    /\ Cache.enabled
    /\ method \in CacheableMethods
    /\ status \in CacheableStatuses
    /\ ~ \E p \in ExcludedPrefixes : IsPrefix(p, path)

\* A response of what the cache layer wraps has come up to it: it is stored, or goes on.
\* should_cache is asked about Request::new(()), a GET of "/", not about the request.
Arrives(r, response) ==
    LET inner == Outwards(response, input[r], Place("cache") + 1, depth[r] - 1)
    IN  IF ShouldCache("GET", <<"/">>, response.status)
        THEN /\ GoTo(r, "store")
             /\ answer' = [answer EXCEPT ![r] = inner]
             /\ CountThrough(Place("cache") + 1, depth[r] - 1, TRUE)
             /\ Issue(r, [op |-> "set", key |-> BuildKey(input[r]), value |-> inner])
        ELSE /\ Return(r, inner, Place("cache") - 1)
             /\ CountThrough(1, depth[r] - 1, TRUE)
             /\ Forget(r)
             /\ UNCHANGED <<backend, store, manager, lockVars>>

\* Ok(None) or Err(_): the inner future is awaited.  If a layer inside refused, it is ready.
Miss(r) ==
    /\ pc[r] = "lookup"
    /\ step[r] = "done"
    /\ result[r] = {}
    /\ IF depth[r] <= Len(stack)
       THEN /\ Arrives(r, Refusal(stack[depth[r]], input[r]))
            /\ UNCHANGED ran
       ELSE /\ Take(r)
            /\ GoTo(r, "inner")
            /\ ran' = [ran EXCEPT ![r] = TRUE]
            /\ UNCHANGED <<answer, counted>>
    /\ UNCHANGED <<stack, input, depth, limVars>>

\* The innermost service answers.
Inner(r) ==
    /\ pc[r] = "inner"
    /\ \E status \in Statuses :
          LET response == [by |-> "inner", status |-> status, acao |-> NoOrigin, hit |-> FALSE]
          IN  IF Consults(r)
              THEN Arrives(r, response)
              ELSE /\ Return(r, response, Len(stack))
                   /\ CountThrough(1, Len(stack), TRUE)
                   /\ UNCHANGED backVars
    /\ UNCHANGED <<stack, input, depth, ran, limVars>>

\* It fails: every layer passes the error on.
InnerErr(r) ==
    /\ pc[r] = "inner"
    /\ GoTo(r, "failed")
    /\ CountThrough(1, Len(stack), FALSE)
    /\ UNCHANGED <<stack, input, depth, answer, ran, limVars, backVars>>

\* set() has returned, Ok or Err.
Stored(r) ==
    /\ pc[r] = "store"
    /\ Take(r)
    /\ Return(r, answer[r], Place("cache") - 1)
    /\ CountThrough(1, Place("cache") - 1, TRUE)
    /\ UNCHANGED <<stack, input, depth, ran, limVars>>

\* The future of the stack is dropped.
Cancel(r) ==
    /\ pc[r] \in {"lookup", "inner", "store"}
    /\ GoTo(r, "gone")
    /\ IF pc[r] = "inner" THEN UNCHANGED backVars ELSE DropCommand(r)
    /\ UNCHANGED <<stack, input, depth, answer, ran, counted, limVars>>

\* External: somebody deletes an entry or clears the cache.
Administer(t) ==
    /\ step[t] = "idle"
    /\ \E c \in {[op |-> "clear"]} \cup {[op |-> "delete", key |-> k] : k \in StoreKeys} :
          Issue(t, c)
    /\ UNCHANGED <<mwVars, limVars>>

Administered(t) ==
    /\ Take(t)
    /\ UNCHANGED <<mwVars, limVars>>

\* External: another program that shares the Redis store writes an entry this one cannot use.
ForeignEntry(k) ==
    /\ SetByOthers(k, Unbuildable)
    /\ UNCHANGED <<mwVars, limVars>>

TimePasses ==
    \/ Replenish /\ UNCHANGED <<mwVars, backVars>>
    \/ Second /\ UNCHANGED <<mwVars, limVars>>
    \/ \E k \in StoreKeys : Evict(k) /\ UNCHANGED <<mwVars, limVars>>

Next ==
    \/ \E r \in Requests :
          \/ Call(r) \/ CallPanics(r) \/ Hit(r) \/ HitPanics(r) \/ Miss(r)
          \/ Inner(r) \/ InnerErr(r) \/ Stored(r) \/ Backend(r) \/ Cancel(r)
    \/ \E t \in Admins : Administer(t) \/ Backend(t) \/ Administered(t)
    \/ \E k \in StoreKeys : ForeignEntry(k)
    \/ TimePasses

Spec == Init /\ [][Next]_vars

\* tokio polls a future that is ready; the service inside the stack answers or fails, Redis
\* answers or its connection breaks.  Nothing makes anybody call or cancel.
Fairness ==
    /\ \A r \in Requests : /\ WF_vars(Hit(r) \/ HitPanics(r) \/ Miss(r) \/ Stored(r))
                           /\ WF_vars(Inner(r) \/ InnerErr(r))
    /\ \A t \in CacheUsers : WF_vars(Backend(t))

FairSpec == Spec /\ Fairness

-----------------------------------------------------------------------------

\* With auth outside the cache nobody gets a response of the inner service, fresh or cached,
\* without being authorised for his own request: the cache is shared, and an entry filled
\* for one caller is served to others (auth.rs:150-197, middleware/cache.rs:72-82).
AuthGuardsCache ==
    Outside("auth", "cache") =>
        \A r \in Requests :
            answer[r].by = "inner" => \/ ~ Auth.enabled
                                      \/ IsExcludedPath(input[r].path)
                                      \/ TokenAccepted(input[r])

\* The origins of the requests that share cache key k.
OriginsOf(k) ==
    {input[x].origin : x \in {y \in Requests : input[y].method = "GET" /\ BuildKey(input[y]) = k}}

\* A response names no origin but that of the request it answers, fresh or cached, with one
\* exception: a hit of a cache that stands outside CORS may name the origin of another
\* request, but only of a GET with the very same cache key (cors.rs:146-157,
\* middleware/cache.rs:67-82).
OwnOrigin ==
    \A r \in Requests :
        \/ answer[r].acao \in {NoOrigin, input[r].origin}
        \/ /\ answer[r].hit
           /\ Outside("cache", "cors")
           /\ answer[r].acao \in OriginsOf(BuildKey(input[r]))

\* Place of the layer or service an answer came from.
Source(r) == IF answer[r].hit THEN Place("cache") ELSE depth[r]

\* MetricsService counts an answer exactly once, if and only if it comes through it: refusals
\* and hits outside of it, errors and cancelled calls are not counted, wherever it stands in
\* the stack (middleware/metrics.rs:55-80).
CountedOnce ==
    counted = Cardinality({r \in Requests :
                  /\ answer[r].by # "nobody"
                  /\ Place("metrics") < Source(r)
                  /\ \/ pc[r] = "done"
                     \/ pc[r] \in {"store", "gone"} /\ Outside("cache", "metrics")})

\* The innermost service runs at most burst plus one time per interval for a key, whether
\* the limiter stands outside or inside the cache (rate_limit.rs:117-133).
InnerWithinQuota ==
    \A k \in LimitKeys :
        Cardinality({r \in Requests : ran[r] /\ LimitKey(input[r]) = k}) <= Burst + intervals

\* Every call ends, with an answer, an error or a panic or because it is dropped, although
\* all commands to Redis queue behind the one that connects and any of them may be dropped in
\* the queue (redis.rs:25-37).
CallsEnd ==
    \A r \in Requests :
        (pc[r] # "idle") ~> (pc[r] \in {"done", "failed", "gone", "panicked"})
=============================================================================
