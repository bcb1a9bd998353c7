----------------------------- MODULE MCGateway -----------------------------
(***************************************************************************)
(* Configurations and requests for model checking Gateway.                 *)
(***************************************************************************)
EXTENDS GatewayRefinement, TLC

MCUnresolved == "unresolved"
MCServiceEndpoints == {"svc-1", "svc-2"}

AnyMethod == {}
NoPrefix  == {}

RouteTo(base, glob, type, endpoints) ==
    [path |-> [base |-> base, glob |-> glob], methods |-> AnyMethod,
     upstream |-> [type |-> type, endpoints |-> endpoints], strip_prefix |-> NoPrefix,
     max_attempts |-> {}, timeout_ms |-> TRUE, cache_enabled |-> FALSE, auth_required |-> FALSE]

ApiRoute == [RouteTo(<<"/", "api">>, "/**", "static", <<"users-1">>) EXCEPT
                !.strip_prefix = {<<"/", "api">>}, !.max_attempts = {2}, !.cache_enabled = TRUE]
SvcRoute == [RouteTo(<<"/", "svc">>, "/*", "service", <<>>) EXCEPT
                !.methods = {{"GET", "OPTIONS"}}, !.auth_required = TRUE]
\* A load balancer that was left without endpoints, and a retry section with max_attempts 0.
EmptyRoute == RouteTo(<<"/", "lb">>, "", "load_balance", <<>>)
ZeroRoute  == [RouteTo(<<"/", "zero">>, "", "load_balance", <<"z-1", "z-2">>) EXCEPT
                !.max_attempts = {0}]

CoreRoutes  == <<ApiRoute, SvcRoute, EmptyRoute, ZeroRoute>>
CacheRoutes == <<ApiRoute, SvcRoute>>

JwtAuth  == [enabled |-> TRUE, provider |-> "jwt",
             excluded_paths |-> {[base |-> <<"/", "svc">>, glob |-> "/*"]}]
OneOrigin == [enabled |-> TRUE, allow_origins |-> {"app"}]
IpLimit  == [enabled |-> TRUE, key_strategy |-> "ip"]
NoLimit  == [enabled |-> FALSE, key_strategy |-> "global"]
MemoryCache == [enabled |-> TRUE, backend |-> "memory", key_strategy |-> "uri_with_method"]
RedisCache  == [enabled |-> TRUE, backend |-> "redis", key_strategy |-> "uri"]
WithDiscovery == [enabled |-> TRUE]

Ask(method, path, token, from) ==
    [method |-> method, path |-> path, origin |-> "app", token |-> token,
     forwarded_for |-> from, limit_header |-> "", vary |-> <<>>]

ApiUsers == <<"/", "api", "/", "users">>
SvcItem  == <<"/", "svc", "/", "item">>

CoreInputs ==
    {Ask("GET", ApiUsers, "good", "a"),
     Ask("POST", ApiUsers, "bad", "a"),
     Ask("OPTIONS", ApiUsers, "none", ""),
     [Ask("OPTIONS", SvcItem, "none", "a") EXCEPT !.origin = "other"],
     Ask("POST", SvcItem, "good", "a"),
     Ask("GET", <<"/", "lb">>, "good", "a"),
     Ask("GET", <<"/", "zero">>, "unprintable", "")}

CacheInputs == {Ask("GET", ApiUsers, "good", "a"), Ask("GET", SvcItem, "none", "a")}

UntimedInputs == {Ask("GET", ApiUsers, "good", "a")}

MCLimitKeys == {LimitKey(q) : q \in Inputs}
MCBudgets   == {MaxAttempts(Routes[i]) : i \in DOMAIN Routes}

Symmetry == Permutations(Calls)

-----------------------------------------------------------------------------
(* What comments, tests and docs of the repository say of the gateway, and *)
(* the code does not do: each is violated in the run that checks it.       *)

UntimedRoutes == <<[ApiRoute EXCEPT !.timeout_ms = FALSE]>>

\* gateway.rs:378 "Add CORS headers to actual response": a relayed response to a request
\* from an allowed origin carries the CORS headers.  The code looks for Origin among the
\* headers of the upstream's response.
CorsOnActualResponse ==
    \A r \in AnsweredBy("upstream") :
        (Cors.enabled /\ input[r].origin # "" /\ IsOriginAllowed(input[r].origin))
            => response[r].acao

\* gateway.rs:261 "No route matches the request": the router's 404 is for requests no route
\* matches.  The code answers it as well when the matching route cannot be resolved.
NotFoundMeansNoRoute ==
    \A r \in AnsweredBy("router") : MatchIndex(input[r]) = 0

\* integration_test.rs:355 "Second request - should be served from cache": a cacheable GET
\* is not forwarded once the same request was answered with 200.  handle_request reads the
\* cache and never fills it.
SecondIsServedFromCache ==
    [][\A r, s \in Requests :
          (pc[r] = "cache" /\ pc'[r] = "proxy" /\ ConsultsCache(r))
              => ~ (s \in AnsweredBy("upstream") /\ response[s].status = 200
                    /\ input[s] = input[r])]_vars
=============================================================================
