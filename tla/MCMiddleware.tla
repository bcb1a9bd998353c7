---------------------------- MODULE MCMiddleware ---------------------------
(***************************************************************************)
(* Layer orders and requests for model checking Middleware.                *)
(***************************************************************************)
EXTENDS Middleware

\* The cache innermost, outermost, and between auth and the rest.
MCStacks == {<<"metrics", "cors", "auth", "limit", "cache">>,
             <<"cache", "limit", "cors", "auth", "metrics">>,
             <<"auth", "cache", "cors", "metrics", "limit">>}

MCRoutes == <<>>
MCAuth == [enabled |-> TRUE, provider |-> "jwt", excluded_paths |-> {}]
MCCors == [enabled |-> TRUE, allow_origins |-> {"app", "web"}]
MCRateLimit == [enabled |-> TRUE, key_strategy |-> "global"]
MCCache == [enabled |-> TRUE, backend |-> "memory", key_strategy |-> "uri"]
MCExcludedPrefixes == {<<"/", "api", "/", "auth", "/", "**">>}
MCDiscovery == [enabled |-> FALSE]

Ask(method, token, origin) ==
    [method |-> method, path |-> <<"/">>, origin |-> origin, token |-> token,
     forwarded_for |-> "", limit_header |-> "", vary |-> <<>>]

MCInputs == {Ask("GET", "good", "app"), Ask("GET", "bad", "web"), Ask("POST", "good", ""),
             Ask("OPTIONS", "none", "web"), Ask("GET", "unprintable", "")}

MCCacheUsers == Requests \cup Admins
MCStoreValues == Storable \cup {Unbuildable}
MCStoreKeys == {BuildKey(q) : q \in Inputs}
MCLimitKeys == {LimitKey(q) : q \in Inputs}
=============================================================================
