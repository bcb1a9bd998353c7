------------------------------ MODULE Routing ------------------------------
(***************************************************************************)
(* The gateway's rules about paths and requests: the router (src/router.rs)*)
(* and the predicates handle_request asks of the auth, CORS, rate-limit    *)
(* and cache layers.  Everything here is a pure function of the request    *)
(* and the configuration.                                                  *)
(***************************************************************************)
EXTENDS GatewayConfig

CONSTANTS
    ServiceEndpoints,   \* endpoints service discovery may resolve a name to
    Unresolved          \* the Err of resolve_upstream

\* A request as the rules see it.  token abstracts what extract_token finds and
\* whether decode accepts it; an "unprintable" one it accepts, but its sub is no value for
\* the header x-user-id.  "" stands for an absent header.
Request ==
    [method : STRING, path : Path, origin : STRING,
     token : {"none", "good", "bad", "unprintable"}, forwarded_for : STRING,
     limit_header : STRING, vary : Seq(STRING)]

-----------------------------------------------------------------------------
(* Router::new compiles a pattern to a regex; match_route takes the first  *)
(* entry whose regex and methods accept the request.                       *)

PathRegexMatches(pattern, path) ==
    IF pattern.glob = ""
    THEN path = pattern.base                              \* ^base$
    ELSE \/ path = pattern.base                           \* ^base(/.*)?$
         \/ IsPrefix(Append(pattern.base, "/"), path)

EntryAccepts(route, req) ==
    /\ PathRegexMatches(route.path, req.path)
    /\ \A methods \in route.methods : req.method \in methods

MatchIndex(req) ==
    LET accepting == {i \in DOMAIN Routes : EntryAccepts(Routes[i], req)}
    IN  IF accepting = {} THEN 0
        ELSE CHOOSE i \in accepting : \A j \in accepting : i <= j

\* The possible results of resolve_upstream.  Discovery is a remote service, so a
\* service name resolves to any endpoint it may list, or fails.
ResolveUpstream(upstream) ==
    CASE upstream.type = "static"       -> {upstream.endpoints[1]}
      [] upstream.type = "service"      -> IF Discovery.enabled
                                           THEN ServiceEndpoints \cup {Unresolved}
                                           ELSE {Unresolved}
      [] upstream.type = "load_balance" -> IF upstream.endpoints = <<>>
                                           THEN {Unresolved}
                                           ELSE {upstream.endpoints[1]}

-----------------------------------------------------------------------------
(* What the layers ask of a request.                                       *)

\* CorsLayer::is_origin_allowed
IsOriginAllowed(origin) == "*" \in Cors.allow_origins \/ origin \in Cors.allow_origins

\* AuthLayer::is_excluded_path: a glob excludes every path its base is a string prefix of.
IsExcludedPath(path) ==
    \E p \in Auth.excluded_paths :
        IF p.glob = "" THEN path = p.base ELSE IsPrefix(p.base, path)

\* extract_token followed by validate_jwt; an OAuth2 layer has no decoding key.
TokenAccepted(req) == req.token \in {"good", "unprintable"} /\ Auth.provider = "jwt"

OrUnknown(header) == IF header = "" THEN "unknown" ELSE header

LimitKey(req) ==
    CASE RateLimit.key_strategy = "global" -> "global"
      [] RateLimit.key_strategy = "ip"     -> OrUnknown(req.forwarded_for)
      [] RateLimit.key_strategy = "header" -> OrUnknown(req.limit_header)
      [] RateLimit.key_strategy = "custom" -> "custom"

\* CacheLayer::build_key; vary holds, per configured header, its value or "".
BuildKey(req) ==
    CASE Cache.key_strategy = "uri"              -> <<req.path>>
      [] Cache.key_strategy = "uri_with_method"  -> <<req.method, req.path>>
      [] Cache.key_strategy = "uri_with_headers" ->
            <<req.method, req.path>> \o SelectSeq(req.vary, LAMBDA v : v # "")

\* retry.map(|r| r.max_attempts).unwrap_or(1)
MaxAttempts(route) == UnwrapOr(route.max_attempts, 1)
=============================================================================
