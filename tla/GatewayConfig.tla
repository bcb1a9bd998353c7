--------------------------- MODULE GatewayConfig ---------------------------
(***************************************************************************)
(* The configuration the gateway is built from (src/config.rs): a record   *)
(* per section, held in CONSTANTS.  An absent section (Option::None) and a *)
(* section with enabled = false build the same gateway (Gateway::new), so  *)
(* both are enabled |-> FALSE.  A route's optional fields are sets: {} is  *)
(* None, {x} is Some(x).                                                   *)
(*                                                                         *)
(* A path is a sequence of tokens, "/" being one of them: word pieces are  *)
(* cut wherever a rule may tell two strings apart, so a string prefix is a *)
(* sequence prefix.                                                        *)
(***************************************************************************)
EXTENDS Naturals, Sequences, SequencesExt

CONSTANTS
    Routes,     \* config.routes: a sequence, the order in which they match
    Auth,       \* config.auth
    Cors,       \* config.cors
    RateLimit,  \* config.rate_limit
    Cache,      \* config.cache
    Discovery   \* config.discovery

Option(S) == {opt \in SUBSET S : \A x, y \in opt : x = y}

\* Option::unwrap_or.
UnwrapOr(opt, default) == IF opt = {} THEN default ELSE CHOOSE x \in opt : TRUE

Path == Seq(STRING)

\* A configured path: its text is base \o the tokens of its glob.
Pattern == [base : Path, glob : {"", "/*", "/**"}]

\* endpoints holds the one url of a static upstream, and nothing for a service.
UpstreamConfig ==
    {u \in [type : {"static", "service", "load_balance"}, endpoints : Seq(STRING)] :
        u.type = "static" => Len(u.endpoints) = 1}

RouteConfig ==
    [path          : Pattern,
     methods       : Option(SUBSET STRING),    \* upper-cased: eq_ignore_ascii_case
     upstream      : UpstreamConfig,
     strip_prefix  : Option(Path),
     max_attempts  : Option(Nat),      \* retry.max_attempts
     timeout_ms    : BOOLEAN,          \* is_some(): the length of a timeout is not modelled
     cache_enabled : BOOLEAN,          \* unwrap_or(false)
     auth_required : BOOLEAN]          \* unwrap_or(false)

AuthConfig == [enabled : BOOLEAN, provider : {"jwt", "oauth2"}, excluded_paths : SUBSET Pattern]

CorsConfig == [enabled : BOOLEAN, allow_origins : SUBSET STRING]

\* burst_size is a constant of RateLimiter; requests_per_second is the length of its step.
RateLimitConfig == [enabled : BOOLEAN, key_strategy : {"global", "ip", "header", "custom"}]

CacheConfig ==
    [enabled      : BOOLEAN,
     backend      : {"memory", "redis"},
     key_strategy : {"uri", "uri_with_method", "uri_with_headers"}]

DiscoveryConfig == [enabled : BOOLEAN]

ASSUME ConfigAssumption ==
    /\ Routes \in Seq(RouteConfig)
    /\ Auth.enabled \in BOOLEAN
    /\ Auth.provider \in {"jwt", "oauth2"}
    /\ \A p \in Auth.excluded_paths : p \in Pattern
    /\ Cors.enabled \in BOOLEAN
    /\ \A o \in Cors.allow_origins : o \in STRING
    /\ RateLimit \in RateLimitConfig
    /\ Cache \in CacheConfig
    /\ Discovery \in DiscoveryConfig
=============================================================================
