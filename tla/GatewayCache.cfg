\* A Redis cache other processes fill and expire, discovery, and a timeout on every route;
\* no limiter.
CONSTANTS
    Routes <- CacheRoutes
    Auth <- JwtAuth
    Cors <- OneOrigin
    RateLimit <- NoLimit
    Cache <- RedisCache
    Discovery <- WithDiscovery
    ServiceEndpoints <- MCServiceEndpoints
    Unresolved <- MCUnresolved
    BurstSize = 1
    LimitKeys <- MCLimitKeys
    MaxReplenish = 0
    Calls = {r1, r2}
    Budgets <- MCBudgets
    Statuses = {200, 503}
    Inputs <- CacheInputs
    EchoedOrigins = {""}
SPECIFICATION FairSpec
INVARIANTS
    LocalAnswersStayLocal
    CountersExact
PROPERTIES
    EveryRequestEnds
    ImplementsContract
