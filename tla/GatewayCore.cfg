\* The whole pipeline: auth, CORS, an IP limiter with one cell, memory cache, discovery.
CONSTANTS
    Routes <- CoreRoutes
    Auth <- JwtAuth
    Cors <- OneOrigin
    RateLimit <- IpLimit
    Cache <- MemoryCache
    Discovery <- WithDiscovery
    ServiceEndpoints <- MCServiceEndpoints
    Unresolved <- MCUnresolved
    BurstSize = 1
    LimitKeys <- MCLimitKeys
    MaxReplenish = 1
    Calls = {r1, r2, r3}
    Budgets <- MCBudgets
    Statuses = {200, 503}
    Inputs <- CoreInputs
    EchoedOrigins = {"", "app"}
SPECIFICATION Spec
SYMMETRY Symmetry
INVARIANTS
    TypeOK
    ForwardedWithinQuota
    ForwardedIsAdmitted
    CountersExact
    QuotaRespected
PROPERTIES
    LimSpec
