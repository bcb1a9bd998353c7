\* A route without timeout_ms.
CONSTANTS
    Routes <- UntimedRoutes
    Auth <- JwtAuth
    Cors <- OneOrigin
    RateLimit <- IpLimit
    Cache <- MemoryCache
    Discovery <- WithDiscovery
    ServiceEndpoints <- MCServiceEndpoints
    Unresolved <- MCUnresolved
    BurstSize = 1
    LimitKeys <- MCLimitKeys
    MaxReplenish = 1
    Calls = {r1}
    Budgets <- MCBudgets
    Statuses = {200, 503}
    Inputs <- UntimedInputs
    EchoedOrigins = {""}
SPECIFICATION FairSpec
PROPERTIES
    EveryRequestEnds
