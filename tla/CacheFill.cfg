\* A memory cache, no limiter.
CONSTANTS
    Routes <- CacheRoutes
    Auth <- JwtAuth
    Cors <- OneOrigin
    RateLimit <- NoLimit
    Cache <- MemoryCache
    Discovery <- WithDiscovery
    ServiceEndpoints <- MCServiceEndpoints
    Unresolved <- MCUnresolved
    BurstSize = 1
    LimitKeys <- MCLimitKeys
    MaxReplenish = 0
    Calls = {r1, r2}
    Budgets <- MCBudgets
    Statuses = {200, 503}
    Inputs <- CacheInputs
    EchoedOrigins = {"", "app"}
SPECIFICATION Spec
PROPERTIES
    SecondIsServedFromCache
