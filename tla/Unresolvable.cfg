\* The core configuration, checked against a documented claim.
CONSTANTS
    Routes <- CoreRoutes
    Auth <- JwtAuth
    Cors <- OneOrigin
    RateLimit <- IpLimit
    Cache <- MemoryCache
    Discovery <- WithDiscovery
    ServiceEndpoints <- MCServiceEndpoints
    Unresolved <- MCUnresolved
    BurstSize = 1
    LimitKeys <- MCLimitKeys
    MaxReplenish = 1
    Calls = {r1, r2}
    Budgets <- MCBudgets
    Statuses = {200, 503}
    Inputs <- CoreInputs
    EchoedOrigins = {"", "app"}
SPECIFICATION Spec
INVARIANTS
    NotFoundMeansNoRoute
