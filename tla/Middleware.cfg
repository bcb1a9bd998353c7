\* Three layer orders over both cache backends; two calls and one task that clears the cache.
CONSTANTS
    Routes <- MCRoutes
    Auth <- MCAuth
    Cors <- MCCors
    RateLimit <- MCRateLimit
    Cache <- MCCache
    Discovery <- MCDiscovery
    ServiceEndpoints = {}
    Unresolved = "unresolved"
    BurstSize = 1
    LimitKeys <- MCLimitKeys
    MaxReplenish = 1
    NoOne = NoOne
    Backends = {"memory", "redis"}
    CacheUsers <- MCCacheUsers
    StoreKeys <- MCStoreKeys
    StoreValues <- MCStoreValues
    Ttl = 1
    Stacks <- MCStacks
    Requests = {r1, r2}
    Admins = {admin}
    Inputs <- MCInputs
    InnerRuns = {"call", "poll"}
    Statuses = {200, 500}
    CacheableStatuses = {200}
    CacheableMethods = {"GET"}
    ExcludedPrefixes <- MCExcludedPrefixes
SPECIFICATION FairSpec
INVARIANTS
    MwTypeOK
    AuthGuardsCache
    OwnOrigin
    CountedOnce
    InnerWithinQuota
    OneManager
    RedisEntriesExpire
PROPERTIES
    CallsEnd
