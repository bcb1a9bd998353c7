\* Both providers, chosen in the initial state.
CONSTANTS
    Providers = {"consul", "etcd"}
    Services <- MCServices
    KeyRange <- MCKeyRange
    Resolvers = {q1, q2}
    Watchers = {w1}
    WatchedBy <- MCWatchedBy
    Catalogs <- MCCatalogs
    MaxVersion = 2
SPECIFICATION FairDiscSpec
INVARIANTS
    DiscTypeOK
    UnavailableIsGenuine
    NeverOlderThanQuery
PROPERTIES
    CacheConverges
