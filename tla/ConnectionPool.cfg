\* Three clients compete for a list of two entries.
CONSTANTS
    NoOne = NoOne
    Clients = {c1, c2, c3}
    Addrs = {a, b}
    MaxConnections = 2
    IdleTimeout = 1
SPECIFICATION FairPoolSpec
INVARIANTS
    PoolBounded
    LockHandedOn
PROPERTIES
    ReuseIsFresh
    CallsReturn
