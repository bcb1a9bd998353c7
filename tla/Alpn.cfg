\* TLS without client authentication.
CONSTANTS
    Conns = {c1, c2}
    Scrapers = {s1}
    Configs <- TlsConfigs
    Offers <- MCOffers
    MaxPanics = 1
SPECIFICATION SrvSpec
INVARIANTS
    ServedAsAgreed
