\* Plain, TLS and client-auth listeners, with and without the metrics server.
CONSTANTS
    Conns = {c1, c2}
    Scrapers = {s1}
    Configs <- MCConfigs
    Offers <- MCOffers
    MaxPanics = 1
SPECIFICATION FairSrvSpec
INVARIANTS
    SrvTypeOK
    GaugeExact
PROPERTIES
    LeaversAreForgotten
