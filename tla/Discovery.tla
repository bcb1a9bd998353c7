----------------------------- MODULE Discovery -----------------------------
(***************************************************************************)
(* Service discovery: ConsulDiscovery (src/discovery/consul.rs) and        *)
(* EtcdDiscovery (src/discovery/etcd.rs), one cache of endpoint lists each,*)
(* shared by the requests that call resolve() and by the tasks watch()     *)
(* spawns (one per service route, src/gateway.rs).  A query takes its      *)
(* snapshot of the registry at some moment, and its answer is used later:  *)
(* between the two, other tasks read and write the cache.                  *)
(*                                                                         *)
(* The registry is external and changes at any time.  ver numbers its      *)
(* states; version numbers, base and emptied are history that no code      *)
(* reads.                                                                  *)
(***************************************************************************)
EXTENDS Naturals, Sequences, SequencesExt, ListOps

CONSTANTS
    Providers,    \* the providers a configuration may name
    Services,     \* service names
    KeyRange,     \* KeyRange[s]: services whose etcd keys lie in the range asked for s
    Resolvers,    \* calls of resolve()
    Watchers,     \* tasks spawned by watch()
    WatchedBy,    \* WatchedBy[w]: the service task w watches
    Catalogs,     \* instance lists a service may have in the registry
    MaxVersion    \* bound on the number of registry changes

\* An instance without an address.
NoAddress == ""

\* An instance as the registry reports it.
Instance == [address : STRING, passing : BOOLEAN]

ASSUME DiscoveryAssumption ==
    /\ Providers \subseteq {"consul", "etcd"}
    /\ KeyRange \in [Services -> Seq(Services)]
    /\ Resolvers \cap Watchers = {}
    /\ WatchedBy \in [Watchers -> Services]
    /\ Catalogs \subseteq Seq(Instance)
    /\ <<>> \in Catalogs
    /\ MaxVersion \in Nat

Tasks == Resolvers \cup Watchers

VARIABLES
    provider,   \* the provider the gateway was configured with; it never changes
    registry,   \* registry[s]: the instances registered for s
    ver,        \* number of registry changes so far
    cache,      \* cache[s]: the list cached for s and the version it is from; an absent
                \* entry is an empty list of version 0, resolve() does not tell them apart
    at,         \* at[t]: where task t is
    svc,        \* svc[t]: the service it asks for
    got,        \* got[t]: the list its query returned, and its version
    result,     \* result[t]: what resolve() returned
    base,       \* base[t]: version cached for the service when its query began
    emptied     \* emptied[t]: the registry had no endpoint for it at some moment of the call

discVars == <<provider, registry, ver, cache, at, svc, got, result, base, emptied>>

NoList == [list |-> <<>>, ver |-> 0]

\* What an endpoint may be: never the address of an instance without one.
Endpoint == STRING \ {NoAddress}

Lists == [list : Seq(Endpoint), ver : Nat]
Results == {"none", "Ok", "UpstreamUnavailable", "Discovery", "dropped"}

\* Fault: an instance without an address is listed like any other.
HealthyBare(prov, instances) ==
    LET usable == {i \in DOMAIN instances : prov = "consul" => instances[i].passing}
    IN  Sublist([i \in DOMAIN instances |-> instances[i].address], usable)

\* What health_check makes of the registry's answer.
Healthy(prov, instances) ==
    LET usable == {i \in DOMAIN instances :
                      /\ instances[i].address # NoAddress
                      /\ prov = "consul" => instances[i].passing}
    IN  Sublist([i \in DOMAIN instances |-> instances[i].address], usable)

\* The endpoints a query for s returns from provider prov when the registry is reg.  Etcd
\* is asked for the keys from service_key(s) up to range_end, so it returns every service
\* whose name extends s.
Snapshot(prov, reg, s) ==
    IF prov = "consul"
    THEN Healthy(prov, reg[s])
    ELSE FlattenSeq([n \in 1..Len(KeyRange[s]) |-> Healthy(prov, reg[KeyRange[s][n]])])

\* Every variable keeps its type; whatever the registry reports and whichever answers overlap,
\* no list that is cached or about to be stored names an instance without an address
\* (consul.rs:130-136, etcd.rs:137-139).
DiscTypeOK ==
    /\ provider \in Providers
    /\ registry \in [Services -> Catalogs]
    /\ ver \in Nat
    /\ cache \in [Services -> Lists]
    /\ at \in [Tasks -> {"idle", "query", "answer", "again", "done"}]
    /\ svc \in [Tasks -> Services]
    /\ got \in [Tasks -> Lists]
    /\ result \in [Tasks -> Results]
    /\ base \in [Tasks -> Nat]
    /\ emptied \in [Tasks -> BOOLEAN]

DiscInit ==
    /\ provider \in Providers
    /\ registry = [s \in Services |-> <<>>]
    /\ ver = 0
    /\ cache = [s \in Services |-> NoList]
    /\ at = [t \in Tasks |-> "idle"]
    /\ svc \in {f \in [Tasks -> Services] : \A w \in Watchers : f[w] = WatchedBy[w]}
    /\ got = [t \in Tasks |-> NoList]
    /\ result = [t \in Tasks |-> "none"]
    /\ base = [t \in Tasks |-> 0]
    /\ emptied = [t \in Tasks |-> FALSE]

-----------------------------------------------------------------------------

\* External: an instance comes, goes or changes its health.
RegistryChange(s) ==
    /\ ver < MaxVersion
    /\ \E instances \in Catalogs \ {registry[s]} :
          registry' = [registry EXCEPT ![s] = instances]
    /\ ver' = ver + 1
    /\ emptied' = [t \in Tasks |->
                      \/ emptied[t]
                      \/ /\ at[t] \in {"query", "answer"}
                         /\ Snapshot(provider, registry', svc[t]) = <<>>]
    /\ UNCHANGED <<provider, cache, at, svc, got, result, base>>

Return(t, outcome) ==
    /\ at' = [at EXCEPT ![t] = "done"]
    /\ result' = [result EXCEPT ![t] = outcome]

Insert(t) == cache' = [cache EXCEPT ![svc[t]] = got[t]]

\* health_check(svc[t]) is called.
BeginQuery(t) ==
    /\ at' = [at EXCEPT ![t] = "query"]
    /\ base' = [base EXCEPT ![t] = cache[svc[t]].ver]
    /\ emptied' = [emptied EXCEPT ![t] = Snapshot(provider, registry, svc[t]) = <<>>]

\* resolve() finds a list that is not empty.
ResolveCached(t) ==
    /\ t \in Resolvers
    /\ at[t] = "idle"
    /\ cache[svc[t]].list # <<>>
    /\ Return(t, "Ok")
    /\ UNCHANGED <<provider, registry, ver, cache, svc, got, base, emptied>>

\* Fault: a cached list is an answer even if it is empty.
ResolveMissCachedEmpty(t) ==
    /\ t \in Resolvers
    /\ at[t] = "idle"
    /\ cache[svc[t]].list = <<>>
    /\ IF cache[svc[t]].ver > 0
       THEN /\ Return(t, "UpstreamUnavailable")
            /\ emptied' = [emptied EXCEPT ![t] = Snapshot(provider, registry, svc[t]) = <<>>]
            /\ UNCHANGED base
       ELSE BeginQuery(t) /\ UNCHANGED result
    /\ UNCHANGED <<provider, registry, ver, cache, svc, got>>

\* resolve() finds nothing, or an empty list.
ResolveMiss(t) ==
    /\ t \in Resolvers
    /\ at[t] = "idle"
    /\ cache[svc[t]].list = <<>>
    /\ BeginQuery(t)
    /\ UNCHANGED <<provider, registry, ver, cache, svc, got, result>>

\* interval.tick(): the watcher queries every ten seconds.
WatchTick(t) ==
    /\ t \in Watchers
    /\ at[t] = "idle"
    /\ BeginQuery(t)
    /\ UNCHANGED <<provider, registry, ver, cache, svc, got, result>>

\* Fault: an answer received earlier is used again.
AnswerReused(t) ==
    /\ at[t] = "query"
    /\ at' = [at EXCEPT ![t] = "answer"]
    /\ got' = [got EXCEPT ![t] = IF got[t] # NoList THEN got[t]
                                 ELSE [list |-> Snapshot(provider, registry, svc[t]), ver |-> ver]]
    /\ UNCHANGED <<provider, registry, ver, cache, svc, result, base, emptied>>

\* The registry serves the query.
Answer(t) ==
    /\ at[t] = "query"
    /\ at' = [at EXCEPT ![t] = "answer"]
    /\ got' = [got EXCEPT ![t] = [list |-> Snapshot(provider, registry, svc[t]), ver |-> ver]]
    /\ UNCHANGED <<provider, registry, ver, cache, svc, result, base, emptied>>

\* Fault: an error ends the watcher's loop.
QueryFailsForGood(t) ==
    /\ at[t] = "query"
    /\ at' = [at EXCEPT ![t] = "done"]
    /\ UNCHANGED <<provider, registry, ver, cache, svc, got, result, base, emptied>>

\* The query fails: timeout (5 s), bad status, malformed answer.  The cache is kept.
QueryFails(t) ==
    /\ at[t] = "query"
    /\ IF t \in Resolvers
       THEN Return(t, "Discovery")
       ELSE at' = [at EXCEPT ![t] = "idle"] /\ UNCHANGED result
    /\ UNCHANGED <<provider, registry, ver, cache, svc, got, base, emptied>>

\* resolve() goes on with the answer.  Consul's stores the list if it is not empty; etcd's
\* health_check has stored whatever came.
ResolveAnswered(t) ==
    /\ t \in Resolvers
    /\ at[t] = "answer"
    /\ IF got[t].list = <<>>
       THEN Return(t, "UpstreamUnavailable")
       ELSE Return(t, "Ok")
    /\ IF provider = "consul" /\ got[t].list = <<>> THEN UNCHANGED cache ELSE Insert(t)
    /\ UNCHANGED <<provider, registry, ver, svc, got, base, emptied>>

\* The watcher goes on with the answer and stores it.  For etcd this is the write inside
\* health_check, and the watcher's own follows under a lock taken anew.
WatchStore(t) ==
    /\ t \in Watchers
    /\ at[t] = "answer"
    /\ Insert(t)
    /\ at' = [at EXCEPT ![t] = IF provider = "etcd" THEN "again" ELSE "idle"]
    /\ UNCHANGED <<provider, registry, ver, svc, got, result, base, emptied>>

WatchStoreAgain(t) ==
    /\ t \in Watchers
    /\ at[t] = "again"
    /\ Insert(t)
    /\ at' = [at EXCEPT ![t] = "idle"]
    /\ UNCHANGED <<provider, registry, ver, svc, got, result, base, emptied>>

\* The request that called resolve() is dropped at an await.
DropResolve(t) ==
    /\ t \in Resolvers
    /\ at[t] \in {"query", "answer"}
    /\ Return(t, "dropped")
    /\ UNCHANGED <<provider, registry, ver, cache, svc, got, base, emptied>>

TaskStep(t) ==
    \/ ResolveCached(t) \/ ResolveMiss(t) \/ WatchTick(t)
    \/ Answer(t) \/ QueryFails(t)
    \/ ResolveAnswered(t) \/ DropResolve(t)
    \/ WatchStore(t) \/ WatchStoreAgain(t)

DiscNext ==
    \/ \E s \in Services : RegistryChange(s)
    \/ \E t \in Tasks : TaskStep(t)

DiscSpec == DiscInit /\ [][DiscNext]_discVars

\* The timer of a watcher fires and its task runs; a query that is tried again and again is
\* answered some time.  Nothing is assumed of the calls of resolve().
DiscFairness ==
    \A w \in Watchers :
        /\ WF_discVars(WatchTick(w))
        /\ SF_discVars(Answer(w))
        /\ WF_discVars(WatchStore(w))
        /\ WF_discVars(WatchStoreAgain(w))

FairDiscSpec == DiscSpec /\ DiscFairness

-----------------------------------------------------------------------------

\* UpstreamUnavailable is only returned if the registry really had no endpoint at some
\* moment of the call: neither an empty list in the cache nor one stored by a concurrent
\* query makes resolve() fail (consul.rs:79-88, etcd.rs:81-90).
UnavailableIsGenuine ==
    \A t \in Resolvers : result[t] = "UpstreamUnavailable" => emptied[t]

\* An answer may overwrite a newer list in the cache (queries overlap), but never with one
\* older than what the cache held when its query began (consul.rs:86-95, etcd.rs:149-168).
NeverOlderThanQuery ==
    \A t \in Tasks : at[t] \in {"answer", "again"} => base[t] <= got[t].ver

\* Once the registry stops changing, the cache of a watched service comes to hold what the
\* registry holds and keeps it, whatever old answers were still under way (watch).
CacheConverges ==
    <>[](\A w \in Watchers : cache[WatchedBy[w]].list = Snapshot(provider, registry, WatchedBy[w]))
=============================================================================
