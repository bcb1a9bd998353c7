-------------------------- MODULE DiscoveryProofs --------------------------
(***************************************************************************)
(* Discovery's safety properties for every number of services, calls and   *)
(* watchers, both providers, every registry and every timing.  Versions    *)
(* never run ahead of the registry, a list of the registry's version is    *)
(* what the registry holds, and a query under way knows whether it may be  *)
(* answered with an empty list.                                            *)
(***************************************************************************)
EXTENDS Discovery, ListProofs

-----------------------------------------------------------------------------
(* What a query returns.                                                   *)

\* health_check makes a list of addresses of a list of instances, none of them empty, and an
\* empty list of an empty one.
LEMMA HealthyType ==
    ASSUME NEW prov, NEW instances \in Seq(Instance)
    PROVE  /\ Healthy(prov, instances) \in Seq(Endpoint)
           /\ instances = <<>> => Healthy(prov, instances) = <<>>
<1> DEFINE addresses == [i \in DOMAIN instances |-> instances[i].address]
           usable == {i \in DOMAIN instances :
                         /\ instances[i].address # NoAddress
                         /\ prov = "consul" => instances[i].passing}
<1>1. Healthy(prov, instances) = Sublist(addresses, usable)
  BY DEF Healthy
<1>2. usable \subseteq DOMAIN instances
  OBVIOUS
<1>3. \A i \in DOMAIN instances : instances[i].address \in STRING
  <2> SUFFICES ASSUME NEW i \in DOMAIN instances PROVE instances[i].address \in STRING
    OBVIOUS
  <2>1. PICK x \in Instance : x = instances[i]
    OBVIOUS
  <2> QED
    BY <2>1 DEF Instance
<1>4. addresses \in Seq(STRING) /\ DOMAIN addresses = DOMAIN instances
  <2>1. addresses \in [1..Len(instances) -> STRING] /\ Len(instances) \in Nat
    BY <1>3
  <2> QED
    BY <2>1
<1>5. \A i \in usable : addresses[i] \in Endpoint
  <2>1. ASSUME NEW i \in usable PROVE addresses[i] \in STRING /\ addresses[i] # NoAddress
    BY <1>3
  <2> QED
    BY <2>1 DEF Endpoint
<1> HIDE DEF addresses, usable
<1>6. /\ Sublist(addresses, usable) \in Seq({addresses[i] : i \in usable})
      /\ Cardinality(usable) \in Nat
      /\ Len(Sublist(addresses, usable)) = Cardinality(usable)
  BY <1>2, <1>4, SublistType
<1>7. ASSUME instances = <<>> PROVE Sublist(addresses, usable) = <<>>
  <2>1. usable = {}
    BY <1>2, <1>7
  <2>2. Cardinality(usable) = 0
    BY <2>1, FS_EmptySet
  <2> QED
    BY <1>6, <2>2
<1>8. Sublist(addresses, usable) \in Seq(Endpoint)
  BY <1>6, <1>5
<1> QED
  BY <1>1, <1>7, <1>8

\* A query returns a list of addresses, from a registry without instances an empty one.
LEMMA SnapshotType ==
    ASSUME NEW prov, NEW reg \in [Services -> Catalogs], NEW s \in Services
    PROVE  /\ Snapshot(prov, reg, s) \in Seq(Endpoint)
           /\ (\A r \in Services : reg[r] = <<>>) => Snapshot(prov, reg, s) = <<>>
<1>1. ASSUME NEW r \in Services
      PROVE  /\ Healthy(prov, reg[r]) \in Seq(Endpoint)
             /\ reg[r] = <<>> => Healthy(prov, reg[r]) = <<>>
  <2>1. reg[r] \in Seq(Instance)
    BY DiscoveryAssumption
  <2> QED
    BY <2>1, HealthyType
<1>2. CASE prov = "consul"
  BY <1>1, <1>2 DEF Snapshot
<1>3. CASE prov # "consul"
  <2> DEFINE range == KeyRange[s]
             parts == [n \in 1..Len(range) |-> Healthy(prov, reg[range[n]])]
  <2>1. range \in Seq(Services)
    BY DiscoveryAssumption
  <2>2. Len(range) \in Nat /\ \A n \in 1..Len(range) : range[n] \in Services
    BY <2>1
  <2>3. Snapshot(prov, reg, s) = FlattenSeq(parts)
    BY <1>3 DEF Snapshot
  <2> HIDE DEF range
  <2>4. parts \in [1..Len(range) -> Seq(Endpoint)] /\ DOMAIN parts = 1..Len(range)
    BY <1>1, <2>2
  <2>5. parts \in Seq(Seq(Endpoint))
    BY <2>2, <2>4
  <2>6. (\A r \in Services : reg[r] = <<>>) => \A n \in DOMAIN parts : parts[n] = <<>>
    BY <1>1, <2>2
  <2> HIDE DEF parts
  <2>7. /\ FlattenSeq(parts) \in Seq(Endpoint)
        /\ (\A n \in DOMAIN parts : parts[n] = <<>>) => FlattenSeq(parts) = <<>>
    BY <2>5, FlattenType
  <2> QED
    BY <2>3, <2>6, <2>7
<1> QED
  BY <1>2, <1>3

-----------------------------------------------------------------------------
(* The inductive invariant.                                                *)

\* No list is newer than the registry.
NotAhead ==
    /\ \A s \in Services : cache[s].ver \in Nat /\ cache[s].ver <= ver
    /\ \A t \in Tasks : got[t].ver \in Nat /\ got[t].ver <= ver /\ base[t] <= ver

\* A list of the registry's version is what the registry holds.
CurrentIsTrue ==
    /\ \A s \in Services :
          cache[s].ver = ver => cache[s].list = Snapshot(provider, registry, s)
    /\ \A t \in Tasks :
          got[t].ver = ver => got[t].list = Snapshot(provider, registry, svc[t])

\* What is known of the call of a task.
QueryOK(t) ==
    /\ at[t] \in {"answer", "again"} => base[t] <= got[t].ver
    /\ at[t] = "query" /\ Snapshot(provider, registry, svc[t]) = <<>> => emptied[t]
    /\ at[t] = "answer" /\ got[t].list = <<>> => emptied[t]
    /\ result[t] = "UpstreamUnavailable" => emptied[t] /\ at[t] = "done"

\* The inductive invariant.
DiscInv == DiscTypeOK /\ NotAhead /\ CurrentIsTrue /\ \A t \in Tasks : QueryOK(t)

\* A list and its version.
LEMMA ListType == NoList \in Lists /\ \A l \in Seq(Endpoint), v \in Nat : [list |-> l, ver |-> v] \in Lists
BY DEF NoList, Lists

\* DiscInv holds initially.
LEMMA DiscInitInv == DiscInit => DiscInv
<1> SUFFICES ASSUME DiscInit PROVE DiscInv
  OBVIOUS
<1>1. DiscTypeOK
  <2>1. registry \in [Services -> Catalogs]
    BY DiscoveryAssumption DEF DiscInit
  <2>2. cache \in [Services -> Lists] /\ got \in [Tasks -> Lists]
    BY ListType DEF DiscInit
  <2> QED
    BY <2>1, <2>2 DEF DiscInit, DiscTypeOK, Results
<1>2. NotAhead
  BY DEF DiscInit, NotAhead, NoList
<1>3. CurrentIsTrue
  <2>1. \A s \in Services : registry[s] = <<>>
    BY DEF DiscInit
  <2>2. \A s \in Services : Snapshot(provider, registry, s) = <<>>
    BY <1>1, <2>1, SnapshotType DEF DiscTypeOK
  <2>3. \A t \in Tasks : svc[t] \in Services
    BY <1>1 DEF DiscTypeOK
  <2> QED
    BY <2>2, <2>3 DEF DiscInit, CurrentIsTrue, NoList
<1>4. ASSUME NEW t \in Tasks PROVE QueryOK(t)
  BY <1>4 DEF DiscInit, QueryOK
<1> QED
  BY <1>1, <1>2, <1>3, <1>4 DEF DiscInv

\* A change of the registry keeps DiscInv.
LEMMA RegistryInv ==
    ASSUME DiscInv, NEW s \in Services, RegistryChange(s)
    PROVE  DiscInv'
<1> USE DEF DiscInv
<1>1. DiscTypeOK'
  BY DEF DiscTypeOK, RegistryChange
<1>2. NotAhead'
  BY DEF DiscTypeOK, NotAhead, RegistryChange
<1>3. CurrentIsTrue'
  <2>1. ver \in Nat /\ ver' = ver + 1 /\ UNCHANGED <<cache, got>>
    BY DEF DiscTypeOK, RegistryChange
  <2>2. \A r \in Services : cache[r].ver # ver'
    BY <2>1 DEF NotAhead
  <2>3. \A t \in Tasks : got[t].ver # ver'
    BY <2>1 DEF NotAhead
  <2> QED
    BY <2>1, <2>2, <2>3 DEF CurrentIsTrue
<1>4. ASSUME NEW t \in Tasks PROVE QueryOK(t)'
  <2>1. /\ provider' = provider /\ at' = at /\ svc' = svc
        /\ got' = got /\ result' = result /\ base' = base
        /\ emptied'[t] = (\/ emptied[t]
                          \/ /\ at[t] \in {"query", "answer"}
                             /\ Snapshot(provider, registry', svc[t]) = <<>>)
    BY DEF RegistryChange
  <2> QED
    BY <2>1 DEF QueryOK, DiscTypeOK
<1> QED
  BY <1>1, <1>2, <1>3, <1>4

\* A task that a step leaves alone keeps what is known of it.
LEMMA OtherQueryOK ==
    ASSUME NEW d \in Tasks, QueryOK(d), provider' = provider, registry' = registry,
           at'[d] = at[d], svc' = svc, got'[d] = got[d], result'[d] = result[d],
           base'[d] = base[d], emptied'[d] = emptied[d]
    PROVE  QueryOK(d)'
BY DEF QueryOK

\* A step of a task changes the lists it may change: it stores what it got, or gets what the
\* registry holds, or leaves both alone.
LEMMA TaskLists ==
    ASSUME NEW t \in Tasks, TaskStep(t)
    PROVE  /\ UNCHANGED <<provider, registry, ver, svc>>
           /\ \/ UNCHANGED <<cache, got>>
              \/ UNCHANGED got /\ Insert(t)
              \/ /\ UNCHANGED cache
                 /\ got' = [got EXCEPT ![t] = [list |-> Snapshot(provider, registry, svc[t]),
                                               ver |-> ver]]
<1>1. CASE ResolveMiss(t) \/ WatchTick(t)
  BY <1>1 DEF ResolveMiss, WatchTick
<1>2. CASE Answer(t)
  BY <1>2 DEF Answer
<1>3. CASE ResolveCached(t) \/ QueryFails(t) \/ DropResolve(t)
  BY <1>3 DEF ResolveCached, QueryFails, DropResolve
<1>4. CASE ResolveAnswered(t)
  BY <1>4 DEF ResolveAnswered
<1>5. CASE WatchStore(t) \/ WatchStoreAgain(t)
  BY <1>5 DEF WatchStore, WatchStoreAgain
<1> QED
  BY <1>1, <1>2, <1>3, <1>4, <1>5 DEF TaskStep

\* It keeps the types and the order of the versions, and lists of the registry's version true.
LEMMA TaskTypes ==
    ASSUME DiscInv, NEW t \in Tasks, TaskStep(t)
    PROVE  DiscTypeOK' /\ NotAhead' /\ CurrentIsTrue'
<1> USE DEF DiscInv
<1>1. DiscTypeOK /\ NotAhead /\ CurrentIsTrue /\ svc[t] \in Services
  BY DEF DiscTypeOK
<1>2. UNCHANGED <<provider, registry, ver, svc>>
  BY TaskLists
<1>3. PICK now : now = Snapshot(provider, registry, svc[t]) /\ now \in Seq(Endpoint)
  BY <1>1, SnapshotType DEF DiscTypeOK
<1>4. /\ cache' \in [Services -> Lists]
      /\ \A s \in Services : \/ cache'[s] = cache[s]
                             \/ s = svc[t] /\ cache'[s] = got[t]
  BY <1>1, TaskLists DEF DiscTypeOK, Insert
<1>5. /\ got' \in [Tasks -> Lists]
      /\ \A d \in Tasks : \/ got'[d] = got[d]
                          \/ d = t /\ got'[d].list = now /\ got'[d].ver = ver
  <2>1. PICK l \in Lists : l = [list |-> now, ver |-> ver]
    BY <1>1, <1>3, ListType DEF DiscTypeOK
  <2>2. got' = got \/ got' = [got EXCEPT ![t] = l]
    BY <1>3, <2>1, TaskLists
  <2> QED
    BY <1>1, <2>1, <2>2 DEF DiscTypeOK
<1>6. base' \in [Tasks -> Nat] /\ \A d \in Tasks : base'[d] <= ver
  <2>1. cache[svc[t]].ver \in Nat /\ cache[svc[t]].ver <= ver
    BY <1>1 DEF NotAhead
  <2>2. base' = base \/ base' = [base EXCEPT ![t] = cache[svc[t]].ver]
    BY DEF TaskStep, ResolveCached, ResolveMiss, WatchTick, Answer, QueryFails,
       ResolveAnswered, DropResolve, WatchStore, WatchStoreAgain, BeginQuery
  <2> QED
    BY <1>1, <2>1, <2>2 DEF DiscTypeOK, NotAhead
<1>7. /\ at' \in [Tasks -> {"idle", "query", "answer", "again", "done"}]
      /\ result' \in [Tasks -> Results] /\ emptied' \in [Tasks -> BOOLEAN]
  BY <1>1 DEF DiscTypeOK, Results, TaskStep, ResolveCached, ResolveMiss, WatchTick, Answer,
     QueryFails, ResolveAnswered, DropResolve, WatchStore, WatchStoreAgain, BeginQuery, Return
<1>8. DiscTypeOK'
  BY <1>1, <1>2, <1>4, <1>5, <1>6, <1>7 DEF DiscTypeOK
<1>9. NotAhead'
  BY <1>1, <1>2, <1>4, <1>5, <1>6 DEF DiscTypeOK, NotAhead
<1>10. CurrentIsTrue'
  BY <1>1, <1>2, <1>3, <1>4, <1>5 DEF CurrentIsTrue
<1> QED
  BY <1>8, <1>9, <1>10

\* A step of a task keeps what is known of every task.
LEMMA TaskQueryOK ==
    ASSUME DiscInv, NEW t \in Tasks, TaskStep(t), NEW d \in Tasks
    PROVE  QueryOK(d)'
<1> DiscTypeOK /\ NotAhead /\ QueryOK(t) /\ QueryOK(d)
  BY DEF DiscInv
<1>1. CASE d # t
  <2>1. provider' = provider /\ registry' = registry /\ svc' = svc
    BY DEF TaskStep, ResolveCached, ResolveMiss, WatchTick, Answer, QueryFails,
        ResolveAnswered, DropResolve, WatchStore, WatchStoreAgain
  <2>2. /\ at'[d] = at[d] /\ got'[d] = got[d] /\ result'[d] = result[d]
        /\ base'[d] = base[d] /\ emptied'[d] = emptied[d]
    BY <1>1 DEF DiscTypeOK, TaskStep, ResolveCached, ResolveMiss, WatchTick, Answer, QueryFails,
        ResolveAnswered, DropResolve, WatchStore, WatchStoreAgain, Return, BeginQuery
  <2> QED
    BY <2>1, <2>2, OtherQueryOK
<1>2. CASE d = t
  <2>1. QueryOK(t)'
    <3>1. CASE ResolveMiss(t) \/ WatchTick(t)
      BY <3>1 DEF ResolveMiss, WatchTick, BeginQuery, QueryOK, DiscTypeOK
    <3>2. CASE Answer(t)
      BY <3>2 DEF Answer, QueryOK, DiscTypeOK, NotAhead
    <3>3. CASE ResolveCached(t) \/ QueryFails(t) \/ DropResolve(t)
      BY <3>3 DEF ResolveCached, QueryFails, DropResolve, Return, QueryOK, DiscTypeOK
    <3>4. CASE ResolveAnswered(t)
      BY <3>4 DEF ResolveAnswered, Return, QueryOK, DiscTypeOK
    <3>5. CASE WatchStore(t) \/ WatchStoreAgain(t)
      BY <3>5 DEF WatchStore, WatchStoreAgain, QueryOK, DiscTypeOK
    <3> QED
      BY <3>1, <3>2, <3>3, <3>4, <3>5 DEF TaskStep
  <2> QED
    BY <1>2, <2>1
<1> QED
  BY <1>1, <1>2

\* DiscInv is inductive.
LEMMA DiscStepInv == DiscInv /\ [DiscNext]_discVars => DiscInv'
<1> SUFFICES ASSUME DiscInv, [DiscNext]_discVars PROVE DiscInv'
  OBVIOUS
<1>1. ASSUME NEW s \in Services, RegistryChange(s) PROVE DiscInv'
  BY <1>1, RegistryInv
<1>2. ASSUME NEW t \in Tasks, TaskStep(t) PROVE DiscInv'
  BY <1>2, TaskTypes, TaskQueryOK DEF DiscInv, Tasks
<1>3. CASE UNCHANGED discVars
  BY <1>3 DEF discVars, DiscInv, DiscTypeOK, NotAhead, CurrentIsTrue, QueryOK
<1> QED
  BY <1>1, <1>2, <1>3 DEF DiscNext

-----------------------------------------------------------------------------

\* DiscInv holds in every reachable state.
THEOREM DiscInvariant == DiscSpec => []DiscInv
BY DiscInitInv, DiscStepInv, PTL DEF DiscSpec

\* Every variable keeps its type; in particular the cache never holds an endpoint without an
\* address, whichever instances the registry reports (consul.rs:130-136, etcd.rs:137-139).
THEOREM DiscTypesHold == DiscSpec => []DiscTypeOK
<1>1. DiscInv => DiscTypeOK
  BY DEF DiscInv
<1> QED
  BY <1>1, DiscInvariant, PTL

\* The safety half of CacheConverges: a cached list, or one about to be stored, that is of
\* the registry's version is exactly what the registry holds for its service, however many
\* queries overlap, and none is of a later version (consul.rs:86-98, 151-155,
\* etcd.rs:149-152, 165-169).
THEOREM DiscCurrentIsTrue == DiscSpec => [](NotAhead /\ CurrentIsTrue)
<1>1. DiscInv => NotAhead /\ CurrentIsTrue
  BY DEF DiscInv
<1> QED
  BY <1>1, DiscInvariant, PTL

\* For both providers and any concurrency, resolve() fails with UpstreamUnavailable only if
\* the registry had no endpoint at some moment of the call (UnavailableIsGenuine).
THEOREM DiscUnavailable == DiscSpec => []UnavailableIsGenuine
<1>1. DiscInv => UnavailableIsGenuine
  BY DEF DiscInv, QueryOK, UnavailableIsGenuine, Tasks
<1> QED
  BY <1>1, DiscInvariant, PTL

\* For both providers and any concurrency, an answer about to be stored is at least as new
\* as what was cached when its query began (NeverOlderThanQuery).
THEOREM DiscNeverOlder == DiscSpec => []NeverOlderThanQuery
<1>1. DiscInv => NeverOlderThanQuery
  BY DEF DiscInv, QueryOK, NeverOlderThanQuery
<1> QED
  BY <1>1, DiscInvariant, PTL
=============================================================================
