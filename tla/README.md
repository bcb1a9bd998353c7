# A TLA+ verification of mini-api-gateway

The gateway is a Rust HTTP reverse proxy (tokio, hyper, reqwest). Every request
runs through one async function, `Gateway::handle_request`, concurrently with
all others, over a few shared objects: a keyed rate limiter, a response cache,
a discovery cache, a proxy client and process-wide metrics. This project models
that function, the objects it shares and the servers it talks to, the process
around it (accept loop, TLS, metrics server), and the parts the crate offers
without using them itself (tower middleware, connection pool). It model-checks
them on small instances, shows that the pipeline implements an abstract contract,
and proves the central safety properties for every configuration and any number
of requests.

Paths below are relative to the crate's `src/` directory unless they say
otherwise.

## Inventory

| Component | State | Operations | Interacts with |
|---|---|---|---|
| Request pipeline (`gateway.rs`) | per request: where it is, matched route, response | `handle_request`: route, preflight, auth, limit, cache lookup, proxy, answer | everything below |
| Proxy client (`proxy.rs`) | per call: attempt number, request in flight | `proxy`, `execute_with_retry`, `select_endpoint` (never called) | upstream servers |
| Router (`router.rs`) | compiled route table, immutable | `match_route`, `resolve_upstream` | discovery |
| Rate limiter (`middleware/rate_limit.rs`) | one bucket per key, shared through an `Arc` | `check_key` (governor) | pipeline |
| Authentication (`middleware/auth.rs`) | decoding key, immutable | `is_excluded_path`, `extract_token`, `validate_jwt` | pipeline |
| CORS (`middleware/cors.rs`) | immutable | `is_origin_allowed`, `build_preflight_response`, `add_cors_headers` | pipeline |
| Response cache (`cache/`) | a map from keys to responses, in memory or in Redis | `build_key`, `get`, `set`, `delete`, `clear`, `should_cache` | pipeline (reads only) |
| Service discovery (`discovery/`) | a map from service names to endpoint lists | `resolve`, `health_check`, `watch` | Consul or etcd, router |
| Request metrics (`metrics.rs`) | process-wide counters and gauges | `record_success`, `record_cache_hit`, `record_rate_limited`, `record_auth_failure` | pipeline, proxy |
| Accept loop, TLS, metrics server (`gateway.rs::run`, `tls.rs`, `metrics.rs::serve`) | listeners, active-connections gauge | accept, spawn, serve | pipeline |
| Connection pool (`pool.rs`) | a list of pooled entries behind a mutex | `get_connection`, `return_connection`, `cleanup_expired` | nothing: unused |
| Tower middleware (`middleware/*.rs` services) | the layers' state | `call` | nothing: not wired in |
| Configuration, CLI, logging | read at startup | load | all |

What is hard here:

* **interleaving**: any number of requests between any two awaits of another;
* **abandoned work**: reqwest's timeout ends an attempt, not its execution
  upstream; a client that disconnects drops `handle_request` at an await;
* **retries** of requests that may have been executed already;
* **the limiter at its limit**, with requests that are cancelled after taking
  a cell;
* **stale answers**: discovery queries overlap, and each writes the cache when
  its own answer arrives;
* **failure of a neighbour**: registry or Redis unreachable, upstream hanging;
* **termination**: every wait must have something that ends it;
* **locks held across awaits**: the pool's and the Redis client's mutex are kept
  while a connection is opened, and a future may be dropped in the queue, with
  the lock, or just after it was handed the lock;
* **bookkeeping on every way out**: the connections gauge must be taken back on
  each of the ways a connection's task can end;
* **layers in any order**: what a tower stack promises depends on which layer
  wraps which, and `call()` of the inner layers runs before the cache is asked.

What makes each component correct is stated as the properties below; the
hazards and the properties aimed at them are listed in `PROJECT.json`.

## Modules

| Module | Models |
|---|---|
| `GatewayConfig` | the configuration sections the pipeline depends on, as CONSTANTS with their assumptions |
| `Routing` | the pure rules: pattern matching, first match, upstream resolution, excluded paths, token verdict, limiter key, cache key |
| `RateLimiter` | the keyed token bucket, state `cells`, actions `CheckKeyOk`, `CheckKeyErr`, `Replenish` |
| `ProxyClient` | calls of `proxy()` and the upstreams executing their attempts |
| `Gateway` | `handle_request`; composes the three modules above |
| `GatewayContract` | abstract: what a client and an upstream may rely on, with no routes, layers, attempts or caches |
| `GatewayRefinement` | the refinement mapping from `Gateway` to `GatewayContract` |
| `Discovery` | `resolve`, `health_check`, `watch` for Consul and etcd |
| `Server` | `main`, `Gateway::run`, `serve_connection`, the TLS acceptor, the connections gauge, the metrics server |
| `ListOps` | lists with some elements left out, as `retain` and `filter` leave them; used by the pool and by discovery |
| `TokioMutex` | external: tokio's fair mutex, with guards held across awaits and futures dropped while they wait |
| `ConnectionPool` | `get_connection`, `return_connection`, `cleanup_expired` over `TokioMutex` |
| `CacheBackend` | the commands of `MemoryCache` and `RedisCache`, and `RedisCache::get_conn` over `TokioMutex` |
| `Middleware` | the tower services in any order around an inner service; composes `Routing`, `RateLimiter` and `CacheBackend` |
| `MC*` | instances for TLC, and the statements the violation runs check |
| `*Proofs` | theorems with TLAPS proofs |

Operators whose comment begins with "Fault:" are not part of any specification.
Each is a plausible mistake in the definition that follows it; replacing that
definition by it makes TLC report the property it is paired with in
`PROJECT.json`, which shows that the property can fail.

### The contract

`GatewayContract` has four variables per request: its phase (absent, pending,
forwarded, answered, gone), its answer, an *allowance* (how often an upstream may
execute it) and its *effects* (how often one has). The mapping in
`GatewayRefinement` takes the phase from `pc`, the answer from `response`, the
allowance from the call's `max_attempts` and the effects from `executed`; every
step of the pipeline, of a call or of an upstream is then one step of the
contract or none. It says in one formula what the invariants say piecewise: an
answer of the gateway's own is given only to a request that is never executed,
a relayed one only to a request that was, 502 only to one that never will be, and
an upstream goes on executing an abandoned request up to its allowance and no
further.

### From code to state: the newer modules

* **`Server`**. `process` is `main` before, in and after its accept loop;
  `conn[c]` is what the task spawned for a connection is doing (handshake, open
  between two requests, busy in `handle_request`). `AcceptError` ends the process
  because `accept().await?` leaves `run()`. A handler can panic where a cached
  status is no HTTP status (`gateway.rs:366`); the task then ends without
  `record_active_connections(-1)`, which is why `GaugeExact` counts panics.
  A scraper's text is rendered on accept and answers every request of its
  connection, however much later it comes.
* **`ConnectionPool`**. `entries` is the vector behind the mutex, each with the
  time since `last_used` capped at `idle_timeout`; `holder` and `waiting` are the
  mutex. `Locked` is everything a method does between getting the lock and its
  connect or its end; the guard is kept over the connect. `PoolBounded` is about
  the list. The streams in use are a different number, since an entry is pushed
  when a stream is handed out and again when it is returned, and a second call for
  the address takes the entry of a stream that is still in use. `max_connections`
  does not bound them: with a limit of 1, one caller gets a stream (one entry), a
  second for the same address removes that entry and opens another, and a third
  finds the list empty and opens one more. Nor does a refusal need them: with a
  limit of 2, one stream that was returned has two entries, and a caller for
  another address gets `None` with no stream in use.
* **`CacheBackend`**. A command of Redis is `lock` (in `get_conn`), `connect` if
  there is no manager yet, `io`, `done`; one of the memory cache is `io`, `done`.
  A Redis command that fails or is dropped on the wire may have been executed.
  `MemoryCache::set` ignores its ttl, so its entries have `expires = FALSE`.
  `SetByOthers` is another program writing to a shared Redis, assumed to do so with
  a ttl as well.
* **`Gateway`**. A cached entry from which no response can be built (status
  `Unbuildable`, 1000, no HTTP status) makes the handler panic at
  `gateway.rs:366`, after `record_cache_hit` at `gateway.rs:360`: `CacheHitPanics`
  counts the hit and leaves the request `panicked`, without an answer. For the
  contract such a request is gone, as one whose client left.
* **`Middleware`**. A call first runs `call()` of every layer down to the first
  that refuses (`Reach`, `AskLimiter`), then awaits the cache, then what is inside
  it. `depth` is the layer that refused or panicked. The innermost
  service may do its work in `call()`, as the repository's `MockService` does, or when
  its future is polled, as an async block does (`InnerRuns`); `ran` is that it has
  begun. `inner.call(req)` of the cache layer runs before the lookup, so a service of
  the first kind has run when a hit drops its future. Two panics end a call without
  an answer: `CallPanics` (`middleware/auth.rs:179`, a subject that is no header
  value; the limiter outside of auth has taken its cell by then) and `HitPanics`
  (`middleware/cache.rs:81`). `ForeignEntry` is what another program may leave in
  a shared Redis, limited to entries no response can be built from: a usable one
  may contain anything, and nothing could be said of answers taken from it.
  `Arrives` is the cache layer's store: `should_cache` is given
  `Request::new(())`, so excluded paths are compared with `/` and never with the
  path of the request.

### Abstractions

* A cached status is one of `Statuses` or the single `Unbuildable` one: the code
  tells apart only whether a response can be built from it.
* A path is a sequence of tokens cut wherever a rule could tell two strings
  apart; a string prefix is then a sequence prefix. `IsExcludedPath` keeps the
  code's plain `starts_with`, so `/svc/*` excludes `/svcother` as well, while
  the router's regex for the same text does not match it.
* `token` is the verdict of `extract_token` and `decode`; an OAuth2 layer has
  no decoding key and rejects every token.
* A response is its status, who produced it, and whether CORS headers were
  added. Bodies, header copying, the target path (`strip_prefix`), request ids,
  `x-user-id`, latencies, sizes and log lines are not modelled: no step depends
  on them. The query string is part of a cache key in the code and is left out
  of the model's path.
* Steps of `handle_request` between two awaits are separate actions, so other
  requests may run between them (other threads of the runtime do). `Cancel` is
  possible only at the awaits, which is where a future can be dropped.
* `check_key` is atomic (governor uses one compare-and-swap per key).
  `Replenish` is one interval of `1/requests_per_second`; the length of the
  interval does not matter to a property that counts intervals.
* An attempt that was sent stays on the `wire` until the upstream executes it,
  at any later time or never. Its answer reaches the call only while the call
  waits for that attempt. Redirects reqwest follows are inside one `send()`.
  A call between two attempts is in stage `backoff` even when the route has no
  `backoff_ms`; the model then allows a cancellation the code does not, which
  is harmless for safety.
* The counters are those of an installed recorder (`metrics.enabled`); they are
  `u64` in the code and do not overflow within any run.
* Discovery is a separate model. In `Gateway`, resolving a service yields any
  endpoint or an error at any time, which covers everything `Discovery` does.
* A dropped future that waits for tokio's mutex leaves the queue, one that holds
  it (or was just handed it) passes it on: `DropLock`. `LockKept(tasks)` says of a
  set of tasks that it is the holder and the queue, each once, with the lock free
  only if nobody waits; the pool and the Redis client each state it of their own
  callers.
* What `retain` leaves of the pool's list, and what `health_check` keeps of a
  registry's answer, is stated by its result (`Sublist` in `ListOps`: the n-th
  element is the n-th of those that stay) instead of by a loop. `ReuseIsFresh`
  does not rely on that definition: it asks for an increasing numbering of the
  places that stay (`IsSublistAt`).
* `Common` and `Agreed` are rustls' choice: the server's first protocol that the
  client offers too.
* An endpoint of `Discovery` is any string but `NoAddress`, the instance that
  registers no address and that the code leaves out.
* `Storable` is everything the tower cache layer may store: a status
  `should_cache` accepts, from any layer inside. Access-Control-Allow-Origin is
  one of `Origins`; `NoOrigin` is a request or a response without the header.
* `ver`, `base` and `emptied` in `Discovery` are history for the properties.
  An absent entry and an empty one are the same to `resolve()` and in `cache`.

## Runs

| Run | Instance | Shows |
|---|---|---|
| `proxy_client` | 2 calls, `max_attempts` 0..3, statuses 200 and 503 | `AttemptsAccounted`, `ExecutionsBounded`, `RelayedIsLastAttempt`, `UnavailableMeansNeverSent`, `SettledIsFinal`, `TimedCallsSettle` |
| `gateway_core` | 3 requests from 7 inputs, 4 routes, burst 1, 1 interval | `ForwardedWithinQuota`, `ForwardedIsAdmitted`, `CountersExact`, `QuotaRespected`; `LimSpec` as a refinement |
| `gateway_cache` | 2 requests, Redis filled and expired by others, unusable entries included, a timeout on every route | `LocalAnswersStayLocal`, `CountersExact` with hits and panics, `EveryRequestEnds`; `ImplementsContract` as a refinement |
| `discovery` | both providers; 2 resolvers, 1 watcher, 2 services, 2 registry changes | `UnavailableIsGenuine`, `NeverOlderThanQuery`, `CacheConverges` |
| `connection_pool` | 3 clients, 2 addresses, `max_connections` 2, `idle_timeout` 1 tick | `PoolBounded`, `LockHandedOn`, `ReuseIsFresh`, `CallsReturn` |
| `server` | 2 connections, 1 scraper, every combination of TLS, client auth and metrics, 4 kinds of client, 1 panic | `GaugeExact`, `LeaversAreForgotten` |
| `middleware` | 2 calls from 5 inputs, 1 task that deletes and clears, 3 layer orders, both backends, both kinds of inner service, unusable entries of others, burst 1, ttl 1 | `AuthGuardsCache`, `OwnOrigin`, `CountedOnce`, `InnerWithinQuota`, `OneManager`, `RedisEntriesExpire`, `CallsEnd` |

The bounds, and why they suffice. Calls interact only through the limiter's
buckets and the counters, so three requests, two of them from the same address,
are enough to race for one cell and still have one more in the pipeline. A
budget of 3 has a first, a middle and a last attempt; 0 and 1 are the edges. Burst 1
and one interval let a bucket run empty and refill, or be capped when it is full.
The four routes of
`gateway_core` are a static upstream with retries, a discovered service limited
to two methods, a load balancer without endpoints and a route with
`max_attempts: 0`; the inputs reach every early return. Two registry changes
let a service appear and disappear, or one service change between the
snapshots of two overlapping queries. Three pool clients are one that connects
with the lock, one that waits and one that returns or is dropped; two entries and
two addresses give a list with a matching entry that is not the first. Two
connections of `Server` share only the gauge. Two calls of `Middleware` are the
one that fills an entry and the one that is served from it, or two misses that
store one after the other, and with the administrator three tasks queue for the
Redis connection; the three orders put the cache innermost, outermost and
between auth and the rest. Symmetry over requests is used in
`gateway_core`, which checks no liveness; nothing tells requests apart.

Deadlock is checked in every run: a state where some request cannot move and
not all are finished would be reported. In `server` the end of the process is a
state it may stay in (`Stopped`).

### Fairness

* `Fairness` and `CallFairness`: tokio polls a task whose await is ready, and
  `sleep` and the route's timeout fire. Discovery queries carry a 5 s client
  timeout and the cache is assumed to answer or fail. A client either finishes
  its body or goes away; the gateway has no timeout of its own for that, so
  this is an assumption about clients. Upstreams are under no obligation.
* `DiscFairness`: the watcher's interval ticks and its task runs; a query that
  is tried again and again is answered at some time (strong fairness of
  `Answer`), without which no cache could converge. Nothing is assumed of
  `resolve()`.
* `PoolFairness`: a task that has been handed the lock is polled, and a connect
  succeeds or fails (the kernel gives up on a connect that is not answered). Nobody
  has to call the pool or to return a stream. The mutex itself is first come, first
  served, as tokio documents.
* `SrvFairness`: the task of a connection is polled when its socket reports that
  the client is gone. Clients and handlers are under no obligation, and a client
  that stays may hold its task for ever: `keepalive_secs` is never read.
* `Fairness` of `Middleware`: a ready future is polled, the inner service answers
  or fails, Redis answers or its connection breaks. Nobody has to call or cancel.

### Disagreements with comments, docs and tests

Five runs check a statement of the repository and find it violated. Each states
what the text says, in the module of its component or, for the pipeline, in
`MCGateway` (`EveryRequestEnds` is in `Gateway`).

| Run | Text | Code |
|---|---|---|
| `no_timeout` | README and example configuration: `request_timeout_secs: 30` | the field is never read; without `timeout_ms` a hanging upstream holds a request for ever |
| `cors_response` | `gateway.rs:378` "Add CORS headers to actual response" | `Origin` is looked for in the upstream's response |
| `unresolvable` | `gateway.rs:261` "No route matches the request" | also answered when the matching route cannot be resolved (`router.rs:92`) |
| `cache_fill` | `tests/integration_test.rs:355` "should be served from cache" | `handle_request` never writes the cache |
| `alpn` | `tls.rs:25` "Configure ALPN for HTTP/2 and HTTP/1.1" | a client that offers h2 is given h2, and `serve_connection` only serves HTTP/1 |

Further differences a reader of the models meets, which follow from definitions
and have no run of their own: `gateway_requests_total` ("Total number of HTTP
requests", `metrics.rs:28`) only counts relayed upstream responses
(`CountersExact` says exactly which); `auth_required` of a route is never read, so
an open route needs a token all the same; the sample configuration sets
`default_ttl_secs` for the memory cache, which has no expiry; `resolve_upstream` says
"Simple round-robin for now" and takes the first endpoint, and `select_endpoint`
is never called; `build_key` leaves absent headers out, so two requests that lack
different headers may share a key; with `client_auth` the TLS configuration is
built anew and loses its ALPN protocols; an error of `accept()` ends the process,
with every connection, instead of being logged (`AcceptError`); a scraper that keeps
its connection reads `gateway_active_connections` as it was when it connected,
because the text is rendered at the accept (`MetricsAccept`); the pool's comment
"Create new connection if under limit" (`pool.rs:61`) is about its list and not about
the streams in use (see above); below the comment "Check cache"
(`middleware/cache.rs:69`) `inner.call(req)` runs before the lookup, so a hit does not
spare a service that works in `call()`; concurrent misses of
one key each run the inner service, since the tower cache has no single flight
(`Miss`); with the cache outside CORS a hit may name the origin of another request
(the exception in `OwnOrigin`).

## Proofs

All theorems hold for every value of the constants that satisfies the named
assumptions: any route table and sections of the right form
(`ConfigAssumption`), any burst size and bound on intervals
(`LimiterAssumption`), any budgets and statuses (`ProxyAssumption`), a finite
set of requests whose limiter keys and budgets are those of the configuration
(`GatewayAssumption`), for discovery any services, key ranges, catalogs and
disjoint sets of tasks (`DiscoveryAssumption`), for the process a finite set of
connections and any configurations (`ServerAssumption`), any limit and timeout of
the pool (`PoolAssumption`), any backend and ttl (`BackendAssumption`), and
stacks that hold every layer once, in any order, over a finite set of calls
(`MiddlewareAssumption`). Every inductive invariant was model-checked on the
component's instance before it was proved.

* **`ListProofs`**: the facts the other proofs share. The library's induction
  theorems cannot be instantiated by the provers, but that a non-empty set of naturals
  has a least element can be had from a well-founded order (`LeastNatural`). What
  a recursive definition computes is then followed up to the least place where
  the claim would fail. So `Nth` is defined for every n up to the cardinality of
  a finite set of naturals and grows with n, `Sublist` is a list of the elements
  that stay in their order, `RemoveAt` removes one, and the community modules'
  `FlattenSeq` of lists is a list.
* **`RateLimiterProofs`**: `LimInv` is the type invariant and
  `admitted + cells <= Burst + intervals`; the quota is inductive once the
  cells are counted on its left side, which is why it is stated so. `LimWindow` is
  the same from any moment on instead of from the start: a bucket holds no more
  than the burst at that moment, and from there the sum grows as before
  (`SinceThen`). The total quota alone would let a key that was idle for an hour send
  an hour's requests at once; the window says it may not.
* **`GatewayProofs`**, first the calls of `ProxyClient`: `CallInv` adds to the types
  what ties a call's stage to its history: which attempts are on the wire
  (`Accounted`: within `1..attempt`, together with the executions exactly
  `attempt`), and what its stage says about reply, error and attempt (`Outcome`).
  `ExecutionsBounded` alone is not inductive: a wire with an attempt too many would
  break it later. `CallsRunDown` counts the steps a call has left (two per attempt
  it may still make, and one): each step of its own leaves fewer, no other step
  gives it more.

  Then the pipeline: `GatewayInv` is the conjunction of `PipeInv` (for every
  phase of `handle_request`, which checks the request has passed and that its
  call exists exactly from the proxy phase on), `LimInv`, `CallInv` and
  `QuotaHeld` (per key, the requests beyond the limiter are no more than were
  admitted; by cardinality, since a request that passes adds one to both). The
  invariant splits along the composition: `StepLimiter` and `StepCall` show
  that each step of the gateway is a step of the component or leaves it alone,
  so the components' lemmas carry their invariants; the same two lemmas give
  the refinement theorems `GatewayImplementsLimiter` and
  `GatewayImplementsCalls`. `GatewayCounters` (`CountersExact`) is a second
  cardinality argument: a step either leaves the answers and the counters
  alone or adds one request to one of the counted sets and one to its counter,
  which needs `GatewayInv` to know that the request had no answer before. A hit
  is counted before the response is built, so the hits counter is the answers from
  the cache plus the handlers that panicked.
  `GatewayImplementsContract` takes each action of `Gateway` in turn to the step
  of `GatewayContract` it is under the mapping, or to a stutter; `GatewayInv`
  supplies what the abstract guards ask for (the allowance not used up, no
  execution before a local answer, at least one before a relayed one, none ever
  after a 502). `GatewayWindow` is the window of the limiter told of the requests
  that reach the proxy, by cardinality of those admitted since (`NewlyHeld`).
  `GatewayMovesOn` says that a request's own steps take it to a later phase or
  use up one of its call's steps, and that nobody else's step moves it.
* **`DiscoveryProofs`**: `DiscInv` says that no cached or received version is
  ahead of the registry, and that a pending answer is at least as new as `base`
  and recorded in `emptied` if it is empty. For `DiscTypeOK` it has the types of the
  lists, which rest on `Sublist` and `FlattenSeq` (`ListProofs`). `CurrentIsTrue`
  ties versions to contents: a list of the registry's version is what the registry
  holds. It needs the version to move with every change of the registry, and
  makes the versions in the other properties mean something.
* **`TokioMutexProofs`**: the lemmas on the mutex. Each of its operations keeps
  `LockKept`, for the tasks plus the one that starts to wait or minus the one
  that leaves; the pool and the Redis client cite them. `NobodyOvertakes` is a
  step property: the holder and the tasks before a waiting one are, after the
  step, among those before the step. That each place is held by one task
  (`LockKept`) is what makes "before" mean something.
* **`ConnectionPoolProofs`**: `PoolBounded` alone is not inductive, because a
  caller pushes its entry after a connect. The invariant adds that whoever
  connects holds the lock and, unless it reuses an entry, that there was room
  (`Len(entries) < MaxConnections`); that nobody else fills the room meanwhile
  is `LockHandedOn`, one holder at a time. `PoolReuseIsFresh` takes the entry that
  is removed from the retained list back to its place in the list before:
  places that stay after `retain` and places that stay after `remove` are both
  increasing, and so is their composition (`SublistKeeps`, `SublistRemoves`).
  It needs that a caller waiting for the lock has no entry yet (`NothingTaken`).
  `PoolNobodyOvertakes` takes the mutex's step property through every method.
* **`ServerProofs`**: `GaugeInv` extends `GaugeExact` to a process that has not started
  (no connections, no panics) or has ended (no connections), without which the
  first accept could not be shown to count right. Each way a task ends removes one
  member of the live connections and one from the gauge, by cardinality.
  `LeaversRunOut` says that the task
  of a client that has gone only comes closer to its end. `AlpnNeedsPlainTls` bounds
  the disagreement of the run `alpn`: it takes TLS without client certificates,
  because otherwise the acceptor has no protocols to agree on.
* **`MiddlewareProofs`**: first the backends, for any use of the commands:
  `BackInv` has `ManagerLockHandedOn` (`LockKept` of the commands in `get_conn`, the
  counterpart of the pool's `LockHandedOn`), `Connecting` (who connects holds the mutex
  and there is no manager, hence `OneManager`), `Commanded`, and `Expiring` (an
  entry of Redis has a ttl and has not reached it). Then `MwInv` for the stack:
  * `ReachOK` ties how deep the `call()`s got to the progress of the call: what is
    in `lookup` or `store` has passed every layer outside the cache, what runs the
    inner service has passed all. With `Reach` it gives `AuthGuardsCache` for
    every order of the layers: an answer of the inner service, fresh or cached,
    belongs to a call that auth, being outside the cache, did not refuse;
  * `AnswerOK` says which points of the progress have an answer, where it came
    from and which origin it may name;
  * `ValuesIn(Clean)`: a value in the store, in a result or on its way to the
    store names no origin but those of the GETs with its key, and none at all if
    CORS is outside the cache (`Named`). `OwnOrigin` speaks only of answers and is not
    inductive without it, since a hit copies from the store; `Looking` adds that a
    call waits for the entry of its own key;
  * `PassedHeld`: per key, the calls beyond the limiter are no more than it
    admitted, by cardinality; with `LimInv` it gives `InnerWithinQuota`;
  * `CountedOnce` itself is inductive relative to the rest, by the same
    argument on the set of counted calls.

  From it follow `MwImplementsLimiter` (every step of the stack is a step of
  `RateLimiter` or leaves it alone), `MwWindow` (as `GatewayWindow`, for the calls
  no layer refused), `MwNobodyOvertakes` for the mutex of `get_conn`, and `MwMovesOn`
  (phases of a call and steps of its command both run down, and a call that
  panics is at its end).

Only model-checked: the liveness properties (`TimedCallsSettle`, `EveryRequestEnds`,
`CacheConverges`, `CallsReturn`, `LeaversAreForgotten`, `CallsEnd`), because fairness and
ENABLED are outside the prover's reach. The part of each that needs no fairness is
proved, for every instance: whatever is waited for comes no further away and is
never lost (`CallsRunDown`, `GatewayMovesOn`, `DiscCurrentIsTrue`, `PoolNobodyOvertakes`,
`LeaversRunOut`, `MwNobodyOvertakes` with `MwMovesOn`). What remains to TLC is that
the next step is enabled and, being fair, is taken. Every invariant and every action
property that a passing run checks is stated by a theorem.

## Not modelled

* `select_endpoint` (the load balancer): never called, and one expression per
  strategy (a shared atomic counter modulo the number of endpoints, or a hash);
  the router's own choice, the first endpoint, is in `Routing`.
* `pool.rs::zero_copy`: conversions of bodies, unused.
* `LoggingService` and the logging set-up: everything passes through.
* Histograms, labels and sizes in the metrics; claims and scopes of a token;
  formatting of keys and headers.
* Loading of the configuration and of certificates: parsing and file I/O at
  start; that it may fail is `StartFails` in `Server`. The values of the demo
  configuration in `main.rs` are data.
* The HTTP and TLS libraries: hyper, rustls, reqwest, moka, the Redis client and
  governor appear as their callers rely on them, marked external.

## Order of the work, and what is left

Written in this order: `RateLimiter`, `ProxyClient`, `Routing`, `Gateway`, `Discovery`
with their proofs, then `GatewayContract`, `ConnectionPool`, `Server`, `CacheBackend`,
`Middleware` with theirs, then `ListOps` and the proofs about windows of time, lists,
queues and running down. What could be added:

1. `GatewayContract` for the tower stack: the stack of `Middleware` promises its callers
   something close to the pipeline's contract, with the layers' order as a parameter.
2. A composition of `Discovery` with `Gateway` in place of the free choice of an
   endpoint; the free choice covers it, so this would add detail and no behaviour.
3. The load balancer, should `select_endpoint` come into use.
