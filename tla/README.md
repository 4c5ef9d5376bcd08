# A TLA+ model of smart-travel-aggregator

The repository is an asynchronous FastAPI service that searches flights and
hotels at several providers, asks upstream services for weather and exchange
rates through a resilient client, keeps accounts and tokens, and runs Celery
tasks that watch prices. These modules model its stateful parts from the code in
`app/`, check them with TLC on small instances and prove the central safety
properties with TLAPS for every instance.

`PROJECT.json` lists, for every definition, the lines it stands for (`map`), the
runs and their properties, a fault for each property (`mutants`: the definition
named `as` replaces the one named `of`, and the property must fail), the places
where the code differs from what its documents or tests say (`findings`), the
hazards the properties are aimed at, and the theorems.

## 1. Inventory

| Part | State | Operations | What is hard | What makes it correct |
| --- | --- | --- | --- | --- |
| `resilience/circuit_breaker.py` | state, failure count, opened_at | `call` with `_maybe_half_open`, `_on_success`, `_on_failure` | the lock is released while the guarded call runs; cancellation is seen by neither handler | opens exactly with a streak of failures; quiet time after each failure; never stranded |
| `providers/http_client.py`, `weather.py`, `currency.py` | one breaker, one cache, per call an attempt counter | `get_json`, `_get_with_retry`, `_normalize` | retries inside the guarded call, a cache shared between callers, payloads stored before they are validated | bounded requests after opening; every call ends; recovery |
| `resilience/cache.py` | key to value and expiry | get, set, delete, clear | lazy expiry | behaves as a cache whose entries vanish on time |
| `services/price_monitor.py`, `workers/`, `api/v1/price_alerts.py` | alert rows, broker queue, a session for each run | create, delete, `run_once`, commit | mail before commit, one commit for many alerts, lost workers and redelivery, overlapping runs, rows deleted meanwhile | no silent trigger, no resurrection, met alerts are settled |
| `core/security.py`, `services/token_blocklist.py`, `api/deps.py` | denylist in the cache | issue, decode, lookup, load the account, revoke, refresh, logout | whole seconds against a real clock, awaits between decode, lookup and load, two revocations in one logout, accounts that change under live tokens | the guards refuse a revoked token until it expires (`get_optional_user` of the searches does not ask); nobody is served for an account that is not in order |
| `services/auth_service.py`, `repositories/users.py` | users rows | register, verify, login with rehash, reset | check then insert, mail and response before commit, rows read in one transaction state and written in another | one owner for an address, no lost verification, the password is the user's choice |
| `api/v1/auth.py`, `api/v1/flights.py`, `workers/tasks.py` (records) | audit log, search history | rows added with a request, `cleanup_audit_log` | rows that share the fate of their request, users removed meanwhile, late and repeated cleanups | the audit log is complete for the retention period, history has an owner |
| `core/rate_limit.py` | hits by identity; counters in Redis | `check`, `_sweep` | edges of the window, forgetting of idle identities, lost connections | never over the limit, never refused below it, nobody locked out |
| `services/aggregation.py`, `hotel_aggregation.py`, `pagination.py` | none between requests | `search`: fan-out, merge, de-duplicate, filter, rank, sort, page | providers that fail on one page and not on the next; divisions by a span that may be zero | pages fit together or say they are degraded |
| `core/client_ip.py` | trusted networks | `client_ip` | a header written partly by the sender | the answer is a sender on the real path |
| `core/config.py` | settings | `_split_list`, validators | one list written in three ways and read by two parties | no wildcard together with credentials |
| `main.py`, `core/middleware.py`, `errors.py`, `metrics.py`, `logging.py` | context variable of each task, counters | start, one request through the stack | overlapping requests, exceptions that pass some layers, commits that fail after the answer | an answer and a log line name their own request |
| schemas, domain types, sample providers, admin and health routes, wiring | none that changes | | | not modelled, see section 7 |

The parts interact as follows. A route is entered through the middleware and
the rate limiter, which keys on the answer of `client_ip`. Search routes call an
aggregation service, which calls all providers; weather and currency routes call
an adapter, which calls the resilient client, which calls the cache and the
breaker. Account routes call `AuthService`, which works on the session of the
request, the notifier and the denylist; the denylist is kept in the same cache
as the responses. The Celery task calls `PriceMonitor`, which calls the flight
aggregation, the notifier and the same tables as the alerts API.

## 2. Modules and the code

| Module | Models | Actions and their code |
| --- | --- | --- |
| `CircuitBreaker` | `CircuitBreaker.call` for any number of overlapping callers | `Admit`, `Reject` are the first critical section, `OnSuccess` and `OnFailure` the second, `Cancel` a CancelledError in the guarded call |
| `ResilientHttpClient` | `get_json` composed with `CircuitBreaker`, which it extends (each client step is conjoined with the breaker's) and the cache | one action for each stretch between two awaits; the upstream answers good, misshapen, garbage, transient or permanent errors |
| `TtlCache` | what the `Cache` protocol promises; at the same time `RedisCache` | `Get`, `Set`, `Delete`, `Clear`, the passing of time |
| `InMemoryCache` | the dictionary with lazy expiry | one action for each method; `ImplementsTtlCache` is the refinement of `TtlCache`, in which every call keeps its name, its arguments (`request`) and its `result` |
| `PriceMonitor` | alerts API, beat schedule, broker and `_monitor_prices` of any number of workers | `ListActive`, `CheckPrice`, `Notify`, `Commit` are the awaits of a run; `NotifyFails`, `CommitFindsRowGone` and `Crash` its bad ends; `CommitSkipsGoneRows` is the commit of a batch that passes over a deleted row |
| `TokenSessions` | tokens, denylist and the requests that use them, all of one account | `Arrive` decodes, `Lookup` is the denylist's answer, `LoadUser` and `Refresh` read the users row, `Revoke` computes the ttl, `SetDenied` is the write, later |
| `TokenLife` | what the denylist promises of a token: live, revoked, expired, never back | the abstract specification that `TokenSessions` implements (`ImplementsTokenLife`): `Status`, what the cache and the clock say together, is its `status` |
| `Accounts` | the use-cases of `AuthService` on the users table | a request reads, flushes (waits for a lock or meets the unique index), mails, is answered and commits in separate steps |
| `UserRecords` | `Accounts` composed with the audit log, the search history and the cleanup task | `CommitAll` is the commit of a request with its rows, `CommitRefused` the foreign key's refusal, `CleanupAuditLog` the DELETE with a cutoff computed on some earlier day |
| `AppSettings` | `Settings` where it decides over CORS, and CORSMiddleware's reading of it, as operators | |
| `InMemoryRateLimiter`, `RedisRateLimiter` | the two limiters | `Check`; `CheckLost` for a connection that is lost once the transaction has run |
| `ClientIp` | `ProxyTrust.client_ip`, as operators | |
| `RateLimiting` | `enforce_rate_limit`: `ClientIp` composed with whichever limiter the container chose (both by INSTANCE) | `EnforceRateLimit`; the header as real proxies extend it is external |
| `Aggregation` | the contract both searches share, with the product, price, filter, score and sort as operator parameters | `Search`, `Settle` (a provider returns or raises), `Respond`, `Refuse` |
| `FlightSearch`, `HotelSearch` | the operators of flights and of hotels, substituted into `Aggregation` | `_dedupe`'s key, `matches`, `_rank`, `_sort` |
| `RequestPipeline` | start-up with settings `AppSettings` accepts, the middleware stack and the exception handlers | one action for each layer and direction; `CommitFails` is the session's exit after the response |
| `ResilientHttpClientProofs`, `InMemoryCacheProofs`, `PriceMonitorProofs`, `TokenSessionsProofs`, `UserRecordsProofs`, `RateLimitingProofs`, `AggregationProofs`, `RequestPipelineProofs` | the theorems, each about the module it is named after (`ResilientHttpClientProofs` also about `CircuitBreaker`, `UserRecordsProofs` also about `Accounts`, `RateLimitingProofs` also about `ClientIp` and the limiters, `AggregationProofs` also about `FlightSearch` and `HotelSearch`) | |
| `MC...` | instances for TLC | |

When a request is committed. `pyproject.toml` asks for a FastAPI whose
dependencies with `yield` leave after the response has been sent, so
`get_session` commits behind the answer. `Accounts`, `UserRecords` and
`RequestPipeline` have that order: a request that has been answered may still be
rolled back. The database is PostgreSQL, as in `docker-compose.yml`: it waits for
locks and enforces foreign keys, which the SQLite of the demo does not do by
itself. `CreateAlert` and `DeleteAlert` of `PriceMonitor` are single transactions;
the workers see them when they commit. A flush whose UPDATE matches no row is
seen where the driver counts: aiosqlite for every batch, asyncpg only for a batch
of one row. `PriceMonitor` has both, since the repository configures both.

Conventions. Clocks appear as ages where the code only compares them. History
variables are declared apart and read by properties only. Definitions whose
comment starts with "Fault:" are the mutated forms; nothing uses them.

Abstractions worth knowing. Payloads are good or misshapen; the numbers of a
forecast are not kept. Passwords are model values and a hash is its password and
whether its parameters are outdated. A fare is its minor units. Scores
are integers in thousandths, rounded as the code rounds. CIDR matching is
membership in a set. A uuid is a value nobody else draws. The loops of a search
(`Merge`, `Dedupe`, `Filter`) are recursive functions with a turn of the loop as
their step; Python's stable sort puts each element at the place that the number
of elements before it says, by key, then position. A score depends on the set of
offers that are ranked together, since `_rank` only takes their minima and maxima.
The hits that the in-memory limiter remembers are a set: the code filters and
counts its list and never looks at the order.

## 3. Runs

Eight runs pass.

| Run | Bounds | States | Shows |
| --- | --- | --- | --- |
| `http_client` | 2 callers, 1 key, threshold 2, 1 retry, ttl 2, window 1 | 218 thousand | the breaker, inside the client: it opens with exactly the report that completes a streak, leaves a failing upstream alone for the whole window, and no cancelled probe can strand it; since it opened, one caller has sent nothing and any other at most the retries of one call; every call ends; recovery in spite of cached bad payloads |
| `memory_cache` | 2 keys, 2 values, ttl up to 2 | 442 | the dictionary implements `TtlCache` |
| `price_monitor` | 2 alerts, 2 workers, queue of 1, a fare at the target or none | 271 thousand | no silent trigger, no resurrection, met alerts are settled once crashes end and mail is accepted |
| `token_sessions` | 2 pairs of one account, 2 requests, half-second ticks, lifetimes of 1 and 2 seconds, logouts name their own pair | 1.2 million | the denylist implements `TokenLife`: denials outlive tokens; no gap; a logout that reports success revoked both; accounts that are not in order are not served |
| `accounts` | 2 keys, 1 address, 2 passwords, 2 requests; 3 days, retention of 1 day, up to 2 audit rows | 1.5 million | races of registrations, rehashes, resets, verifications, searches and removals, answered before they commit; audit log and history |
| `rate_limiting` | limit 2, window 3; every header of up to 2 parts on 6 paths through up to 2 proxies | 10 thousand | the right caller is charged; in memory never over the limit, never refused below it, idle callers dropped; in Redis at most twice the limit in a window, no counter without an expiry, no lockout |
| `search` | 2 providers, up to 4 offers of 3 products, 17 queries, pages of 1 and 2 | 584 thousand | flights and hotels: pages tile, de-duplication and order against their reference, following the cursor ends |
| `request_pipeline` | 2 requests, 1 client id, 2 origins (one never listed), 12 deployments | 171 thousand | no request is named by another's answer, and answers of a route are complete; credentials only for listed origins |

Why these bounds are enough to be interesting. The hazards of the breaker need
a call that outlives the opening of the breaker and one that asks to be admitted
after it: two callers, of whom one fails, comes again and is under way when the
other one's failure opens the breaker. Its safety properties are proved for any
number of callers. Those of the price
monitor need two sessions that hold the same alert, and a second alert that is
rolled back with the first. The denylist needs ticks that fall inside a second
and a lifetime of at least two. Accounts need two requests at a time, a third
only repeats what the first two do to the row; three days are one inside the
retention period, one at its edge and one past it. The pipeline needs two
requests, so that one sets and resets its id while the other is inside. The limiter needs a window longer
than the limit, so that a full list can lose one hit and not the others. Two
providers and two offers each give the same product from both sides, in either
order, at either price. Where a bound is on a counter (`FailureCap`, `CountCap`,
`MaxSeen`, `MaxQueue`) the counter stops at a value past which no
guard can tell the difference, or, for the queue, a message that finds it full is
one of the messages already there. `MaxNow`, `MaxDay` and `MaxRows` end the
exploration instead; they are past the last expiry of the first tokens, past the
retention period, and a registration and a login.

Runs that may end (searches, a request that has been answered) do not check for
deadlock; the others do.

### Where the code differs from its documents

Four runs state what a comment, document or test says and are violated; the
quotations are in `PROJECT.json`.

* `breaker_rejects_for_window`: a success that was under way when the breaker
  opened closes it at once, since `_on_success` does not look at the state; calls
  go through within the recovery time and without a probe.
* `price_monitor_every_alert`: an exception of `send` ends the run at its alert,
  so one recipient whose mail is refused keeps the owners of alerts listed after
  it from being told, run after run.
* `accounts_reset_sticks`: a login with the old password that read its row
  before a reset committed, and rehashes, writes the old password back.
* `pipeline_internal_errors`: the handler of unexpected exceptions runs outside the
  middleware of the application, after the request id was reset. Four texts speak
  of every answer or every line, and the property asks that at least one of them
  be true of an internal error; it is violated, so none is: the problem has no
  trace id, the security headers are missing, `http_requests_total` does not have
  the request, and the line `unhandled_exception` has no id. Four findings refer to
  this run.

The models also have the following behaviours, which need no run to be seen
once the lines are read side by side with what is written about them.

* A half-open breaker admits every caller, not one probe.
* An expired entry of the in-memory cache leaves only when its own key is read,
  although `token_blocklist.py` says that entries "never grow unbounded"; Redis
  keeps that promise.
* The access line of any completed request has no id either: `request_completed`
  is logged after the reset. What holds is that no line has the id of another
  request (`TracedToOwnRequest`).
* Preflights, which CORSMiddleware answers, have no security headers and are not
  counted.
* `raise_for_status` makes a permanent status an error of the kind that
  `_get_with_retry` retries.
* A misshapen humidity reading is not met by the `except` of `_normalize`:
  `_mean_humidity` is called outside its `try`, and the error is not a
  ProviderUnavailableError.
* An owner may be told more than once: mail leaves before the commit.
* Target and fare are compared in minor units whatever their currencies.
* The loser of two concurrent registrations meets the unique index, and the
  error is answered as an internal one, not as a conflict.
* `get_optional_user` asks neither the denylist nor whether the account is active:
  a search with a revoked token, or that of a disabled account, is still
  remembered as the user's. It is part of `Search` in `UserRecords`, where a search
  is recorded for any user who exists; `TokenSessions` has the requests behind the
  guards only.

## 4. Fairness

* `CircuitBreaker`, `ResilientHttpClient`: the event loop resumes ready tasks
  and time passes (weak fairness). httpx has a timeout, so a request is answered
  or fails; a caller may be cancelled, but not every caller always: receiving is
  strongly fair. Callers keep coming, which is what traffic does; without it a
  breaker that is open simply stays so. That the breaker closes has one more
  premise (`BreakerIsReached`): from some time on the cache does not fail, and
  clients go away only while their request is under way upstream; with a cache
  that always fails nobody reaches the breaker.
* `PriceMonitor`: the beat is periodic, idle workers take messages, a run
  proceeds. That crashes end and mail is accepted again are premises of the
  property, not fairness.
* `RateLimiting`: time passes.
* `Aggregation`: provider searches end, clients follow the cursor. The last
  conjunct is weak fairness of `Respond` with its enabling condition spelled out.

## 5. Proofs

All theorems hold for any values of the constants that satisfy the named
assumptions of the modules (thresholds and windows are positive numbers, model
values are distinct from what they stand apart from, and what is said below). Each
proof module defines an inductive invariant `IInv` (`BreakerInv` for the breaker, `ClientInv` for the
client), proves that it holds
initially and is kept by every action, and derives the properties from it. Why
each needs more than its properties:

* **Circuit breaker** (`BreakerAssumption`). `OpensExactlyOnStreak` and
  `QuietAfterFailure` follow from no single step: the history of outcomes determines the
  state only through the counter, and the wait the code measures bounds the quiet
  time only through the stamp. `BreakerInv` adds that the counter has reached i exactly
  when the i newest outcomes are failures, that the state is closed exactly below
  the threshold, that the stamp is the time of the newest failure, and that a
  half-open breaker has waited a full window. `SuccessKeepsStreak` and
  `FailureKeepsStreak` carry the argument.
* **Resilient client** (`BreakerAssumption`, `ClientAssumption`). `ClientImplementsBreaker`: every step
  of the client is a step of the breaker or leaves it alone, so what is proved of
  the breaker holds inside the client, with retries, cache and cancellations around
  it (`ClientOpensOnConsecutiveFailures`, `ClientQuietAfterFailure`).
  `RequestsAfterOpeningBounded` counts
  the requests of each caller since the opening; that they are retries of calls
  admitted before needs that a caller is inside the breaker exactly while it
  waits or sleeps, that a sleep leaves an attempt, that a caller still inside has
  sent no more than its attempt number since, and that the caller that opened
  the breaker has not been inside since; that caller is the one the property
  says exists.
* **In-memory cache** (`MemoryAssumption`). `LazyExpiryIsUnobservable`: with
  entries mapped to what is left of their life and expired ones to nothing, each
  method is the abstract method and the dropping of an expired entry a stutter;
  one lemma for each action.
* **Price monitor** (`MonitorAssumption`). `DeactivatedMeansNotified` says nothing
  of the deactivations that sessions hold; `IInv` adds that whatever a session
  would deactivate has been announced or its row is gone, and that alerts without
  an owner have no row. `DeletedStaysDeleted` follows for each action from what
  an UPDATE by primary key does to a row that is gone: the flush counts the rows
  and fails, or it does not count and the row is passed over.
* **Token sessions** (`SessionsAssumption`). A revocation is computed from one
  reading of the clock, written later and read later still. `IInv` says of each
  stage what the next relies on: a pair was issued in a second that has begun; a
  ttl in hand, whenever it is written, reaches the expiry of its token; a denial
  lasts as long as its token; a logout has dealt with the tokens behind it; a
  request that came with a revoked token is waiting for the denylist or its token
  has expired. `SessionsImplementTokenLife` maps each step to the step of
  `TokenLife` it is, or to a stutter. The one arithmetic fact is that a second
  begins at or before the instant it is read.
* **Accounts and records** (`AccountsAssumption`, `RecordsAssumption`). The
  properties speak of committed rows and answered requests; what keeps them so
  are the conditions under which requests under way will commit: the key of a
  registration is nobody else's, the address of an executed INSERT is free and
  reserved, a locked row exists, a registration at its answer has mailed, a rehash
  holds a password that was chosen, and the events remembered are those of the
  retention period.
* **Rate limiting** (`GuardAssumption`: the requests are headers and paths of
  any length whose sender is outside our networks). In memory: what is remembered
  within the window is exactly what was let through in it, so a decision by the
  list is a decision by the grants; identities without a key have no hits;
  between sweeps nobody ages by more than the time since the last sweep. In Redis:
  the grants of the last window are those of the present counter, which counts at
  least as many, and those of at most one counter before it, hence twice the
  limit. `IdentityIsCaller` proves `client_ip` right for every header: the
  real path ends it, so what the sender wrote is never reached.
* **Aggregation** (`AggregationAssumption`: catalogues are sequences of offers,
  limits are positive, prices and sort keys are integers, scores lie between 0
  and 1000, and `MaxSeen` is at least the number of products on offer, so that the
  history of received items is never cut short). Three layers:
  * The loops compute what their names promise. `IntervalInduction` is induction
    over the turns of a loop, from the well-foundedness of the naturals;
    `LoopExists` shows that the recursive functions are well defined, and the
    `...Unfolds` lemmas give their equations. `MergeIsUnion`, `DedupeIsCheapest`
    and `FilterIsASelection` are proved along them with a loop invariant each;
    `SortSorts` shows, by counting, that every place is taken exactly once and that
    keys never decrease. `OrderedIsListing` puts them together.
  * `IInv` says what the properties leave open: where the cursor stands in relation
    to what was received (the items received so far end where the next page will
    begin), and that a page is a listing also while the next one is being
    gathered. That an unflagged page comes from all providers is
    `UnflaggedIsWhole`; that it continues the last one is `RespondTiles`.
  * `DominanceKept` has one more hypothesis, that every catalogue is one of flights
    or of hotels that are ranked as such (`RanksFlights`, `RanksHotels`; TLC evaluates
    it on the instance, `MCSearchesRanked`). `FlightScoreMonotone` and
    `HotelScoreMonotone` prove of the two `_rank`s that an offer that is in nothing
    worse scores no less: every span that is divided by is positive, and products,
    quotients and rounding are monotone.
* **Request pipeline** (`PipelineAssumption`: no origin is the absent one,
  the credentials flag is a Boolean). What each layer may rely on when a request
  reaches it: the id is set exactly between `set` and `reset`, lines are stamped
  with their own id or none, a preflight goes no further than CORSMiddleware,
  the response has what the layers passed have added and nothing else, and only
  accepted settings serve.

Each inductive invariant was checked with TLC on the instance of its run before it was proved.
`BreakerInvariant`, `ClientInvariant`, `SessionsInvariant`, `RecordsInvariant`,
`MonitorInvariant`, `SearchInvariant`, `PipelineInvariant` and `LimitersInvariant`
are the theorems that it holds in every reachable state.

Only model-checked:

* the liveness properties (`ClosesOnceUpstreamAnswersWell`, `EveryCallEnds`,
  `RecoversOnceUpstreamAnswersWell`, `MetAlertsAreSettled`, `LockoutEnds`,
  `TraversalEnds`), which need fairness and ENABLED;
* the properties of the four runs that are violated.

Every safety property of a passing run, invariant or action property, is stated
by a theorem.

## 6. Plan

Done, in this order: breaker, client, cache, price monitor, tokens, accounts,
limiters with the client address, aggregation, pipeline; proofs of the first,
third and fourth; then audit log, search history and cleanup, the commit behind
the response, accounts that change under live tokens, `TokenLife`, settings and
CORS; then the proofs for the client, tokens, accounts with their records,
limiters and pipeline; last the proofs for the aggregation, and of the breaker
inside the client. What could follow, if more is wanted: the lifespan of the
container and the requests under way at shutdown; the currencies of offers in
`Aggregation` (prices of different currencies are compared there too).

## 7. Not modelled

* Schemas and domain types: declarations and field validation, nothing that
  changes over time. Container, schema creation and the settings that no
  decision of the models depends on: construction; the settings that matter are
  constants of the modules.
* Shutdown: `lifespan` closes the container after the server has drained its
  requests; the order is the server's.
* Sample providers: deterministic data; `Aggregation` takes any catalogue.
* Admin and health routes: read-only queries.
* Signatures, hashing and JSON: taken as what they promise.
* SMTP, Redis, the database, Celery and Starlette: modelled from how the code
  uses them (a send that fails after delivery, a command that is lost, a unique
  index, a row lock, a redelivered message, the order of the layers) and marked
  external in `PROJECT.json` where a definition stands for them alone.
* Formatting of mails and log lines, the latency histogram, and the
  Content-Security-Policy of the documentation pages.
