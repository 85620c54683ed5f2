# StockFind in TLA+

A verification project for StockFind, the catalogue-search and inventory service in
this repository (FastAPI, Postgres 16, psycopg 3). It models what the service promises
about stock, admission, access, search and availability under concurrency and failure,
model-checks it with TLC and proves the core of it with TLAPS for every value of the
parameters (workers, products, warehouses, units, threads, connections, limits).

## Inventory of the system

| Component | State it keeps | Operations | Hard behaviour | What makes it correct |
|---|---|---|---|---|
| Reservations (`inventory/reserve.py`, `schema.sql`) | `inventory` rows (`on_hand`, `reserved`), `reservations` rows, id sequence; row locks while a transaction is open | `reserve`, `release` | statements of concurrent transactions interleave; connections fail at any statement; the counter `reserved` is denormalised | no oversell, no drift, no deadlock, justified refusals, every call answered |
| Connection pool (`db.py`) | process-wide pool, at most `max_size` connections | `init_pool`, `get_pool`, `close_pool`, `reset_schema`, `fetch_one`, `fetch_all` | exhausted pool, waiting, timeout | connections come back on every path |
| Rate limiter (`security/ratelimit.py`) | one token bucket per client and route | `allow`, `rate_limited` | the clock is read before the lock is taken | burst and rate bound admissions; denials are earned |
| Seeding (`catalog/seed.py`) | the whole database | `seed_database`, CLI `main`, `seed_on_start` | schema reset and load are two transactions; requests run meanwhile | all-or-nothing catalogue, a reservation belongs to one generation |
| Availability (`inventory/availability.py`) | none | `get_availability` | two reads on two connections | totals, nearest warehouse and backorder flag agree |
| Gateway (`api/`, `envelope.py`, `errors.py`) | settings, metrics and limiters on `app.state` | routes, error handlers, middleware | order of limit, authentication, validation and handler; unregistered exceptions | one answer per request, handlers run only for authorised requests |
| Authentication (`security/auth.py`) | none (signed tokens) | `issue_token`, `get_principal`, `require_admin` | expiry | roles gate routes |
| Observability (`observability/`) | counters and histograms; request id in a context variable | middleware | raw paths as labels; exceptions through the middleware | one count per request |
| Search (`search/`) | none | `search`, facets | lexical and fuzzy candidates are merged, filtered and paged | pages partition the ranking; facets agree with the total |
| Relevance evaluation (`eval/`) | none | `run_relevance_eval`, precision, recall, reciprocal rank; `relevant_ids` | measures capped by few relevant products; labels tied to the generated catalogue | measures agree, the limit hides only what is beyond it, what is reported as a ceiling is one |
| Benchmarks (`bench/`) | the database it seeds anew | ATP scenarios, reservation lifecycle, oversell trials, latency, the suite that runs them | many threads on one row; a fault ends a bench half-way; SKUs written into the scripts | every check a bench records is true, and only faults end it |

Request handlers are plain `def` functions, so Starlette runs them on a thread pool;
everything above that is shared between requests is reached from many threads. The
components meet in three places: handlers share the connection pool, transactions share
row locks in Postgres, and the `rate_limited` dependency shares the limiters on
`app.state`.

## Modules

| Module | Models |
|---|---|
| `ReservationTable` | the `reservations` table as data: rows, which rows are active, how many units of a stock row they hold |
| `StockLedger` | the abstract specification: a ledger that grants stock nobody holds and takes each reservation back once; no counter, locks, connections or transactions |
| `CatalogLedger` | the abstract specification of the database while it is reseeded: the `StockLedger`, which moves only while the catalogue is loaded and loses every reservation with it |
| `Reservations` | `reserve()` and `release()`, statement by statement, in READ COMMITTED transactions on pooled connections |
| `InventoryBench` | the load of `bench/inventory_scenarios.py` and `tests/test_concurrency.py` on `Reservations`: a lifecycle of reservations, then trials of many threads on one row |
| `RateLimiter` | `TokenBucketLimiter.allow` and the dependency that calls it |
| `Gateway` | the HTTP pipeline: routing, dependencies, validation, handlers, middlewares; tokens and roles; the thread pool and the connection pool |
| `Availability` | `get_availability`, two reads beside a moving `CatalogLedger`, and what it computes from the rows |
| `Search` | `search()` and `facet_counts()` behind `GET /search`, and a client that pages and drills down |
| `Seeding` | `seed_database()`, by several processes, under `reserve()` and `release()`: table locks, the two transactions of a seeding, aborts; implements `CatalogLedger` |
| `Catalog` | the catalogue `generate_products()` generates: the families, and the order that numbers products |
| `LabeledQueries` | what `eval/` and `bench/` say about that catalogue: labels and SKUs |
| `Relevance` | `run_relevance_eval` over any answers of the search, with its three measures |
| `Evaluation` | `bench/run_all.py` on the shipped catalogue: relevance, ATP scenarios, latency |
| `MC*` | symmetry sets and structured constants for TLC; the `.cfg` files give the constants their values |
| `*_proofs` | theorems and TLAPS proofs about the module named; those about `InventoryBench` are the second part of `Reservations_proofs`, whose invariant they build on |

### Reservations: from code to state

`inventory` and `reservations` are committed rows. `stock_lock` and `reservation_lock`
are the row locks Postgres grants to `SELECT ... FOR UPDATE` and `UPDATE`; they are
released at the end of the transaction, committed or not. `call[w]` is what worker `w`
is doing: its program counter, its arguments and Python locals, and `pending`, the
value its transaction has written to `inventory.reserved` and nobody else can see yet.

Each action is one SQL statement with the Python that runs before the next one:

| Code | Actions |
|---|---|
| `quantity <= 0` (reserve.py:28) | `RejectQuantity` |
| `pool.connection()` (31, 81) | `Connect`, `PoolTimeout` |
| `_product_id` (18) | `FindProduct` |
| `SELECT ... FOR UPDATE`, ATP comparison (33-52) | `StockNotFound`, `LockStock` |
| `UPDATE inventory` (54) | `AddReserved` |
| `INSERT ... RETURNING id` (61) | `InsertReservation` |
| `SELECT reservation FOR UPDATE`, status (82-94) | `ReservationNotFound`, `LockReservation` |
| `UPDATE reservations`, `UPDATE inventory` (95, 99) | `MarkReleased`, `SubReserved` |
| `SELECT atp` (107) | `ReadAtp` |
| leaving the with-block | `Commit`, `Rollback`, `CommitAnswerLost` |
| psycopg `OperationalError` at any statement | `ConnectionLost` |

A request may name SKUs and warehouses that do not exist (`Skus`, `WarehouseCodes`
against `Products`, `Warehouses`) and ids that were never issued.

### RateLimiter: from code to state

`request[t]` is a thread between `time.monotonic()` (ratelimit.py:40) and the lock
(41); `Allow` is the critical section. Tokens are counted in units of 1/`Period`, so
that all amounts are integers; rounding of floats is left out. `log` is a history
variable: what was decided for each key, in the order of the lock.

### Gateway: from code to state

The gateway has three places where a request can be: on the event loop (routing, body
parsing, validation, middlewares), on a thread of Starlette's pool (each dependency and
each handler is a plain `def`), and on a database connection (taken while the thread is
kept). `request[r].stage` is where it is, `todo` the dependencies still to be resolved.

| Code | Actions |
|---|---|
| route match, method, JSON body (event loop) | `Arrive` |
| `rate_limited` (ratelimit.py:55) | `RateLimit` |
| `get_principal`, `require_admin` (auth.py:49, 77) | `GetPrincipal`, `RequireAdmin` |
| declared parameter bounds | `Validate` |
| the handler up to its first query | `Handle` |
| `pool.connection()` | `Connect`, `PoolTimeout` |
| the statements of one connection | `QuerySucceeds`, `QueryRefuses`, `QueryFails` |
| `PrometheusMiddleware`, in its `finally` | `Count` |
| `RequestContextMiddleware` and the socket | `Deliver` |

What the limiter decides is left open (`RateLimiter` has that), and so is whether a
transaction finds stock (`Reservations` has that). What a release does is not:
`reservations` is the status of each id a client may name, and `Commit` writes only if
the reservation is still active; one that was released before is answered 200 without
a write (reserve.py:94-105), an unknown one 404. The service may start with any of them
(`Init`), and with tokens that are good (`Holders`), since the database and the secret
outlive it. A request is sent once; a client that retries is another request. `charged`, `effects` and the `born` of a token are
history variables: who was charged, whose writes were committed, when a token was made.

### Availability: from code to state

`get_availability` is two SELECTs on two connections (`LookUp`, `ReadStock`), with
everything it computes as operators (`Sorted`, `Nearest`, `TotalAtp`). A sorted list is
*the* sequence of the warehouses that has them in order, and `Nearest` picks the first
place of it that `available[0]` or `max` would pick. Around it moves the
`CatalogLedger`, which `Seeding` implements, with `inventory.reserved` as the units held:
reservations, releases, and resets and loads of the whole catalogue, so that the second
SELECT may find the rows of another generation, or none. `moments` is the history of the product's stock
since the call began. Warehouses are numbered in the order of their codes; the
haversine distances are constants, and so is what a region is in capitals (`Upper`).

### Search: from code to state

What Postgres (`ts_rank`, `@@`) and rapidfuzz say of a product and a text is external:
`Init` chooses it for every product out of `Judgements`. The SELECT has no ORDER BY, so
every search chooses the order its rows come in. Scores are exact integers, scaled by
`100 * MaxRank`. A client walks through the pages (`Ask`, `NextPage`) and clicks facet
values (`DrillDown`); `seen` and `promised` are history variables: the results of the
walk so far, and the count that was clicked. The ranking is *the* sequence of the matches
in which each comes before the next. The order in which facet values are listed
is left out. A drill-down may show the same products in another order, since ranks are
normalised by the maximum of the rows fetched; nothing in the code promises otherwise.

### Seeding: from code to state

`seed_database` is two transactions: `reset_schema` drops and recreates every table and
commits (`Reset`, db.py:54-59), then one connection loads the catalogue and commits
(`Load`, `LoadRest`, seed.py:303-334). The content of the catalogue is the constant
`OnHand`; what a query can tell of it is `loaded`. Against it run the statements of
`reserve` (`FindProduct`, `LockStock`, `InsertReservation`) and of `release`
(`FindReservation`, `GiveBack`), coarser than in `Reservations`: writes that only the
transaction's own commit publishes are one action with it.

What the component is about is locks on tables. A statement locks the tables it uses
until its transaction ends (`Needs`, `LockTable`, one table at a time); those of SELECT,
INSERT and UPDATE share a table, DROP has it alone and takes with it the tables that
foreign keys refer to, in an order the code does not fix (`DropOrders`). The transaction
of `reserve()` locks `products` first and `reservations` and `warehouses` (a foreign key)
last; a reset that has one of these two and waits for `products` then waits in a cycle,
and Postgres aborts one of the two transactions. `Fail` is that abort, as well
as a lost connection and a dead process; the transaction is rolled back, and a seeding
that failed is not repeated (a service that dies at its start is started by whoever runs
it, as another seeder). A reseed restarts the ids, so a client may release a reservation
of a later generation by an id it kept; the model contains that. What this looks like
from outside is `CatalogLedger`: `on_hand` is mapped to `OnHand`, `reservations` and
`loaded` to themselves, and of all steps only the commits show. The two reads of
`get_availability` run beside that ledger, in `Availability`.

### InventoryBench: from code to state

`InventoryBench` adds the benches' main thread to `Reservations`, whose workers are the
threads of its executor; it changes nothing about how a call runs. `stage` is what the
main thread is in the middle of, `checks` the booleans it appends to its result
(`all_correct`, `all_ok`), `receipts` the ids the lifecycle holds.

| Code | Actions |
|---|---|
| `ensure_seeded`, before and after a bench | `EnsureSeeded` |
| `_set_stock` (inventory_scenarios.py:23) | `SetStock`, within the two below |
| `run_reservation_lifecycle` | `BeginLifecycle`, `LifecycleCall`, `LifecycleStep`, `EndLifecycle` |
| `run_oversell_trials` | `BeginTrial`, `Attempt`, `AttemptStep`, `Measure` |
| an exception other than `InsufficientStockError` | `BenchFault`, then `Abort` |

A fault is what `Reservations` calls one (a lost connection, the pool's timeout). It
raises in the lifecycle, or in `future.result()` of a trial, and ends the bench with
rows that were set up and reservations that are not released; the next bench starts on
a fresh seeding, which is why its checks still hold. The statements that the main thread
runs itself, between the calls (`_set_stock`, `_wh_atp`, the seeding), succeed in
the model: a fault of one of them is left out.

### Relevance, LabeledQueries, Catalog and Evaluation: from code to state

`Catalog` is data and one loop: `SUBTYPE_SPECS` and `IterAttrCombos` are seed.py's, and
a product's id is its place in `GeneratedProducts`, on which the labels of
`eval/labeled_queries.py` and the part numbers in the benches depend. Names,
descriptions, prices and random stock levels are left out. `Relevance` is the loop over
labels (`Evaluate`, `Advance`): a search may give any answer that lists no product
twice, and a row holds precision, recall and reciprocal rank as fractions of integers.
`k_values` and `max_k` are whatever the label file and the caller give, k = 0, labels
that match nothing and a `max_k` below a k included; a recall with denominator 0 is the
`ZeroDivisionError` that ends the loop. The means over rows and their rounding are left
out. `Evaluation` runs the loop inside the suite, without `max_k` as `run_all.py` calls
it, or alone, with any; the labels are the shipped ones. The suite goes on with the benches that name SKUs: one
`AtpScenario` per SKU, one `LatencyRequest` per timed request.

Definitions whose comment begins with "Mutant" are bugs the code does not have. Each
property is known to fail when one of them takes the place of the definition that
follows it, which is how the project knows that the property can fail.

## What the runs check

| Run | Question | Bounds |
|---|---|---|
| `reservations_contention` | type invariant; `ReservedIsHeld`, `NeverOversold`, `BackstopIdle`, `LocksAreOwned`, `NoDeadlock`; `ReportedAtpIsCommitted`, `RefusedOnlyWhenHeld`; refinement of `StockLedger` | 3 workers, 2 connections, one row of 2 units, an unknown SKU and an unknown warehouse, quantities 0 to 2, 2 ids |
| `reservations_progress` | every started call is answered (`EveryCallReturns`) | 3 workers, 2 connections, 1 unit, 1 id |
| `inventory_bench` | `SoldExactly`, `EveryCheckPasses`, `OnlyFaultsAbort`; `ReservedIsHeld` over two SKUs in two warehouses | 4 threads, 3 connections; lots of 2 and 1 out of 3 units; trials of 3 units by 1, 5 by 2, 1 by 2 |
| `rate_limiter` | `AdmissionBound`, `DenialsAreEarned`, `RetryAfterTokenTime` | 3 threads, 1 key, 3 per 4 ticks, 4 ticks, 6 requests |
| `rate_limiter_stale` | violated: "when a caller drains it" | the same, 3 per 2 ticks |
| `gateway` | `OnlyTheEntitled`, `EveryAttemptIsCharged`, `EffectsMatchStatus`, `CountsMatchAnswers`, `TokensLiveTheirTime` | 2 requests, 7 targets, 2 threads, 1 connection, 2 ticks a second, tokens of 1 s, 3 ticks; a buyer's token at the start, and one reservation of any status |
| `gateway_progress` | every request is answered | 3 requests for `/health`, `/ready`, `/availability`; 2 threads, 1 connection |
| `gateway_envelope` | violated: one envelope for every failure | 2 requests |
| `availability` | `AnswerIsOneMoment`, `NearestIsBest`, `BackorderMeansNothingLeft` | 3 warehouses, levels 0 to 2, 2 reservations, resets and loads, known and unknown SKUs and regions; a call sees at most 4 moments (`MaxMoments`) |
| `search` | `PagesFollowRanking`, `FacetsTellDrillDown` | 3 products, 2 categories, 4 judgements, pages of 1 or 2 |
| `evaluation` | `OnlyTheCapIsMissing`, `RankAndPrecisionAgree`, `OnlyTheLimitHides`; `BenchSkusExist`, `ReportedIsTheCeiling` | the whole catalogue, 16 labels and 10 misspellings of them, one more that matches nothing; answers of up to 12 hits and misses in any order; k of 1, 5, 10 or 0, 5; no `max_k` or 3; 30 timed requests and 7 of warm-up |
| `seeding` | `BooksBalance`, `StockIsFound`, `SeededIsFresh`; refinement of `CatalogLedger` | 2 workers, 2 seedings, one row of 2 units, quantities 1 and 2, 2 ids |

Why the bounds are enough. Three workers and two connections are the least with which a
worker waits for the pool while the two that hold connections contend for a row; two
units and quantities up to two give exact fits, refusals and two active reservations of
one row, the least with which a double release shows in the counter. Two ids let the
sequence run out, so the failing INSERT is reached as well. In the bench, four threads
after three lots, five units in lots of two and one unit for a lot of two are a refusal,
a remainder and a shelf of less than a lot; its rows are the ones among which a write to
the wrong SKU or warehouse would show. The evaluation runs on the catalogue and labels
as they are; an answer of twelve is longer than the ten results a measure looks at, k = 0 is the
one at which the measures part, and a `max_k` of three lies below two of the k values. In
the limiter, three requests in flight, a burst of three and a refill of less than a
token a tick give every order of stale and fresh times around the cap, zero and below, at
a limit where the wait for a token is longer than a tick; the stale run refills one and a
half a tick. In the gateway, a token from before or one that the other request makes is
presented before, at and after its expiry (a token of one second, three half-second
ticks), at a role that may or may not do; two releases of one reservation, or one of a
reservation that is unused, active or released, meet in every order and with a failure on
either side of the commit; the statuses of all dependencies and of every kind of route
occur. For progress, two
handlers that keep both threads while they share one connection are the least with which
a probe waits. Three warehouses allow a tie, a sold-out nearest one and a third; two
reservations that come and go give a piecemeal reader moments to mix, and four moments
a whole reseed with a reservation on either side of it. Three products on
pages of one or two give a full, a partial and an empty page, equal scores in every
fetch order, and products that only one of the two judges likes. Two seedings are the
least with which one loads after another has loaded and requests have reserved, which is
how a late load could wipe out a reservation; two workers, units and ids the least with
which one release races another, or a reserve, for a row. The theorems remove the bounds
of the safety properties they state.

`CHECK_DEADLOCK FALSE` is used where the model really stops: the limiter's clock and log
are bounded (`MaxTime`, `MaxLog`), every request of the gateway is sent once, a client
that has turned the last page has nothing left to do, and the benchmark suite ends with
its summary.

### Fairness

`EveryCallReturns` assumes strong fairness of each worker's steps. A thread that can
run does; a thread that waits for the pool or for a row lock is in a first-in first-out
queue (psycopg_pool's waiting list, Postgres' lock queue), so when what it waits for is
free again and again it gets it. No request has to arrive, no fault has to occur, and
the pool's timeout is never relied on.

`EveryRequestAnswered` assumes strong fairness of each request's own steps (`Advance`):
the event loop, the thread pool and the connection pool serve their queues in order, and
a statement ends. No request has to arrive, time need not pass, and the pool's timeout
is not relied on.

### What the limiter run found

ratelimit.py:3-4 says that further requests get 429 "when a caller drains" the bucket.
The run `rate_limiter_stale` shows a key being denied before it has used its burst: a
thread reads the time, another thread with a later reading creates or refills the
bucket, and then the first one computes a negative `elapsed`, which takes tokens out.
Of a burst of N simultaneous requests the last may be denied from a fresh bucket of N.
What does hold is `DenialsAreEarned`: a request that no later one overtook is denied
only for what its key used up. And nothing is gained by racing: `AdmissionBound`.

### What the gateway runs found

- app.py:4-5 promises "a single consistent error envelope for every failure mode".
  Handlers are registered for validation, domain and HTTP errors (app.py:69-91). A
  `PoolTimeout` or `OperationalError` out of a handler is none of these: Starlette
  answers 500 in plain text (`gateway_envelope`), and since `dispatch` re-raises before
  it sets the header (logging.py:62, 69) without the X-Request-ID either.

Two cases the model contains and no property forbids. `/ready` asks through the shared
pool, so it answers 503 when requests hold all connections, without having asked the
database. And a request that matches no route is counted under its raw path
(`PathLabel`, metrics.py:52), although metrics.py:4-5 labels by "route template (not raw
path, to bound cardinality)".

## What is proved

All theorems hold for every value of the constants that satisfies the named
assumptions (`TableAssumption`, `ReservationsAssumption`, `InventoryBenchAssumption`,
`RateLimiterAssumption`, `GatewayAssumption`, `SearchAssumption`, `SeedingAssumption`,
`AvailabilityAssumption`, `RelevanceAssumption`, `EvaluationAssumption`).

`Reservations_proofs` proves the invariants and action properties of
`reservations_contention` and the refinement. The inductive invariant `IInv` is

- `TypeOK`;
- `WorkerOK`: from the step a worker is at, which arguments are valid
  (`ArgumentsOK`), which locks it holds (`StockLockOK`, `ReservationLockOK`) and what
  its uncommitted write is relative to the committed row (`DraftOK`): a worker with a
  pending write holds the row's lock and its `pending` is the committed counter plus or
  minus its quantity, which is why concurrent commits cannot lose an update;
- `IdsFresh`: ids from `next_id` on are unused, and two uncommitted inserts have
  different ids;
- `CountsOK`: `reserved` is what the active reservations hold, within `on_hand`;
- `BackstopIdle`.

Neither of the last two is inductive without `DraftOK`, and `DraftOK` rests on the
locks. Deadlock freedom follows from the order of waits: a worker waiting for the
pool waits for workers that have a connection, one waiting for a reservation's lock
waits for a worker that waits at most for a stock lock, and the holder of a stock lock
waits for nobody. The refinement maps `on_hand` to the column and `reservations` to the
committed table; only the commits of calls that wrote are steps of the ledger.

The second part of `Reservations_proofs` proves the properties of `inventory_bench`, for
any number of threads, any lots that fit together and any trials on rows of their own.
`InventoryBenchAssumption` says just that of the constants, and that no trial has more
lots than threads; the theorems about `Reservations` do not use it. `IInv` holds in the
bench as well, because `_set_stock` zeroes a counter only where no reservation is active
(`SetStockKeeps`, hence `CounterSurvivesSetStock`). `BenchIInv` adds what each phase has
done to the tables:

- in the lifecycle (`LifecycleOK`), until a call raises: one call runs at a time, the
  counter holds the lots taken and not given back, and every receipt stands for a
  reservation of its own that is active exactly until its turn (`LifecycleBooksOK`).
  Hence no statement finds too little stock or a reservation that is already released
  (`LifecycleStatement`), and the ATP read and answered after a call is what the checks
  expect (`LifecycleReserved`, `LifecycleReleased`);
- in a trial (`RaceOK`), until a call raises: the row holds one lot per winner, and
  whoever was refused wanted more than is left, which stays so because stock does not
  come back during a trial (`RefusedRemain`);
- between them: nothing is reserved but on the rows of trials that have begun
  (`OnTrialRows`).

When all threads have returned, the winners' lots fit, and one more does not if somebody
was refused: as many won as `on_hand div qty` (`MeasureKeeps`); if nobody was refused,
all have won, and there are no more lots than threads. The lots of the lifecycle are
added up by counting units as the members of a set (`LotUnits`), as `Held` is.

`ReservationTable_proofs` has the counting lemmas: what an insert and a release do to
`Held`. Units are counted as the members of a finite set, so sums need no recursion.

`RateLimiter_proofs` proves the properties of `rate_limiter` for every limit and any
number of threads. The argument is a potential: a bucket's tokens carried back
to time 0 at the refill rate. A request never raises it, however stale its time; an
admission lowers it by a token; after a request it is never below that of an empty
bucket at the present time (`PotentialAbove`, `PotentialBelow`). `DenialsAreEarned`
follows from where the potential comes from (`Origin`): it is that of a full bucket at
some earlier request less the admissions since, because a request either fills the
bucket up, and is the new origin, or spends what it is admitted with. `RetryAfterTokenTime`
follows from the lower bound of the potential: after the time a token takes, measured from
now, the bucket has one, at every limit. At a token a second or more that time is the
second that the header `Retry-After: 1` names; at a slower limit it is longer, so the
header promises too little time, which the property states as the wait that is enough.

`Gateway_proofs` proves the safety properties of `gateway`. The invariant says of
every request which of its route's dependencies are still to come, as a suffix of the
route's plan, and what those that have passed established: a limiter that passed has
charged, a principal that passed held a token of the service that was good when the
request arrived, an administrator had the role. A refusal has no effects because
effects come with the end of the last query only, after which a request is answered.
For `EffectsMatchStatus` the invariant also says (`GivenOnce`) that a release that wrote has its
reservation released, and that no two wrote about one reservation: a release writes only
what is active, and nothing is active again. `CountsMatchAnswers` is a counting argument: one request more has a label, one more is
counted. `TokensLiveTheirTime` is the arithmetic of whole seconds: `exp` lies between
`born + Ttl - 1` and `born + Ttl` seconds.

`Search_proofs` proves the properties of `search`. `FacetsTellDrillDown`: whether a
product is a candidate does not depend on the rows it is fetched with, only its score
does, so narrowing by a value finds exactly the matches that have it.
`PagesFollowRanking`: part numbers decide every tie, so the order of the fetch decides
nothing (`FetchDecidesNothing`) and the searches of one walk cut their pages out of one
ranking (`RankingStays`, `PagesJoin`). That there is a ranking is a lemma about finite
sets (`SortExists`): under a strict total order an element's place is one more than the
number of those before it, which hits every place once.

`Availability_proofs` proves `AnswerIsOneMoment`, `NearestIsBest` and
`BackorderMeansNothingLeft`, over a ledger that moves as `CatalogLedger` allows, reseeds
included: an answer lists every warehouse or, when the catalogue is gone, none. That the
list can be sorted is again `SortExists` (`SortedIs`), and so is that some warehouse of
those with stock has the most (`MostExists`); the first place in the list then decides
(`NearestWins`). The flag looks at a total; that a total of 0
means nothing anywhere needs every term to be 0 or more, which is the ledger's
`Held <= on_hand`, and needs to know what the library's fold adds up. The fold is a
function on finite sets that is recursive: that it exists and what it yields is shown by
taking a least set for which it would not (`SumExists`, `SumIsZero`).

`Evaluation_proofs` proves the three relations between the reported measures for every
label, empty ones included, every `k_values`, every `max_k` and every answer without
repetitions: hits among the first k are counted alike by precision and by recall
because no product is listed twice, and the first relevant place is a least one. With a
`max_k` below a k, the two measures lose the relevant results in between and nothing else
(`LimitHidesNoMore`); only k = 0 makes a recall that divides by zero. The
suite implements the loop (`SuiteEvaluates`), so its report has them too
(`SuiteMeasures`). `SuiteIInv` says how many rows and requests each stage has counted:
`checked` is five for each SKU that is done, of which there are eight, and `timed` stays 0
through the warm-up; hence `SummaryIsWhole`, the part of `ReportedIsTheCeiling` that is
about the benches.

`BenchesFindTheirSkus` is about one catalogue, and its 839 products are numbered by
library operators that recurse: `FlattenSeq` over the families and a fold over the
attributes of each. Both are recursive functions, of which a module knows only that they
are chosen to satisfy their equation, if any function does. That one does is shown by
taking a least argument on which the equation could not be met (`FlattenIs`,
`CombosExist`), as for the sum in `Availability_proofs`. Then the number of products of
each family follows from the lengths of its lists (`ShapesAre`, `LengthsAre`), and the
catalogue is numbered from 1 to 839 without a gap (`CatalogIsNumbered`, the number
README.md:106 and RESULTS.md:81 report), so the numbers in the benches' SKUs are known.

`Seeding_proofs` proves the safety properties of `seeding`. The invariant has the locks
(`LocksOK`: they end with the transaction, an exclusive one has its table alone, and a
statement that runs has locked what it wants) and what each process knows while it holds
them: a worker that found its product has `products` locked, so the catalogue stays
loaded (`WorkerOK`); a seeding that found no warehouses has `warehouses` locked, so it
stays unloaded (`SeederOK`). A reset that runs has all tables, so nobody else has any
(`ResetIsAlone`). `BooksBalance` alone is not inductive: without the locks a reservation
could be inserted after the reset of the stock it was made of.

The same invariant carries the refinement of `CatalogLedger`. A reservation that is
inserted fits (`GrantIsLedgerStep`): the counter is what is held, the row's lock keeps it
so since `LockStock` compared it, and `products` locked keeps the catalogue loaded. A
release takes back the reservation it found, which nobody else can have changed
(`GiveBackIsLedgerStep`). A reset empties the table and a load finds it empty
(`SeedingIsLedgerStep`); waiting for locks, aborts and crashes are stutters. `TypeOK` of
`Seeding` is a theorem and is not repeated in the run.

Model-checked only: `EveryCallReturns` and `EveryRequestAnswered` (liveness is out of
the prover's reach), and of `ReportedIsTheCeiling` the part about ceilings and sizes:
they are numbers of products of the one catalogue that have certain attributes, which TLC
counts and a proof would have to enumerate. All other properties of the passing runs are
theorems.

## Not modelled, and plan

Not modelled, in the order in which it would be worth doing:

1. The one SELECT of `search` while the database is reseeded: it finds the catalogue
   whole or empty, and two pages of one walk may come from two sides of a reseed, which
   nothing in the code promises to join.
2. Liveness of `Seeding`: that a cycle of lock waits ends in one abort and everybody else
   goes on. It needs the deadlock detector as an action of its own, apart from `Fail`.
3. The start-up and shutdown of the service (`lifespan`, `init_pool`, `close_pool`): each
   runs once, before the first request and after the last one.

Left out for good: the text ranking of Postgres and rapidfuzz and the haversine
arithmetic (external or floating point); configuration (a record that is read once);
`bench/security_checks.py` (single requests, one after the other, whose answers `Gateway`
and `RateLimiter` are about); the timing and percentiles of `bench/latency.py` and the
text of its reports; means and rounding of the evaluation; names, prices and random
stock levels of the generator; faults of the statements the bench's main thread runs itself, which end a bench as the
modelled ones do. Inside `Reservations` the client's retry after a lost
answer is not a promise of the code (requests carry no idempotency key);
`CommitAnswerLost` keeps the case in the model.
