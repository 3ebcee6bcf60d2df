# A TLA+ verification of the gRPC microservices

The repository is two Go services, `user-service` and `order-service`, each on
its own PostgreSQL database, the order service with a Redis cache, behind an
Envoy gateway. Database credentials can come from Vault. The modules here model
the parts in which concurrency, failure and ordering decide whether the
services are correct; TLC checks them on small instances and TLAPS proves every
safety property that holds on them for instances of any size.

Paths below are relative to the repository.

## The system

| Part | State | Operations | Interacts with |
|---|---|---|---|
| Order handlers, repository, cache (`services/order-service/{server,repository,cache,client}.go`) | rows in `orders`, `order_items`; Redis entries `order:<id>` with a 5 min TTL | CreateOrder, GetOrder, ListOrders, CancelOrder | user service by RPC; PostgreSQL through the pool; Redis |
| User handlers, repository (`services/user-service/{server,repository}.go`) | rows in `users`, `email` unique | CreateUser, GetUser, UpdateUser (field mask), DeleteUser | PostgreSQL; called by the order service |
| Service process (`main.go` of both, `internal/shutdown`, `internal/vault`) | the repository's pool pointer and its RWMutex, pools, health status | credential refresh and pool rotation, database monitor, graceful shutdown | handlers, Vault, the orchestrator's probes |
| Migrations (`db/migrations/embed.go`) | `schema_migrations`, the schema | `Up`, by every replica at start | PostgreSQL; other replicas |
| Start and end of a process (`main.go`, `config.go` of both, `internal/{tls,otel,shutdown}`) | what main has opened, the goroutines it started | configuration, the steps up to Serve, the callbacks of the shutdown | the environment's variables and files, Vault, Redis, signals |
| Vault client (`internal/vault/client.go`) | the leases of the credentials in use, the token | fetch at start, refresh at half the lease, retry | Vault; the pool |
| Gateway (`envoy/envoy.yaml`, `envoy/ext_authz`) | the calls it waits for | key check, rate limit, routing, timeout, retries | both services |
| Load test (`scripts/loadtest`) | result channel, statistics | virtual users, collector, report | both services |
| Logging, generated code, deployment files | none of their own | | |

What is hard in it, and what should hold:

- **The cache.** Cache-aside with delete-after-update. Readers fill the cache
  with what they read some time ago; the delete can fail, be skipped by an
  error or lost with the process; nothing else repairs it than the TTL. What
  Redis holds must be some committed state of the order, staleness must have a
  known cause and must end.
- **Answers against the database.** Lost answers of COMMIT and UPDATE, items
  read on another connection than the row, `rows.Err` never looked at: an OK
  answer must be true and complete.
- **Two databases.** The user check is an RPC before the transaction.
- **Pages.** COUNT and SELECT are two snapshots, offsets move while orders are
  committed, timestamps can tie, and int32 products wrap. A client that follows
  `has_more` must see every order, and a page past the end must be empty.
- **Retries.** The gateway sends a call again after a reset although the first
  delivery may have been executed, or may be later. A refusal must be true, one
  CreateUser must make one user, and an acknowledged update must not be undone.
- **Rotation.** `SetPool` closes the old pool, which waits for its connections,
  while it holds the write lock; handlers take the pool pointer and use it
  later; the monitor and the shutdown keep the first pool.
- **Leases.** The refresher's sleeps and retries race the expiry of the
  credentials in use.
- **Start and shutdown.** A dozen steps that may be fatal, goroutines that start
  late, a signal at any moment, certificate files replaced while they are read;
  callbacks in sequence, which know of the first pool only; draining has no
  timeout.
- **Migrations.** Replicas migrate at the same time, check-then-act; a crash is
  followed by a start under another database user when Vault is used.
- **The load test's report**, which reads statistics a goroutine still adds to.

`PROJECT.json` lists every such hazard at its line with the properties that
cover it.

## Modules

| Module | What it is |
|---|---|
| `OrderStore` | abstract specification: what the order API promises |
| `OrderService` | CreateOrder, GetOrder, CancelOrder call by call, with database, cache, user check and faults |
| `MCOrderService` | symmetry for TLC |
| `OrderServiceProofs` | invariants of `OrderService`; `OrderService` implements `OrderStore` |
| `OrderListing`, `MCOrderListing`, `OrderListingProofs` | ListOrders and a client that walks over the pages |
| `ServiceRuntime`, `MCServiceRuntime`, `ServiceRuntimeProofs` | goroutines of one process: handlers, refresher, monitor, shutdown |
| `Migrations`, `MCMigrations`, `MigrationsProofs` | `migrations.Up` by several replicas |
| `UserService` | the four user handlers and their table, executed for deliveries of calls |
| `Gateway`, `MCGateway`, `GatewayProofs` | extends `UserService` with clients, the gateway and CreateOrder's use of the user table |
| `Startup`, `MCStartup`, `StartupProofs` | `main` of both services, from configuration to the last callback |
| `VaultLease`, `VaultLeaseProofs` | the refresher of `ServiceRuntime` against the clock |
| `LoadTest`, `LoadTestProofs` | virtual users, channel, collector and report |

Definitions called `Name_Something` are mutants: a plausible bug in the code
that `Name` models, under which the property named for it in `PROJECT.json`
fails.

### OrderService

A handler is a goroutine of some replica; all replicas share `db` and `cache`.
One action is one call to a dependency, so every interleaving of calls is a
behaviour. `pc[h]` is the call the handler makes next, `call[h]` its request,
`order[h]` what its open transaction has written or what it has read, `resp[h]`
its answer.

| Code | Actions |
|---|---|
| `CreateOrder` validation, early returns of the others | `InvalidRequest` |
| `client.GetUser` and the check of its result | `CreateOrder`, `UserFound`, `UserMissing` |
| `repository.Create` | `BeginTx`, `InsertOrder`, `InsertItem` (once per item), `CommitTx`, `CommitLost` |
| `repository.Get`, `cache.Get`, `getFromDB`, `getItems`, `cache.Set` | `GetOrder`, `CacheHit`, `CacheMiss`, `SelectRow`, `NoRows`, `SelectItems`, `CacheSet` |
| `repository.Cancel`, `cache.Invalidate`, the read back | `CancelOrder`, `UpdateStatus`, `UpdateLost`, `NoRows`, `Invalidate`, `SelectRow`, `CancelDone` |
| any other error | `ErrorReturn` |
| TTL; death of the process | `Expire`; `Crash` |

An order is its user, status and number of item rows; amounts, names and
timestamps are left out. Of the statuses of `parseOrderStatus` only PENDING and
CANCELLED occur, because no code writes another. `Faults` says what can fail:
`db` (an error, a timeout, a cancelled context, a lost answer, a connection lost
while rows are read), `redis`, `rpc`, `crash`. `users` are the user service's
rows as `GetUser` sees them. `everUsers`, `issued`, `acked`, `excused` and
`call[h].after` are history variables for the properties and no guard of the
code's actions reads them, except that `issued` also keeps uuids fresh.

### OrderListing

`Page`, `AskedSize` and `HasMore` are the handler's, `PageSize` and `Offset` the
repository's; they are separate because the handler does not know of the clamp.
`Count` and `Select` are the two queries. `First(n, rows)` are the sets that may
be the first n rows in ORDER BY created_at DESC, with ties in any order: OFFSET
skips one, LIMIT returns one of the rest. `Commit` is an order committed by
another handler; its created_at is the start of its transaction, so it may sort
below orders committed earlier. `Wrap` is int32 arithmetic, with
`Half` for 2^31.

### ServiceRuntime

A handler is what it waits for: `CreateOrder` for the user service's GetUser, which
has no deadline of its own (`GetUserReturns`), then every handler for its database
accesses (Create one, Get and List two, Cancel three): `getPool`, acquire, query,
release. `SetPool` takes the lock,
swaps the pointer and starts to close the old pool, `CloseReturns` happens when
the last connection is back and only then unlocks. `Ping` is a tick of the
monitor on pool 0. `Signal`, `GracefulStop`, `ClosePool`, `Exit` are
`shutdown.Graceful` with the callbacks that touch this state; the callbacks
for OpenTelemetry, metrics and Redis are left out. pgxpool (external) is
modelled by how the code uses it: acquiring from a closed pool fails at once,
Close waits for acquired connections, a second Close does nothing.

### Migrations

One action per statement of `Up`. PostgreSQL (external): the DDL of a file
keeps another transaction from running the same file until the first one ends
(`Blocked`); a file whose objects exist fails because its CREATE INDEX has no
IF NOT EXISTS, except the repeatable 000004; the primary key refuses a second
row. `vault`, chosen at the start for all replicas, is whether credentials come
from Vault. With it each start is a new user that owns what it creates and is
granted the tables existing at its creation (`scripts/init-vault.sh`), which
includes neither REFERENCES nor ALTER.

### UserService and Gateway

A call of a client is delivered up to `Deliveries` times; job `<<c, n>>` is the
handler that executes delivery n. `Receive` is the generated method handler, which
decodes the request and calls the service through the interceptors. Each handler
makes at most one SQL statement, so a job is received and then returns in one of
`Reject`, `Insert`, `InsertConflict`, `UpdateRow`, `UpdateConflict`,
`SelectUser`, `DeleteRow`, `NoRow`, `DbError`; a statement that was applied may
still be answered Internal. UpdateUser's mask decides which columns `Masked`
changes. A stored name is the call that supplied it, so the table says who wrote
it. `made`, `holders`, `vacated` and `before` are history.

| Gateway (`envoy.yaml`, `ext_authz/main.go`) | Actions |
|---|---|
| API key check, ext_authz unreachable, a body past its 1024 bytes, rate limit | `Deny` |
| route to the service, first delivery | `Send` |
| retry on reset, connect-failure, unavailable | `Retry` |
| retries or the cluster's budget used up; the route's 10 s timeout | `GiveUp`, `Timeout` |
| the answer of the delivery it waits for | `Forward` |
| CreateOrder in the order service | `CheckUser`, `CommitOrder` |

A retry or a timeout does not stop the delivery it replaces: its job stays and may
take its step at any later time.

### Startup

`env` is what decides how a start goes and is chosen once: which service, the
Vault settings, the pool's size and health-check period, Redis. `files` are the
certificate files, which `ReplaceFiles` may rewrite until main has read them for
the last time; the order service reads them twice, for its client (`NewUserClient`)
and for its server (`LoadServerConfig`), and `caRead` remembers what each found.
`pc` is main's next step, one action for each call that can fail; `held` is what
the process has open. `Fatal` is `logger.Fatal`, which exits without deferred
calls. `Serve` and `ServeMetrics` are goroutines, so they may run before or after a
signal and the callbacks. `RotatePool` is a turn of the refresher: it closes the
repository's pool and installs another (`repoPool`), which neither the callback nor
the deferred `pool.Close` knows. `Int32` is the conversion of a parsed int, with
`Half` for 2^31. pgxpool (external) refuses a size below 1, and its health-check
goroutine panics on a period that is not positive. The two mains differ in Redis,
the user client and their callbacks; the rest is the same code.

### VaultLease

Every lease, timer and wait counts down, every elapsed time up, so no clock is
needed. `Issue`, `FetchFails` and `NewPoolFails` are Vault's answer and the
callback; `SetPool` starts the wait for the old pool's connections that
`SetPoolReturns` ends; `Wake` ends the sleep. `Tick` is possible only while `timer`
is positive: calls return within `FetchTime` and `SwapTime`, sleeps end on time.
The Vault token has a life of its own and nothing renews it.

### LoadTest

A VU makes a call (`CallAnswered`), puts its result into the channel
(`SendResult`, blocked while it is full) and stops when the time is up. The
collector adds a result first to the total, then to its operation, each in the
three separate writes of `add`. main waits for the VUs only, and `LoadCount`,
`CopyDurations`, `LoadErrs` are the reads of the report, atomic or under the
mutex, while the collector may still be adding. The five loads of the last line are
plain: nothing orders them, so `ReadLine` lets each find any value from the one
`report` loaded to the present one (`Loadable`). A division by zero durations is
`panic`. `Pending` counts the results of a statistic that are with a VU, in the
channel or in the collector's hands.

## Runs

`cd tla && tlc -config X.cfg M` with the names from `PROJECT.json`.

| Run | Instance | Result |
|---|---|---|
| `order_faults` | 2 handlers, 1 order of 1-2 items, 1 user, all faults, fairness | `CacheSound`, `StaleExcused`, `ReadYourCancel`, `OrderUserExisted`, `StoredComplete` hold; `OrderStore` is implemented; the cache converges |
| `order_stale_read` | 2 handlers, no fault | **violated**: a GetOrder after the cancellation answers PENDING |
| `order_items_lost` | 2 handlers, 1-2 items, `db` faults | **violated**: items are missing from an OK answer |
| `listing_walk` | 3 orders, 2 users, sizes 0 and 2-4 (default 1, maximum 3), pages 0, 2 and 12, 5-bit integers, all interference | `HasMoreInRange`, `WalkExact`, `PastEndEmpty` hold |
| `runtime_rotation` | 2 handlers, 1 connection, 2 rotations, outages, streams, a user service that may hang, fairness | exactly the current pool is open (`OpenPools`); rotations end, shutdowns too unless a stream or a GetUser never does; the monitor recovers while its pool is in use |
| `runtime_health_vault` | Vault, 1 rotation | **violated**: NOT_SERVING for good with the database up |
| `migrations` | 3 replicas, 4 files, 2 crashes, with and without Vault, fairness | each file once and all before serving; `Up` completes unless the owner is lost |
| `gateway_retries` | 2 calls of any kind, 2 deliveries each, 2 ids, 2 emails, empty table or one user | conflicts, duplicates, late writes and answers have their named causes only |
| `startup_ends` | both services, every environment, files replaced at any moment of the start, rotations, pool sizes around 0 and around the wrap | resources outlive RPCs, plaintext and ends have their named causes |
| `startup_mtls` | the same | **violated**: a server without TLS |
| `vault_lease` | leases 4 (no room), 12 and 21 (room), floor and retry 3 | `ExpiryHasCause`, `OutageRecovers` hold |
| `loadtest_races` | 2 VUs, 2 operations, 3 calls, channel of 1, fairness | nothing is lost; when the report panics; how far the last line can be from adding up; the test ends |

The violated properties quote what the repository says of itself; the findings
in `PROJECT.json` give the lines.

Each property that holds under exceptions names all the causes of the wrong
behaviour there are. Some of those causes contradict a line of the repository
and have no violation run of their own:

- `has_more` is wrong for a size past the maximum, because the repository clamps
  to the default and the handler does not know; `proto/common/v1/common.proto:19`
  says "Whether there are more pages" (`HasMoreInRange`; `HasMoreTruthful` without
  the exceptions fails).
- The offset wraps at int32, so that a page far past the end may have orders
  (`PastEndEmpty`).
- A client's stream, or a CreateOrder whose GetUser is never answered, keeps the
  process alive: `GracefulStop` ignores the context with the timeout that
  `shutdown.go` gives its callbacks, and GetUser has no deadline (`ShutdownEnds`
  assumes that streams end and that GetUser returns).
- With Vault the pool in use at the shutdown is closed by nobody: callback and
  deferred call close main's first pool (`EndCause`).
- With Vault a replica that dies between two files leaves tables that no later
  user may alter; `Up` then never completes (`UpCompletesUnlessOrphaned`).
- A retried CreateOrder leaves two orders for one call, a retried CreateUser may be
  answered AlreadyExists for the caller's own user (`AnswersTrue`,
  `ConflictExplained`).
- The load test's report may lack results or divide by zero, and its last line need
  not add up (`NothingLost`, `PanicCause`, `LineConsistent`).

**Bounds.** One order is enough for the cache properties, since no action relates
two orders; two would only multiply the states, and the proofs cover any
number. A handler that has answered takes a new request, so that two give a
canceller, a stale reader and a later reader in turn. Two items distinguish a
prefix from the whole. In listings the pages are small against the number of
orders, so that a walk takes several, and the integers narrow enough for page 12
of size 3 to wrap to offset 1. One connection for two handlers makes every wait
for a connection happen, two rotations distinguish the first pool, which the
monitor keeps, from a later one. Envoy makes up to three retries; two deliveries
already give a duplicate, a late execution and a lost answer, and the call that
is answered before another one begins. `Half` is 8 and the sizes asked for go past
it on both sides, once round to a size that is refused and once to one that is not. In `VaultLease` a lease with no room, and two with room for one
and for several retries, are taken; `Horizon` is past every interval. A channel of
one place for two VUs is always full; of the users and orders made beforehand only
whether there are any matters. Deadlock is checked except where the system
really stops: a process that has exited, replicas that have all been through
`Up`, clients whose calls are all answered.

**Fairness.** `OrderService`: every call a handler makes returns (10 s query
timeout, go-redis' read and write timeouts) and Redis expires entries. `Converges`
needs it only of database and Redis calls; the GetUser RPC, which has no deadline
of its own, plays no part in it. `ServiceRuntime`: the scheduler runs each
goroutine that can run, queries and acquires time out, tickers and sleeps fire;
nothing is assumed of signals, requests, the user service's answer, the database's
return or a client's hang-up. `Migrations`: statements return and the orchestrator restarts a process
that stops; crashes are finitely many. `LoadTest`: goroutines that can run do, the
services answer every call and the test's duration passes. `VaultLease` has no
fairness: its bounds on time are safety properties.

## Proofs

`tlapm` checks all of them; constants are arbitrary up to the named ASSUMEs
(`ConstantsAssumption`, `ListingAssumption`, `RuntimeAssumption`,
`MigrationsAssumption`, `UserAssumption`, `LeaseAssumption`, `StartupAssumption`,
`LoadTestAssumption`), which say that numbers are numbers, that null values are not
ordinary ones, that fault sets name known faults, that orders and VUs are finitely
many, that the page sizes of the repository (20 and 100) fit the integers and that
requests are int32 values, that a start is no longer than the refresher's floor and
that `Horizon` is past the times compared with it.

Each proof has one inductive invariant `IndInv`, a lemma for each action that says
the action keeps it, and theorems that read the properties off. Where the
invariant was found by trial, TLC checked it on the instance of the run first.

- `OrderServiceProofs`: `IndInv` is the type invariant, freshness of uuids (an
  open transaction's uuid is not in the database and belongs to one handler),
  `CacheSound`, that a verified user existed, and `CancelInv`, which ties the
  stages of a cancellation to what readers may hold. `StaleExcused` alone is not
  inductive: one has to know that a handler at `invalidate` has made the order
  CANCELLED, that an acknowledged cancellation is in the database, and that a
  reader that began after it and is not excused holds CANCELLED. One lemma per
  action; theorems `TypeCorrect`, `CacheIsSound`, `StalenessIsExcused`,
  `CancellationIsRead`, `UsersExisted`, `OrdersStoredWhole`.
  `ServiceImplementsStore` is the refinement: initial states map to initial states,
  and each action to a step of `OrderStore` or a stutter, from the same invariant.
- `OrderListingProofs`: a walk is followed by the rank of an order, the number of
  matching orders ahead of it. `UnseenInv` says that an order the walk has still to
  return ranks past the pages it was given, `SeenInv` that a returned one ranks
  within them; a commit can only raise a rank, which is why it may repeat orders
  already given but hides none that was there. `PageInv` is the
  arithmetic of int32: a walk advances by less than 2^31, so the first offset that
  does not fit is negative, the query fails and the walk stops there; it never
  comes to an offset that has wrapped to a small positive one. `CountInv` ties the
  COUNT to the rows of the SELECT. `First` is nondeterministic, so the lemmas on it
  hold for every order PostgreSQL may give to ties. Theorems
  `ListingTypeCorrect`, `HasMoreIsRight`, `WalksAreExact`, `PastEndIsEmpty`.
- `ServiceRuntimeProofs`: the invariant adds how rotation goes (pools are
  installed in the order they are made; the new one is open), that no handler
  waits, for the user service, the lock or a connection, with a connection in its
  hands, and that nobody is left at work once the
  drain is over. Theorems `RuntimeTypeCorrect`, `OnlyCurrentPoolOpen`,
  `NoHandlerHoldsAndWaits` (why `RotationEnds` holds), `DrainComesFirst`, and the
  action property `NotServingForGood`: after a rotation no step takes a
  NOT_SERVING status back.
- `MigrationsProofs`: the invariant adds that a file's locks have one holder and
  that the holder about to commit has found the file unrecorded; that is what
  makes check-then-act safe. Theorems `MigrationsTypeCorrect`,
  `MigrationsRunOnce`, `MigrationsInOrder`, `MigratedBeforeServing`. A second
  invariant, that only the table's owner is past an owner's file (`OwnerRuns`),
  gives `OrphanedForGood`: the exception in `UpCompletesUnlessOrphaned` is final.
- `GatewayProofs`: deliveries that were given up keep executing, so the invariant
  speaks of jobs and not of calls. All jobs of a call carry one request and a job
  that is done stays as it is (`JobInv`); an answer is that of the last delivery
  (`CallInv`); a call has made at most one user and one order for each of its jobs
  that are done, and a second user needs an email that was vacated (`MadeInv`);
  every column of a row leads back to a request that could write it (`RowInv`); a
  name overwritten late belongs to a call that was given up (`LateInv`). A second
  invariant, `RenameInv`, says that a row whose name was updated has another name
  than its first one: an update is a call that makes no user, and ids are fresh. Theorems
  `GatewayTypeCorrect`, `ConflictsExplained`, `RetriedCreatesOne`,
  `LateWritesAbandoned`, `FieldsComeFromMask`, `AnswersAreTrue`.
- `VaultLeaseProofs`: `ExpiryHasCause` relates the lease to an outage, so the
  invariant keeps account of what has been used up: while nothing has failed, the
  credentials have at least what the stages still to come will take (`GotInv`,
  `FreshInv`); an outage of Vault alone costs them what it lasts and no more
  (`OutageInv`); and the time since the last failure and the timer together never
  exceed a retry, or an interval, and a fetch (`SinceInv`). Theorems
  `LeaseTypeCorrect`, `ExpiryExplained`, `RecoveryIsBounded`.
- `StartupProofs`: the invariant says what is open at each step of main and what
  each callback has closed (`OpenInv`, `ClosedInv`), that a pool the refresher
  made is open exactly while it is the repository's (`RotatedInv`), that an RPC is served only
  before the first callback (`ServeInv`), what the two reads of the CA file found
  and which credentials came of it (`CredsInv`), and where a Fatal can come from
  (`FatalInv`). `Int32Range` is the arithmetic of the conversion for any width.
  Theorems `StartupTypeCorrect`, `RpcsHaveResources`, `PlaintextExplained`,
  `EndsExplained`.
- `LoadTestProofs`: the results under way are counted as cardinalities: of the VUs
  that hold one, of the positions of the channel, and the one in the collector's
  hands. `AppendCounts` and `TailCounts` say what sending and receiving do to them
  for a channel of any length. `StatInv` ties the numbers that `add` writes one
  after the other: durations are one behind the count only in the middle of an add,
  and the total is the sum of the operations but for one result. `RowsInv` bounds
  what the report has read by numbers that only grow: the total's row was read
  first, so the sum of the operations was at least that, less one. Theorems
  `LoadTestTypeCorrect`, `NoResultLost`, `PanicHasOneCause`, `LastLineConsistent`,
  and `SendersAreServed` (why `Terminates` holds: no VU sends on a closed channel or
  is left blocked on one that nobody drains).

Only model-checked: the liveness properties (`Converges`, `RotationEnds`,
`ShutdownEnds`, `MonitorRecovers`, `UpCompletesUnlessOrphaned`, `Terminates`),
because fairness and ENABLED are out of the prover's reach. Every invariant of the
passing runs, and the refinement, is a theorem.

## Not modelled

- The amounts of an order: float64 sums stored as NUMERIC(10,2). Binary against
  decimal rounding has no faithful counterpart at a small width.
- Writes applied late: a Redis SET or an SQL statement that timed out at the client
  and that the server applies after the handler has answered. In the models such a
  write is applied at the time of the call or never. `StaleExcused` and
  `LateWriteAbandoned` therefore do not list it among their causes; a SET that comes
  late leaves Redis as a slow reader's fill does, which is modelled.
- A start longer than the refresher's floor of 30 s: `migrations.Up` has no deadline,
  and `VaultLease` assumes `StartTime <= Floor`.
- The gateway's token bucket, JSON transcoding, TLS and cluster settings: Envoy
  evaluates them, the repository only configures them.
- `vault.GetSecret` and `RenewLease`, `DownFS` and `MigrationFile`: no caller.
- `log.New`, the wording of log lines, percentiles and formatting of the load
  test: no state.
- The generated protobuf accessors, registration tables and client stubs, the
  vendored Istio charts and the deployment files: not the program's logic. Of the
  generated code the request types and the server's method handlers appear in
  `UserService`.

## Plan

1. `OrderStore`, `OrderService` with proofs and refinement, `ServiceRuntime`,
   `OrderListing`, `Migrations`: done.
2. `UserService`, `Gateway`, `Startup`, `VaultLease`, `LoadTest`: done.
3. Proofs of every invariant the runs check: done.
4. More safety facts that carry the liveness arguments, in the manner of
   `NoHandlerHoldsAndWaits`, `SendersAreServed` and `OrphanedForGood`: what a cache
   entry that is stale and excused waits for (`Converges`), what a process that was
   signalled waits for (`ShutdownEnds`).
