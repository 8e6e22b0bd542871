# Zero Net Panel: models, checks and proofs

Zero Net Panel (`src/`, Go) is the control panel of a network service: users
buy plans with a prepaid wallet or an outside payment, administrators handle
orders, plans, subscription templates and nodes, and a command line tool
migrates the database and starts the servers.  It keeps its state in one SQL
database reached through GORM; there is no coordination between requests, or
between processes, other than the database's transactions, row locks and unique
indexes, and an in-memory cache.  That is where its hard behaviours come from,
and what this project is about: requests that act on what they read before
somebody else changed it, transactions that fail after having written, a
migration that is interrupted or raced.

Contents: [inventory](#inventory) - [modules](#modules) -
[from the code to the modules](#from-the-code-to-the-modules) -
[runs](#runs) - [properties](#properties) - [findings](#findings) -
[fairness](#fairness) - [proofs](#proofs) - [limits](#what-is-left-out) -
[plan](#plan) - [how to run](#how-to-run)

## Inventory

Paths are below `src/internal` unless they start with `pkg` or `cmd`.

| Component | State | Operations | Hard behaviour | What makes it correct | Status |
|---|---|---|---|---|---|
| Wallet (`repository/balance_*.go`) | `user_balances`: one aggregate row per user; `balance_transactions`: append-only ledger | `ApplyTransaction`, `RecordRefund` | two movements of one row; the row may be missing | the aggregate is the sum of the ledger, never negative; no movement lost or rewritten | modelled, proved |
| Orders (`repository/order_*.go`, `logic/user/order`, `logic/admin/orders`) | `orders`, `order_items`, `order_refunds`, `order_payments` | create, mark paid, refund, payment callback, cancel by user, cancel by administrator | guards are read outside the transaction that writes; three tables per refund, four per order; retries with an idempotency key; late callbacks | refunds reconcile in three places; prepaid orders keep an honest status; a key names one order; each charge belongs to an order | modelled, proved |
| Transactions and locks (GORM, `SELECT ... FOR UPDATE`) | row locks, index entries, uncommitted writes | begin, lock, write, commit, roll back | lock order, first movement of a user, duplicate keys | a transaction takes effect as one step; nobody waits in a circle; every request ends | modelled, proved but for the last |
| Schema migrations (`bootstrap/migrations`, `cmd/znp/cli/migrate.go`) | `schema_migrations`, the schema | `Apply` forward and backward, cleanup of a failed migration | failures half way, crashes, databases that do not undo DDL, releases with different registries, two processes | recorded versions have no gap; what is recorded is there; going forward loses nothing | modelled, proved |
| Demo data (`bootstrap/seed`) | all tables, when empty | `Run` | two processes at once | wallets it opens are explained by a movement | wallets, templates, subscription, nodes |
| Listings (`List...` of all repositories, the `listlogic.go` of each module) | none of their own | a page: count, select, details | no transaction around the statements; two layers that each bring the size of a page into its limits | who follows `has_next` misses nothing; what is shown of a row fits together | modelled, proved |
| Plans, announcements (`repository/plan_repository.go`, ...) | one table each | create, update, publish, list | partial updates read, change and save a whole row | an update does not undo another | in part: as rows that listings show |
| Subscription templates (`repository/subscription_template_repository.go`) | templates with a draft, a version and a default flag; history | create, update, publish | whole rows are read and saved; the default of a client type has no index; publish against update | history has each version once and what it was; edits are undone by request only; a switch leaves one default | modelled, proved |
| Subscriptions (`repository/subscription_repository.go`, `logic/user/subscription`) | subscriptions, the template each uses and those it may use | select a template, preview | a template or the selection changes between the two reads of a preview | what is served is available | modelled, proved |
| Security settings (`repository/security_repository.go`, `middleware/thirdpartymiddleware.go`) | one row, created on first read; a copy cached in each process | read, update, check a request | two first reads; full overwrite; stale copy | one row; an update undone only by an overlap; the copy is never too old nor goes back; nobody waits for ever | modelled, proved |
| Nodes (`repository/node_repository.go`, `logic/admin/nodes`) | nodes, the kernel configuration stored for each | sync: fetch from the kernel, then record | an older fetch recorded last | times do not go back; the protocol list covers the kernels; only an overlap brings an older configuration back | modelled, proved |
| Cache and locks (`pkg/cache/memory.go`) | entries with a lifetime; a process-wide map of locks with a lease | get, set, delete, acquire, release, expiry | check and delete are two critical sections; a timer of an earlier holder | a fresh value is not deleted; one holder of a lock | not modelled: nothing uses it |
| Access middleware (`middleware/accessmiddleware.go`) | a limiter per address | admit a request | load and store are two steps | the burst is not exceeded | not modelled |
| Servers (`cmd/znp/cli/serve*.go`, `svc`, `bootstrap/bootstrap.go`) | the resources of the process, three servers, one context, one error channel | prepare, open, start, fail, return, stop, close | failures, cancellation and waiting in any order; streams that do not end; an HTTP server that only a signal stops | the first failure is told and stops the metrics and gRPC servers; resources outlive the servers; after a signal the process ends | modelled, proved but for what must happen in the end |
| Authentication, HTTP handlers, types, configuration, metrics, rendering, dashboards, installer | none that controls anything | parse, format, sign, print | none | - | not modelled |

How they interact.  A handler (`handler/`) parses a request and calls one
method of a logic object, which reads through repositories, opens a transaction
with repositories bound to it, and answers.  The order handlers call the wallet
inside their own transaction, so both commit or neither does.  Order creation
reads a plan once and copies its price.  Migrations and seeding run before the
servers start, in the same process or in another one.  The third-party
middleware reads the security settings through a private cached copy.  There
are no messages or callbacks between components other than payment callbacks,
which arrive as requests.

`PROJECT.json` lists under `hazards`, each at its line, what can go wrong in
this code that a test would hardly reach, with the property that watches it or
the reason why none does.

## Modules

```
Wallet ----------+                    SchemaRegistry   (the real registry)
OrderRows -------+-- Billing               |
                        |             Migrations  (any registry)
                     BillingTx             |
                                      MCMigrations = both

Templates ------- Subscriptions ------ MCSubscriptions

Nodes -------------------------------- MCNodes
Settings ----------------------------- MCSettings
Listings ----------------------------- MCListings

Lifecycle ....... Serve    (Serve implements Lifecycle: INSTANCE ... WITH)

BillingProofs (and Wallet), BillingTxProofs,
SubscriptionsProofs (and Templates), NodesProofs,
MigrationsProofs, SettingsProofs, ListingsProofs,
ServeProofs                                             theorems of each
MCBilling, MCBillingTx, MCMigrations, MCSubscriptions,
MCNodes, MCSettings, MCListings                         instances for TLC
```

- `Wallet`: the abstract promise of the wallet, `WalletSpec`, and the two
  operations everybody uses.
- `OrderRows`: what one order row looks like and what each mutator does to it.
- `Billing`: the six handlers as pairs of steps, `...Read` (everything before
  the transaction) and `...Commit` (the transaction), by any number of workers.
  `Billing` implements `WalletSpec`.
- `BillingTx`: the same transactions statement by statement with locks.
  `BillingTx` implements `Billing`'s `Spec`.
- `Migrations`: `Apply` for any registry that meets `RegistryAssumption`;
  `SchemaRegistry` is the registry of this repository, as written and as sorted.
- `Templates`: the administrators' transactions on templates, statement by
  statement; `Subscriptions` extends it with the users' side.
- `Nodes`: synchronisation of nodes with their kernels, with a clock.
- `Settings`: the row of the security settings, the administrators who change
  it and the copy of it that the third-party middleware keeps.
- `Listings`: a client that walks through one of eight listings, statement by
  statement, while others change the table.
- `Lifecycle`: what a process promises, as a specification of its own;
  `Serve`: the process, with its goroutines, channel and context.

## From the code to the modules

**Wallet.**  `balance` and `ledger` are the two tables.  `ApplyTransaction` is
the function of that name: refuse a zero amount, refuse an overdraft, append
the movement with the balance it leaves, store that balance.  A missing row is
a balance of 0, as `GetBalance` and `ApplyTransaction` treat it.  Seeding opens
the wallets (`Opening`).

**Orders.**  `orders` maps order ids to rows; `payments` holds the status of the
one payment that an order with an outside payment has; `refunds` the amounts of
`order_refunds`; `task[w]` what worker `w` carries from its checks into its
transaction.  A handler that returns early is not a step, since it changes
nothing.  The transaction's own checks (overdraft, duplicate key, remaining
amount under the lock) are conjuncts of the `...Commit` action; when one fails
the worker can only `Abort`, which rolls everything back, as can a lost
connection, a cancelled context or a crash at any other time.  In particular a
create request that loses the race for its key rolls its charge back, and its
answer is the order of the winner, which changes nothing.

| Code | Action |
|---|---|
| `CreateLogic.Create` | `CreateRead`, `CreateCommit` |
| `MarkPaidLogic.MarkPaid` | `MarkPaidRead`, `MarkPaidCommit` |
| `RefundLogic.Refund` | `RefundRead`, `RefundCommit` |
| `PaymentCallbackLogic.Process` | `CallbackRead`, `CallbackCommit` |
| `CancelLogic.Cancel` of users, of administrators | `UserCancelRead`, `AdminCancelRead`, `CancelCommit` |
| rollback, crash | `Abort` |

**Transactions.**  `Begin` is the `...Read` of `Billing` plus opening the
transaction; `LockWallet`, `CreateWallet`, `LockPayment`, `LockOrder`,
`InsertOrder` are its statements in the order the handlers issue them; `Commit`
publishes what `tx[w]` has accumulated and releases the locks; `Refused` and
`Rollback` end it without a trace.  `rows` says which users have a wallet row,
as a missing one cannot be locked: the unique index on `user_id` is what stops
a second first movement then.

**Migrations.**  A database is the set `schema` of its objects and the set
`recorded` of versions; `ddlCommits` distinguishes databases that commit at
each DDL statement (MySQL) from those that roll DDL back.  `Start` is `Apply` up
to its loops, `ApplyMigration`/`ApplyFails`/`Cleanup` are `applyMigration`,
`RollbackMigration`/`RollbackFails` are `rollbackMigration`, and a process may
`Crash` in all of them.  What an `Up` brings is not a function of its version:
`AutoMigrate(&Order{})` adds whatever the struct of the running release has, and
`SchemaRegistry` says so.

**Templates.**  `templates` and `history` are the two tables; `tx[a]` is the open
transaction of request `a`: the row it will save, the rows whose flag its
`UPDATE` still has to reset and has reset, and its locks.  `Create`, `Update`
and `Publish` are the three methods up to the last check (a row that is locked
is waited for), `ClearBegins` is the `UPDATE ... SET is_default = false` taking
its snapshot, `ClearRow` the same statement reaching one row, `Commit` the save,
the history and the end, `Rollback` any refusal or failure.  `overlap` is
auxiliary: requests that met the creation of another default of their client.

**Subscriptions.**  `UpdateTemplate` is the repository's method, one transaction
under the row's lock.  A preview is two statements with no transaction around
them, `PreviewRead` and `PreviewRender`; `preview` is what it carries between.

**Nodes.**  `nodes` and `kernels` are the two tables.  `SyncLogic.Sync` is five
steps of a worker, at each of which other syncs may come between: `Fetch` (the
kernel answers), `Retrieve` (`RetrievedAt` is taken), `RecordBegins` (the time of
the recording is taken), `LockNode` (`SELECT ... FOR UPDATE` of the node's row),
`RecordKernelSync` (the kernel's row, the node's row, commit).  A configuration
is the time at which the kernel made it, `remote` what a kernel would answer
now; `overlap` is auxiliary: workers whose sync met another one of its node.
The code computes a later `UpdatedAt` for rows that it then gives to GORM's
`Save`, which sets the column to its own clock: `updated` is that clock, and the
computed time only in a kernel row that is created.

**Settings.**  `row` is the first row of `security_settings`, the only one that
is read; `orphans` counts the rows behind it.  `First` and `Create` are the two
statements of `GetThirdPartyAPIConfig`, which administrators and requests share;
`Arrives`, `Overlay` and `Upsert` are `UpdateLogic.Update`, `Leaves` is `GetLogic`
or an error.  A request is `loadSetting`: `Load` reads the copy under `RLock`,
`Lock` takes the mutex and looks again, `Store` keeps what was read, `Fails` is
an error, on which the deferred `Unlock` runs.  `Restart` is a new process, whose
copy is empty.  A revision numbers the writes of the row (`writes` has their
times), so that a copy is known by its revision and its age by the time of the
write that replaced it.  An answer of `Upsert` that reads the row again changes
nothing and is part of the action.  `Ask` has the requests as the handler has
normalised them (`updatelogic.go:45-57`): an algorithm that is empty counts as
left out, a lifetime below zero as zero.

**Listings.**  `key`, `refunded`, `refunds` are a table: the column the rows are
sorted by, what an order row says of its refunds, and how many refund rows it
has.  `Clamp` and `Reset` are the two ways the code brings a page size into its
limits: `normalizePage` of the logic and `normalizeListNodesOptions` cut a size
that is too large to the maximum, the repositories of orders, plans,
announcements and movements replace it by the default.  Each record of `Listing`
names what its logic and its repository do.  A page is `ReadBalance`, `Count`,
`Find`, `Answer` (the details of the rows found, one `SELECT` per kind), and a
client asks on while `has_next` is set.  `Pages` is the set of pages that the
database may return: where the order leaves a tie, each `SELECT` may settle it
anew.  `seen`, `twice`, `start` and `calm` are what the client, or an observer,
remembers.  Filters and searches are left out: a row that an edit brings into a
filter or takes out of it is one that moved, of which nothing is claimed.

**Serve.**  `stage` is the main goroutine: `PrepareDatabase` (migrations and
demo data on a connection of their own), `Acquire` (`NewServiceContext`; what it
closes when a later resource fails is `Close`), `Launch`, `Select`, `Wait`, and
`Close` again (`Cleanup`).  `pc[s]` is the goroutine of server `s`, `loop[s]` the
goroutine in which it serves.  `errCh`, `cancelled` and `runErr` are the
variables of `RunServices`.  `asked` is a signal: the parent context is the
background context in both commands, so that nothing else cancels from outside.
`LoopFails`, `LoopEnds` and `Dies` are the libraries.  The metrics and the gRPC
server may fail, and end when they are shut down.  go-zero's `Start` returns no
error: it ends the process (`Dies`) where it cannot listen, and returns when
go-zero's own listener for signals shuts the server down, and then only.
`rest.Server.Stop`, which `runHTTPServer` calls, closes the logs and nothing else
in go-zero v1.9.3.  A process that goes on too long after a signal is killed by
go-zero, which is `Dies` again.  The refinement mapping takes `stage`, and
once the servers run `cancelled` or a failure, to `phase`; `running` is the
servers that have not ended, `ready` that all resources are open.

## Runs

| Run | Module | Result | What it asks |
|---|---|---|---|
| `billing_overlap` | `MCBilling` | passes | three overlapping requests of any kind on one order: what holds all the same |
| `billing_serial` | `MCBilling` | passes | every sequence of requests that do not overlap, two orders |
| `billing_downgrade` | `MCBilling` | violated | does a succeeded payment stay so when callbacks overlap? |
| `billing_tx` | `MCBillingTx` | passes | are the transactions atomic, without a circle of waits, and does a repeated request make one order and one charge? |
| `billing_tx_live` | `MCBillingTx` | passes | does every request end? |
| `catalogue` | `MCSubscriptions` | passes | what survives administrators who overlap, and what is a subscriber served? |
| `nodes` | `MCNodes` | passes | what do two overlapping syncs of a node leave, and when is an older configuration stored over a newer one? |
| `migrations` | `MCMigrations` | passes | the real registry, one process at a time |
| `settings` | `MCSettings` | passes | how old are the settings a request is judged by, what does an overlap of updates undo, does every request get through? |
| `listings` | `MCListings` | passes | which rows does a client see that follows `has_next` while the table changes? |
| `serve` | `Serve` | passes | does a process, whatever fails when, tell the failure, stop the metrics and the gRPC server, keep `Lifecycle`, and end after a signal? |
| `serve_hang` | `Serve` | violated | does it end after any failure? |

Bounds.  Everything unbounded is a constant set of the configuration.

- `Worker`: three in `billing_overlap`, so that two stale snapshots can meet a
  third request that changes what both saw; two elsewhere; one in
  `billing_serial`, where overlap is the thing to exclude.
- `OrderId`: one order in `billing_overlap`.  Handlers touch one order and one
  wallet each, so what overlaps is about one order; two where keys, or charges
  of different orders to one wallet, are the question.  Order ids are never
  reused, so creation stops when they run out; everything else goes on.
- `OpeningCents` 4 with `Price` {0, 2} and refunds of 1 and 2: a free order, a
  wallet that can pay twice, a part refund, a full refund in one or two goes, a
  second charge that finds the money and one that does not.  `billing_tx` opens
  with 0 and no row, with 0 and a row.
- The ledger is bounded by orders, refunds and charges; refunds of an order by
  its total.
- `Quantity` {0, 1} in `billing_serial`: the clamp of the quantity.
- `Latest` {2, 5, 6}: releases before refunds, before idempotency keys, and the
  current one.  `Target`: latest, before all, an exact version, one between two
  versions, an exact later one.
- `Template`, `Client`, `Content` and `Admin` of two each, `MaxVersion` 2: two
  requests that overlap on one row, or each on the other's; one publication
  before an edit and one after.  With three templates, so that a request meets
  a row locked after its snapshot and one that is free, the templates alone pass
  too, but take longer than a run should.  `Edit` asks for a content or a flag,
  one at a time.  The proofs are for any number of each.
- One `Node` in `nodes`, as syncs of different nodes share nothing, two
  protocols and two workers, so that two recordings meet on one kernel or on
  two, on the node that has both and on the node that has one; `MaxTime` 3 gives
  a new answer before and after the one in flight.
- `settings`: two administrators and two requests, so that two first reads, two
  updates and two refreshes can each overlap; two fields, so that an update may
  leave one out; `CacheDuration` 2 and `MaxTime` 3, so that a copy is fresh,
  ages and is replaced; `MaxWrites` 2, so that a copy can miss one write and
  another; a table with its row and one without.  `MaxFetch` 0: a read takes no
  tick.  `MaxFetch` 1 passes too but takes longer; the proof is for any.
- `listings`: `DefaultSize` 1 and `MaxSize` 2 for 20 and 100, with requests for
  none, for 2 and for 3: a size left out, at the maximum and above it.  Up to
  four rows, so that a walk has up to four pages and a row more or less moves
  the border of one; two sort keys, so that rows tie.
- `serve` and `serve_hang` have no bound: the model is finite, with every subset
  of the optional servers.
- Symmetry over workers, order ids, templates, clients, contents,
  administrators, nodes and protocols is used where no liveness is checked.
- Deadlock is not checked in `billing_tx` and `billing_tx_live`: with all order
  ids used up and nothing left to refund or settle, no request can be accepted
  and the model stops, which is the bound and not the program.  Nor is it in
  `listings`, where a walk ends, and in `serve` and `serve_hang`, where the process
  does.

## Properties

*Whatever overlaps* (`billing_overlap`, `billing_tx`): no balance is negative
(`TypeOK`); each charge belongs to an existing, paid order of its owner and
amount (`ChargesBacked`); the three places that record refunds agree and never
exceed the total (`RefundsReconcile`); the status of an order the wallet paid
for at creation says how much was refunded (`PrepaidStatus`) and its owner was
charged exactly once (`PrepaidChargedOnce`); a refund status tells the truth
(`RefundStatusTruthful`); payment and order agree on the outcome
(`PaymentAgreement`); a key names one order (`KeyNamesOneOrder`); no step
rewrites history (`HistoryKept`); the wallet is used as `WalletSpec` allows.

Stale guards are why these are not obvious: a refund, a cancellation and a
callback may all commit on an order that is no longer what they checked.  What
saves a prepaid order is that it was never pending and has no payment, so no
request that would spoil it can ever have passed its guard (`SnapshotsStand`).

*When requests do not overlap* (`billing_serial`): an order is charged at most
once (`ChargedAtMostOnce`), a succeeded payment stays so
(`NoPaymentDowngrade`), only what is pending or has cost nothing in the end is
cancelled (`CancelOnlyUnsettled`).  None of the three survives a second
request about the same order; the documents of the repository claim the second
and the third without that condition, see the findings.  That an order may be
charged twice by two overlapping requests to mark it paid is a consequence of the
same stale guard (`markpaidlogic.go:58` against `110`).

*Transactions* (`billing_tx`): every commit is a step of `Billing` (`Spec`), no
set of transactions waits in a circle (`NoWaitCycle`), and under fairness every
request ends (`RequestsEnd`).  The order of locks is wallet, then payment or
order, then index entry.

*Templates* (`catalogue`): the history has each version up to the current one
(`HistoryMatches`), what is published is the newest draft saved and stays as it
was (`PublishesDraft`), an edit is undone only by a request that asks for it
(`OnlyAsked`), and a request that makes a template the default leaves it the
only one of its client (`SoleDefault`) - except when the creation of a default
overlaps it, because an `UPDATE` does not see an uncommitted row: then two
defaults stay.  Two updates that switch at once wait for each other's rows and
the database breaks one off, which is what saves them.  `ServedAllowed`: a
preview reads a template that is there and available, although its check and its
read are two statements.

*Nodes* (`nodes`): a node names exactly the protocols of its kernels and is as
new as any of them (`NodeCoversKernels`), its times never go back and no kernel
is lost (`NodesForward`), although each recording saves the whole row it read
and carries times taken before it waited for the lock.  A kernel's own row has
no such guard: `KernelsForward` says exactly when a configuration may be
replaced by an older one or one retrieved earlier, which is when two syncs of
the node overlapped.

*Migrations*: `NoGap` (the newest recorded version says where to go on),
`RecordedPresent` (what is recorded is there, on a database that undoes DDL),
`ForwardKeeps` (nothing a recorded migration brought is lost by going forward
and cleaning up, on any database).  The cleanup is the danger: it runs `Down`
outside the transaction after `Up` may have added columns that belong to other
migrations.  All three are about one process that migrates at a time: of two, the
one that loses fails at the duplicate version, and its cleanup drops what the
other has recorded (`registry.go:366`).

*Settings* (`settings`): a table that was seeded keeps its one row (`OneRow`;
one that was not gets two when two first reads overlap); no request is judged by
settings that were replaced longer ago than a copy lives and a read takes
(`StaleBound`), and a process does not go back to older ones (`CacheForward`),
through errors and restarts; the settings in force change as one administrator
asked, in nothing he left out, unless an update overlapped (`ChangesAsked`: then
the first of the two is undone); every request gets through the mutex
(`Answered`).

*Listings* (`listings`): who walks to the end has seen every row there was at
the beginning, also when rows are added meanwhile (`NothingMissed`), unless a row
moved, the order leaves ties, or the size asked for is one that the two layers
take for different ones; with nothing added or moved no row comes twice
(`NothingTwice`).  The last exception is a real mismatch: for a size above 100
the listings of plans and announcements compute `has_next` from 100 rows a page
where the repository returns 20, and a client that believes the
`per_page` of the answer misses rows.  What is shown of one order or wallet, read
in several statements, does not contradict itself (`ShownTogether`): the row
first, then what it counts, and never the other way round.

*Serve* (`serve`): a process that begins to stop its servers although it got no
signal returns, if it returns, the error of a server that did fail, also where a
signal comes later (`FailureTold`); it keeps `LifecycleSpec`: nothing runs on a
resource that is not open, resources are closed after the last server has left,
and servers leave only when all are to stop; the first failure ends the metrics
and the gRPC server (`OthersStop`), and after a signal the process ends
(`SignalEnds`), which both rest on the room of `errCh` and, for gRPC, on the five
seconds' timer alone.  That it ends after a failure too (`Ends`) is what the
comment over `RunServices` says, and it does not: the HTTP server goes on.  Nor
does a server that returns without an error stop the others.

## Findings

1. `billing_downgrade`: a callback that fails can undo one that succeeded, since
   the guard (`paymentcallbacklogic.go:91`) reads the payment before the
   transaction; `docs/ROADMAP.md:30` says callbacks do not downgrade.
2. `serve_hang`: when the metrics or the gRPC server fails, `runHTTPServer` calls
   `server.Stop` and waits (`serve_api.go:110`) for a server that only a signal
   shuts down, and `RunServices` waits for it: the process neither returns the
   error nor closes anything, and serves HTTP alone until a signal comes.  The
   comment at `serve_api.go:25` says that any exit gives all resources back.

Further disagreements with the documents, met while modelling; the models do as
the code does, and no run shows them:

- A user's cancellation checks the order it read before its transaction
  (`user/order/cancellogic.go:67`), so an order paid in between is cancelled
  without a refund; `docs/api-overview.md:32` allows the cancellation of unpaid
  and free orders only.
- A preview renders the template's row (`previewlogic.go:59`), so an edit reaches
  subscribers when it is saved and not when it is published;
  `templateshandler.go:75` says publishing is what brings a draft to subscribers.
- Error `409101`, which `docs/api-overview.md:72` lists for a sync in progress, is
  raised nowhere: `KernelsForward` leaves out syncs that overlap.
- Error `409002`, which `docs/api-overview.md:56` lists for updates that conflict,
  is raised nowhere: `ChangesAsked` leaves out updates that overlap.

## Fairness

`billing_tx_live` (`TxFairness`): a transaction that has all it
needs commits (weak fairness: a goroutine that can run runs), and a statement
whose lock is free again and again gets it in the end (strong fairness: the
database queues those who wait for a row).  No request need ever arrive, and
`Rollback` is never assumed, so `RequestsEnd` does not rest on failures.

`settings`: a request that has the mutex goes on, that is the database answers
or fails (weak fairness of its steps), and one that waits for a mutex that is
free again and again gets it (strong fairness; `sync.RWMutex` does not let a
writer starve).  Administrators, ticks and restarts need never happen.

`serve` and `serve_hang`: goroutines go on (weak fairness of the main goroutine
and of each server's), the metrics server ends once `Shutdown` was called, and
after a signal the HTTP server ends, or the process with it (go-zero shuts the
server down at the signal and kills the process some seconds later).  Nothing is
assumed of an HTTP server that was told to stop without a signal, as nothing in
the code or in go-zero would make it; of gRPC's `GracefulStop`, which waits for
open streams; of failures; or of anybody who sends a signal.

## Proofs

All proof modules are checked by TLAPS to the last leaf, for any values of
the constants that meet the named assumptions.

- `BillingProofs`.
  - The wallet: `WalletSafe`, any user of the wallet keeps its rows typed and its
    ledger chained.  Assumes `WalletAssumption`.
  - Whatever overlaps: `Invariance`, `Spec => []IInv`, from lemmas about what each
    commit makes of a row; from it `TypeCorrect`, `PrepaidSafe`,
    `RefundStatusIsTrue`, `PaymentsAgree`, `KeysUnique`, the refinement
    `ImplementsWallet`, the action property `HistoryIsKept`, and with a further
    invariant `NoStrayCharge` and, on top of that one, `PrepaidIsChargedOnce`.
    Assumes `WalletAssumption` and `BillingAssumption` (in particular that prices
    are natural numbers).  `PrepaidStatus` alone is not inductive: one has to know
    that a task about to cancel, settle or fail an order names an order that has a
    payment or is free (`SnapshotsStand`), that pending orders have a payment and
    free orders have none (`RowsConsistent`), and that a refund status is honest
    for every order (`RefundStatusTruthful`), since `PrepaidStatus` is about one of
    the orders a refund may be for.
  - Sums: `RefundsAlwaysReconcile` is about sums over sequences of any length.
    `SumOf` is a recursive function; that it exists, that it is unique and what it
    makes of one more member (`SumOfAppend`) is shown by induction, which is proved
    here for sets of numbers (`Induction`), because a set of intervals has a
    smallest one (`FS_StrictSubsetOrderingWellFounded` of the library).  Beside
    the equality of the three sums one needs that nothing was refunded of an order
    that is not there yet (`RefundsBacked`, also checked by TLC).
    `BalanceIsTheSum`: the balance is the sum of all movements, which follows from
    `LedgerChain`.
  - Requests that do not meet: `NoDowngradeAlone`, `CancelAlone` and
    `ChargedOnceAlone` are about behaviours in which no two requests about one
    order overlap (`Spec /\ []Alone`): other requests may.  Their invariant is
    that the guard a handler checked still holds when its transaction begins
    (`GuardsInvariance`), for which a pending order must not have been paid
    (`RowsConsistent`).  One request at a time, as in the run `billing_serial`, is
    the simplest case (`SerialIsAlone`), and the run `billing_downgrade` shows that
    the condition is needed.
- `BillingTxProofs`: `TxInvariance`, `TxSpec => []TxIInv`; from it
  `TxTypeCorrect`, `NobodyWaitsInCircle` and the refinement `ImplementsBilling`,
  `TxSpec => Spec`, by which every theorem about `Billing` holds of the
  statements too (`KeptStatementByStatement` puts the main ones together).  `TxIInv` says what a transaction carries from one statement
  to the next: the balance it read is the committed one and its wallet is locked
  (`WalletRead`), the row it will write is made from the committed order, which
  is locked (`OrderRead`), or its key is still free and its index entry taken
  (`KeyRead`).  That this survives the commit of another worker needs that locks
  are exclusive and that two orders being created have different numbers
  (`NumbersApart`); that the first movement of a user starts from zero needs
  that a user without a row has no balance (`NoRow`); the order of the locks
  (`LocksOrdered`) excludes a circle.  At most one of the two first movements of
  a user gets past `CreateWallet`, as the entry of the unique index is a lock.
  Assumes no more than `BillingProofs`.
- `MigrationsProofs`: for any processes, registry, releases and targets,
  `TypeCorrect`: a rollback under way has a version left to go, as of some
  versions one is the newest (`NewestOfSome`).  For `Process = {P}`, any registry that meets
  `RegistryAssumption`: `OneProcess` (`SerialInv`), `NeverAGap`,
  `RecordedIsThere`, `ForwardIsSafe`.  The invariant says that the recorded
  versions are the `k` oldest, that a process going forward is at `k + 1`, and
  that what it still has to roll back is a newest part of what is recorded.
  `RegistryAssumption` is evaluated by TLC on the real registry in the
  migrations run.
- `SubscriptionsProofs`, templates: `TemplatesInvariant`, `TemplatesSpec => []TemplatesIInv`;
  from it `HistoryAlwaysMatches`, `DraftIsPublished`, `ChangesAreAsked`,
  `DefaultIsSole`.  Locks are exclusive and what a transaction read of its own
  row stands (`LocksExclusive`, `ReadsStand`); for `SoleDefault` one needs that
  a row which the `UPDATE` of a request did not find is no default
  (`NewerUnflagged`), and that an update which would make it one is still
  waiting for the row of that request (`NewerWaits`).
- `SubscriptionsProofs`, subscriptions: `ImplementsTemplates` (the composed module leaves the
  templates to their specification, and every selection is available and
  there), `ServedIsAllowed`.
- `NodesProofs`: `NodesInvariant`, `Spec => []NodesIInv`; from it
  `NodeAlwaysCovers`, `NodesGoForward`, `KernelsGoForward`.  Beside exclusive
  locks and reads that stand one needs that nothing is ahead of the clock or of
  what the kernel would answer (`NothingAhead`), and that a sync which met no
  other holds an answer as new as all that is stored (`AloneIsNewest`).
  `MaxTimeAssumption` only says that the clock's bound is a number.
- `SettingsProofs`: `Invariance`, `Spec => []SettingsIInv`; from it `RowIsOne`,
  `StaleIsBounded`, `CacheGoesForward`, `ChangesAreAsked`.  One needs that the
  mutex has one holder, who has it no longer than a read takes (`Exclusive`),
  that a hand holds the row at its revision and was read since the mutex was
  taken (`HandsTrue`, `HandsNew`), and that what replaced the copy came at most
  one read before it was stored (`CopyAge`).  Assumes `SettingsAssumption`.

- `ServeProofs`: `ServeInvariant`, `Spec => []ServeInv`; from it
  `FailureAlwaysTold` and the refinement `ImplementsLifecycle`.  Where the main
  goroutine is decides what is open and who may run (`Stages`); a server waits to
  stop, ends or reports only in trouble, and the HTTP server never reports
  (`Loops`); and unless the process got a signal, everything in `errCh`, and
  what is returned, comes from a server that did fail (`Reports`).  What was
  taken from `errCh` before a signal stays, which makes `FailureAlwaysTold`
  a theorem about all that follows.  The refinement
  takes each step of the main goroutine to one of `Lifecycle` and the steps of the
  servers to `Trouble`, to `Leave` or to nothing.
- `ListingsProofs`: `ListingsInvariant`, `Spec => []ListingsInv`; from it
  `NothingEverMissed`, `NothingEverTwice`, `AlwaysShownTogether`, for any number of
  rows and any sizes.  `NothingMissed` says nothing until the walk ends; what holds
  before is about all orders that the table may still get: a row that was there at
  the beginning, and that some later order of all rows puts on the pages so far,
  has been seen (`Missing`).  Rows that are added push others back and never forward
  (`InsertKeepsMissing`).  While nothing moves, the pages so far are the first rows
  of the order, and each of them was on one page (`Partition`).  Assumes
  `ListingsAssumption` and the library's facts about finite sets.

The run `billing_overlap` evaluates the sums, and each of these inductive
invariants was checked by TLC on the instances of its run before it was proved.

Only model-checked: `RequestsEnd`, `Answered`, `SignalEnds` and `OthersStop`, which
are liveness under fairness and so about `ENABLED`.  What the two violated
runs show is not a theorem, of course.

## What is left out

- Rendering, audit lines, metrics, texts that listings are searched by; order numbers, items, currencies,
  references, metadata; timestamps other than whether they are set.
- The demo order that seeding inserts as already paid, with the movement that
  paid for it (`seed.go`): the models start from a database without orders, with
  wallets that seeding or a first movement opened.
- Names of templates: they only ever refuse a request.  A unique index covers
  (client type, name); names that differ in case only can race past the check
  that ignores case.
- Prices below zero or so large that price times quantity overflows: the code
  does not refuse them (`createlogic.go:108`), nor when a plan is made, in spite of
  error `400201` of `docs/api-overview.md:87`; `BillingAssumption` does.  An order
  with a negative total is taken for paid without a charge, or waits for a
  payment that is not there.
- SQLite has no row locks: it lets one writer at a time in, which is stricter
  than `BillingTx`.  InnoDB locks the gap where a wallet row is missing, so two
  first movements may deadlock there; the victim is rolled back.
- Marking an order paid with the method "balance" without charging it makes it
  refundable to the wallet.  The model does it as the code does; no property
  calls it wrong, as no document does.
- Partial updates of plans (`admin/plans/updatelogic.go:30`) read and write a
  whole row as those of the settings do, and lose an overlapping one the same
  way, without the error `409201` of `docs/service-upgrade.md:67`; they are not
  modelled a second time.
- Signatures and nonces of the third-party middleware: a nonce is not
  remembered, so a request leaves no state behind.
- The memory cache: `Serve` opens and closes it and nothing else uses it.
- The limiters of the access middleware, whose state is a library's.
- Authentication, metrics, configuration, the installer and the dashboards keep
  no state that another request acts on.

## Plan

Done: `Wallet`, `OrderRows`, `Billing`, `BillingTx`, `SchemaRegistry`,
`Migrations`, `Templates`, `Subscriptions`, `Nodes`, `Settings`, `Listings`,
`Lifecycle`, `Serve`, and proofs about all of them.

Left: an abstract life of a node's sync and of the cached settings, of which
`Nodes` and `Settings` would be refinements; what remains true of two processes
that migrate at once, beyond types; the limiter of the access middleware, and the
memory cache once something uses it.

## How to run

    tlc -workers 2 -config billing_overlap.cfg MCBilling
    tlapm BillingProofs.tla

Each run's module is named in `PROJECT.json`; the largest, `billing_tx`, takes
under two minutes with two workers.  `BillingProofs`, `BillingTxProofs` and
`SubscriptionsProofs` take a few minutes each, the others less.
