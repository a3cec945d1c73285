# Verification of the SmartCanteen Express backend

TLA+ models of the backend's order handling, of its cart and checkout, of its accounts and
sessions, of the life of its container, and of the power switch of its deployment, TLC runs that
check them on small instances, and TLAPS proofs that hold for every instance. Paths are relative to the repository.

## 1. Inventory

| Component | State | Operations | Interacts with |
|---|---|---|---|
| Lifecycle table `utils/order-state-machine.ts` | none | `assertValidTransition` | asked by the services; nothing in the database enforces it |
| Repositories `repositories/index.ts`, `prisma/schema.prisma` | `Order`, `Payment`, `QRToken`, `AuditLog`, users, colleges, refresh tokens | single statements; `updateStatus` is one transaction that matches by id | every service |
| Payment service `services/payments/payment.service.ts` | rows only | `initiateOrderPayment`, `confirmPayment`, `handleWebhook` (success, failure), `refundOrder` | provider (calls), QR service, audit |
| QR service `services/shared/qr.service.ts` | rows only; a copy of the status in Redis that nothing reads | `generateForPaidOrder`, `validateAndConsume`, `expireQr` | called by payment and manager services |
| Manager service `services/manager/manager.service.ts` | rows only | menu CRUD, `listOrders` (with `syncOperationalStates`), `scanQr`, `updateOrderStatus`, report | QR and payment services |
| Customer service `services/customer/customer.service.ts` | cart in Redis; rows | cart, `createOrder`, `getQrForOrder`, `reportIssue` | menu rows, order rows |
| Auth service `services/auth/auth.service.ts` | users, refresh tokens | register, login, refresh | JWT |
| Admin service `services/admin/admin.service.ts` | colleges, canteens, managers | create, update, deactivate, assign | several inserts without a transaction |
| Process `index.ts` | open connections | readiness, graceful shutdown | database, Redis, pm2 |
| Container `scripts/container.mjs`, `ecosystem.config.cjs` | none of its own | migrations, seed, start of pm2, forwarding of a stop | platform (ECS, Docker), pm2, `scripts/seed.ts` |
| Seed `scripts/seed.ts` | rows of the demo | six groups of concurrent upserts | database |
| Power controller `infra/lambda/operations.py` | none of its own: flag, RDS status, ECS counts | `reconcile`, once a minute | RDS, ECS |
| Release `infra/scripts/ecs_release.py` | where it is | power check, migration task, recheck, service update | the flag, ECS |
| Infrastructure code, storage, metrics, HTTP layer | - | declarative or pure I/O | - |

What is hard. Every handler is an `async` function that reads rows, decides,
and writes later, without locks, version columns or serializable transactions;
any other request, of the same process or of another replica, may run at every
`await`. Outcomes of payments come twice (customer and webhook), late, repeated
and out of order. A crash or a rejected call ends a request between two writes,
and nothing resumes it. Expiry and delay are noticed only when a manager lists
orders. Menu items change and disappear while a checkout is between its reads and
its write. A stop of a container passes through three processes, each of which
gives the next one less time than it has itself. The power controller acts on snapshots of two services that go on by
themselves, next to operators and releases.

What makes each part correct: milestones of an order happen in one order and are
not taken back; the kitchen works on acknowledged orders; books follow the
provider; a QR follows a payment, is used once, lives its time and does not
outlive it; refunds return only what was taken; the database is stopped over no
running task, services are restored over a running database, and the system
ends up where the flag is left; a rotated refresh token is spent, only managers
are assigned to canteens, and a deactivated college lets nobody in; an order is the
snapshot of one menu and stays it, and the cart goes only once its order exists; a
container serves only what is prepared, comes back after a failed boot, and a stop
cuts no request before its time.

## 2. Modules

| Module | What it is |
|---|---|
| `OrderStateMachine` | the lifecycle table |
| `CanteenStore` | the rows of one order, the provider's account, the clocks, the requests in progress; the writes all handlers share |
| `QrService`, `PaymentService`, `OrderDesk` | one action per step of a handler; each extends the one before it |
| `CanteenSystem` | initial state, arrivals, crashes, clocks, next-state relation, fairness, `TypeOK` |
| `MealPromise` | abstract specification: four milestones, each after the one before it, none taken back |
| `TokenLife` | abstract specification: the QR token of an order as the counter sees it |
| `CanteenRequirements` | the requirements, in three groups: hold always, hold sequentially, refuted |
| `CanteenInvariant` | the inductive invariants: `IInv` and `NoncesApart` for every interleaving, `SequentialInv` for requests that do not overlap |
| `MCCanteen` | symmetry for TLC |
| `CanteenTypes`, `CanteenProofs`, `CanteenPromiseProofs`, `SequentialProofs` | proofs: type correctness; invariants and requirements; refinement of `MealPromise`; the sequential requirements and the refinement of `TokenLife` |
| `Accounts`, `AccountsProofs` | registration, login, refresh, and the administrator's operations on one college; their proofs |
| `Checkout`, `CheckoutProofs` | the cart, `createOrder` and the managers' menu operations; their proofs |
| `Container`, `ContainerProofs` | boot with migrations and seed, the API under pm2 with its connections, the stop with its limits; their proofs |
| `PowerController`, `MCPower`, `PowerProofs` | the power switch, its instances, its proofs |

### How a handler becomes actions

A request occupies a *slot*; `req[s]` holds the place where it waits and what it
has read and still will use. An action is the code from one `await` to the next
with one database statement or one provider call in it. What is written is
computed from `req[s]` where the code uses a value read earlier, and from the row
where the database does. So `UpdateStarts` reads the order and checks the
transition, and `UpdateSavesOrder` writes whatever the row holds by then, as
`manager.service.ts:201-224` does. Calls become places: `generate.*` is
`generateForPaidOrder` inside a success, `expire.*` is `expireQr`, which returns
to the scan (`return = "idle"`) or to the sweep.

All handlers work on one order id, so one order is modelled; the loops of
`syncOperationalStates` over orders are, for that order, one pass.

Abstractions:

- `confirmPayment` and the success branch of `handleWebhook` write the same
  columns in the same order and are one operation, `success`. Both signatures are
  taken to be the provider's: a success starts only for a provider order whose
  money was taken.
- Calls that are refused before they write anything, and repeated outcomes of a
  payment that is `SUCCESS` already, are left out where the refusal depends only
  on what the request read first.
- A QR token is its nonce; `order.expiresAt` names the token whose expiry it is.
  Time is `lapsed` (tokens whose expiry has passed) and `stale` (`updatedAt` older
  than `ORDER_DELAY_MINUTES`).
- Columns with a timestamp are members of `milestones`. `paymentInitiatedAt`,
  `delayMarkedAt`, prices, methods and responses of the gateway are left out.
- The audit insert that follows a status update is taken with it. Nothing reads
  the log back, so only a missing entry could tell the difference.
- A key of `initiateOrderPayment` is that of the payment row or a new one.
- Ids of tokens and provider orders are recycled when nothing names them.
- A failed attempt at the checkout comes before a successful one.
- Razorpay is assumed to refuse a second refund of a payment (`RefundRefused`); the code
  would ask for it (`payment.service.ts:327-331`). The fake provider of the exam
  configuration accepts it and is not modelled.
- Tenant checks and access checks are left out: a request that fails them reads
  rows and writes nothing.

### Accounts and sessions

`Accounts` cuts `auth.service.ts` and `admin.service.ts` in the same way, for one
college. `college`, `canteen`, `account`, `assigned` and `refreshTokens` are rows; a
unique index is the second branch of `createRaw`. An account is its role, a refresh
token is the email it was issued to and whether it is usable (not revoked, not
expired); an access token has no row and is left out. `user.isActive` is left out
too: no operation ever changes it. `refresh` carries the payload of the presented
token over to the new one and asks neither the user nor the college
(`auth.service.ts:199-212`), so `RefreshStarts` reads the token row alone. Names of
tokens that are over and that no request holds are drawn again.

### Cart and checkout

`Checkout` cuts `createOrder` where it awaits: `MenuRead` (one statement for all
lines), `OrderCreated` or `OrderRefused`, `CartCleared`. The lines are those of the
request; the code never looks at the cart, it only clears it. A cart is a
quantity per item: `setCart` replaces it as a whole, `clearCart` is also the
expiry of the Redis key. `menu`, `orders` are rows; `menuItemId` is the set of
lines that still name their item (`onDelete: SetNull`). `Representable` is the
width of an INTEGER column, `Referable` the foreign key of a line. `shown` is a
history variable.

Left out: requests that the menu or the access check refuses (they write
nothing), so also a request with the same item twice, which
`menuItems.length !== input.items.length` refuses; `stockQuantity`, which no code
reads; names and images, which are copied like prices; the in-memory cache, which
serves a single process. Ids of orders and items are used once.

### The container

`Container` follows `scripts/container.mjs` from `Boot` to `EntryExits`, the seed
upsert by upsert in its six groups, pm2's restarts, and the API of `index.ts` with
what it sees of each connection: `waiting` while a handler works, `idle` while it is
kept alive, `orphan` when the client has left its handler behind.
`Deployments` are the ways the repository runs the image: Compose
(`docker-compose.yml:13-32`), the ECS service, the migration task and the seed task.
A deployment that `Refused` turns down never leaves `down`.

Time is counted in ticks from the platform's SIGTERM. Every process acts on a
signal, an exit or a timer within `MaxLag`, and a SIGKILL comes on time; both
are in `NextDue` and the guard of `Tick`. pm2 starts its own timer when it gets the
signal. pm2, the platform, the init process of ECS and the clients are external.

Left out: `max_restarts` and `max_memory_restart` of pm2; an API that crashes is
restarted, `MaxFailures` bounds how often. A migration that fails leaves no
trace, and one container is booted at a time. The rows of the seed are its own:
nobody else has taken a unique value of theirs, and the values that a later
boot puts back over those of the managers (`seed.ts:237`) are not told apart. The metrics
server ends with the process.

### The power switch

`PowerController` cuts `reconcile` at its AWS calls; `ctl` is the invocation in
progress: flag and status as they were read, whether no service had a task, and
the services still to scale. `Scalable`, `ToStart`, `ToStop` are the three
conditions of the code. A release is a pipeline that checks the flag, runs its
migration, waits, checks again and updates the service without touching the
desired count. RDS and ECS are external and move by themselves. Invocations do
not overlap (45 second timeout, one minute apart, no retries:
`infra/SRE.md:37`, `infra/terraform/operations.tf:104`). An invalid flag makes an
invocation fail and is not modelled apart; the rollout of an image replaces tasks
and is not told apart from a task that dies and is replaced.

## 3. Runs

All order runs use `MCCanteen`, all power runs `MCPower`; `accounts`, `checkout`
and `container` run their modules themselves.

| Run | Instance | Checks |
|---|---|---|
| `payment_race` | 2 slots, 1 abort, initiate/success/failure/refund | `TypeOK`, `BooksFollowProvider`, `OffersAreRecorded` |
| `counter_race` | 2 slots, 1 abort, initiate/success/manager/scan/sweep/report | `MilestonesInOrder`, `FulfilmentIsAcknowledged`, `IInv`, `NoncesApart`, `OverlapKeepsAcknowledgement`, `SpentStaysSpent`, refinement `KeepsMealPromise` |
| `sequential` | 1 slot, no abort, all operations, fairness | `TokenFollowsOrder`, `ChargedOnceAndFindable`, `SequentialInv`, `NeverExpiredEarly`, `CaptureLeadsToQr`, `LapsedOrderMovesOn`, refinement `KeepsTokenLife` |
| `accounts` | 2 slots, 1 email, 3 tokens, 1 abort, fairness | `TypeOK`, `AssignmentsNameManagers`, `RotatedTokenIsSpent`, `LockoutHolds` |
| `checkout` | 2 checkouts, 2 items, 2 canteens, 2 orders, 2 prices, 3 edits, 1 abort | `TypeOK`, `OrdersAddUp`, `SnapshotIsImmutable`, `SnapshotOfOneMenu`, `ClearedOnceOrdered` |
| `container` | 2 connections, all deployments, 2 failures, fairness | `TypeOK`, `PreparedBeforeServing`, `NeverKilledOnEcs`, `CutOnlyAtLimit`, `ServesUnlessStopped` |
| `power` | 2 services of 2 replicas, 1 release pipeline, 3 flips, 2 mishaps, fairness | `TypeOK`, `KnowledgeHolds`, `StopFindsServicesDown`, `RestoredOverDatabase`, `OffSettles`, `OnSettles` |

`OverlapKeepsAcknowledgement` is the part of "QR scan means customer present and order
acknowledged" (`README.md:142`) that the code keeps: two scans may both consume one
token, and a manager, a sweep or a renewal may write either row between the two
writes of a scan, but the order is confirmed in the end unless the request is cut
short. The exception is needed: a request that ends between `qr.service.ts:96` and `:102`
leaves a `USED` token, which every further scan refuses with 409, over an order that was
never acknowledged; TLC finds this when `sequential.cfg` gets `MaxAborts = 1` and
checks `ScanMeansAcknowledged`.

The second group of requirements is checked while requests do not overlap, so the
overlap of two initiations, or of a sweep and a renewal, is outside it; `PROJECT.json`
lists those hazards without a property and says why. With
two slots, or with a crash, `TokenFollowsOrder`, `ChargedOnceAndFindable`,
`NeverExpiredEarly`, `KeepsTokenLife` and `LapsedOrderMovesOn` do not hold of this code:
rows are written one after the other, without a guard. No document of the
repository promises them for concurrent requests, so these are limits of the
design written down here and not findings.

Each of the following runs checks one promise and finds it violated; the
finding in `PROJECT.json` quotes the promise.

| Run | What happens |
|---|---|
| `closed_stays_closed` | the customer pays, the manager cancels, the success moves the order to `QR_GENERATED` |
| `retry_after_failure` | a failed payment is initiated again: a provider order is opened, then the request is refused |
| `one_time_use` | two scans consume one token |
| `capture_crash` | a crash after `SUCCESS` was saved: no later delivery generates the QR |
| `stop_under_tasks` | a migration task starts between `list_tasks` and `stop_db_instance` |

Six relatives of these need no run of their own. A success delivered again
after a refund finds the payment `REFUNDED`, not `SUCCESS`, and revives the order
the same way. `REFUNDED` is handed to `refundOrder` before the lifecycle is asked
(`manager.service.ts:211`), so an order waiting for its scan is refunded although
the table allows it from `CONFIRMED` and `DELAYED` only; its token stays
`ACTIVE`. And a refund cut short after the provider returned the money is refused
by the provider on every retry, so the books never learn of it. An expiry
cut short after the token was saved leaves an `EXPIRED` token over an order in
`QR_GENERATED`, which every sweep finds and `expireQr` leaves alone
(`qr.service.ts:137`). A completion that
was checked against `READY` overwrites whatever the order is by then
(`manager.service.ts:222`), as a second scan overwrites a used token. And the
audit entry of a success names `PAID` as the previous state, also for an order that
went from `PAYMENT_FAILED` to `QR_GENERATED` (`payment.service.ts:268`).

What `accounts` does not claim: two refreshes with one token both get a session,
and a session goes on by refreshing after its college was deactivated. Both are
visible in the model, and no document says otherwise. `LockoutHolds` is what
deactivation does give: once the registrations and logins that read the college
before the change have run out, no session is opened any more.

What `checkout` does not claim: an item that another device puts into the cart
between `OrderCreated` and `CartCleared` is lost, a checkout that is sent again
creates a second order, and prices may have changed between the menu that was read
and the order. No document says otherwise; `SnapshotOfOneMenu` says that there was
such a menu in the course of the request.

What `container` does not claim: a graceful stop under Compose. Docker's default
grace is 10 seconds, and the entry process is PID 1, so a SIGTERM during its boot
is lost; both are in the model (`StopTimeout`, `StopSentDuringBoot`). And
`server.close()` waits for connections, not for handlers: an orphan is cut when
`Drained` finds the others gone, as a crash would cut it.

### Bounds

Two slots are enough for the races of this code: a handler disturbs another one
by writing between its read and its write, and a third adds another such
write, which a request that starts after the second has ended also does (slots
are reused without limit). Two provider orders let one replace the other while
the customer pays the first. One nonce per token row, order row
and request is needed for ids to be fresh, hence three or four tokens. In `accounts`
one email is enough, since all that two people share is the college and the
canteen, and three tokens let a presented token and the new tokens of two requests
exist together. In `checkout` two items are needed for lines of different menus and
two orders for a second checkout, a `MaxInt` of 2 is passed by two lines at price 2,
and one create and two further edits change what a checkout has read. In
`container` one connection can drain while the other does not; a second of three
ticks and a lag of one are the coarsest clock that satisfies the assumption; two
failures cut a boot short twice, or a boot and the API. Aborts
(`MaxAborts`), flips (`MaxFlips`) and mishaps (`MaxMishaps`) are bounds of the
instances; `InitiateStarts` waits for fresh provider orders and `RunMigration` for
the pipeline's previous task. The proofs need none of these numbers.

### Fairness

A request that was started goes on (`WF` of `Proceed`): the event loop runs every
continuation unless the process dies, which is `Abort`. The provider delivers a
success until it is accepted and managers keep listing orders; the model's slot
may be busy whenever they try, so both are strongly fair. Customers, scans and
decisions of managers are not fair, nor is any arrival in `Accounts`, whose only
fairness is that a request in progress goes on. In `container` a service is booted and
boots go on (`WF` of `main` for the mode `serve`: `restart: unless-stopped` and the ECS
service scheduler start it again, a one-off task is not started again) and pm2
starts the API; stops, failures, clients and time are not fair. `checkout` needs
no fairness. The controller is invoked every minute
(`WF` of `Reconcile`), RDS and ECS finish what they began, a migration ends or is
stopped by its waiter. Flags, releases, failures and restarts of RDS are not
fair.

## 4. Proofs

Assumptions: `StoreAssumption` (a null column is no id, `MaxAborts` is a number,
operations are known ones), `AccountsAssumption` (the same of emails and tokens),
`CheckoutAssumption` (prices are natural numbers, quantities positive, no canteen or order
is a null), `ContainerAssumption` (two lags are less than a second) and `PowerAssumption` (`Replicas` positive, bounds are numbers). TLC evaluates each in
every run of its model.

**Order backend.** None of the requirements is inductive: a handler writes what
an old read justified. The observation behind `IInv` is that a few facts are never
undone (money was taken, money was returned, a QR was issued, the customer was
acknowledged, a token row and a payment row exist). `Backed(s)` says which of
them the pending write of request `s` rests on; `RowsBacked` says which of them the
rows rest on.

- `CanteenTypes`: `TypeStep`, one lemma per service, from lemmas about the shared
  writes.
- `CanteenProofs`: `Kept` states that the facts stay, so a request that does not
  move stays backed (`OthersBacked`). A step of `s` then only has to account for the
  rows and for `s` itself (`Accounted`, `OneMoves`); there is one lemma per handler,
  with a step per action. `StatusWritten`, `PaymentWritten` and `TokenWritten` say when
  a write is accounted for. Theorems: `TypeCorrect`, `InvariantHolds`,
  `MilestonesOrdered`, `FulfilmentAcknowledged`, `BooksFollow`, `OffersRecorded`.
- Acknowledgement (last part of `CanteenProofs`): a request that has consumed a token waits
  at `scan.confirm`, and the only step it takes from there, if it is not cut short, is
  the one that confirms (`ConfirmIsNext`); only a scan puts a token into `USED`, and
  then waits there itself (`UsedByScan`); a confirmation is never taken back (`Kept`).
  Theorem: `AcknowledgementKept`.
- `CanteenPromiseProofs`: four actions can be seen through the refinement mapping;
  all others are stutters. Theorem `PromiseKept`: `Spec => KeepsMealPromise`.
- Nonces (second part of `CanteenProofs`): `SpentStaysSpent` compares a row with
  what a request drew several steps before. `NoncesApart` says that a nonce that is
  still to be saved differs from those in the rows and in the other requests; a
  step that draws none only moves nonces that are held already (`HoldsNoMore`,
  `ShowsNoMore`), so `NoncesStayApart` covers all of them. `ActivatedBySave` finds
  the one action that makes a token good. Theorems: `NoncesKeptApart`,
  `SpentTokensStaySpent`. They justify that `ScanStarts` leaves out the scan of
  a token that is no longer `ACTIVE`.

**Order backend, one request at a time.** The hypothesis is `Sequential`: one
slot, any number of requests after one another, and no abort; tokens, provider orders
and operations are arbitrary. It is an assumption of these theorems and not of
the model; what happens without it is in section 3. The requirements speak of
the rows between requests, and the code writes one row after the other, so the
invariant says for every place where a request can wait which rows it has half
written and which of the facts it read are still needed. `TokenPlace(s)`: order and
token agree except after the first of the two writes of a success, a scan or an
expiry; a token about to be consumed is good and its order waits; one
about to be expired has lapsed, which the sweep knows only because the order
shows the token's own expiry; a manager's transition is still legal when it is
written. `PaymentPlace(s)`: nothing but the provider order of the row was handed out,
an order `CREATED` has no row and one in `PAYMENT_PENDING` a `PENDING` one, so only the
first initiation opens a provider order. The last clause is what fails after an
abort: an order left in `PAYMENT_PENDING` over a `FAILED` payment is initiated again.
There is one lemma per service for each half, and `SequentialStep` puts them together.
Theorems: `SequentialInvariance`, `TokenFollowsOrderHolds`, `ChargedOnce`,
`NotExpiredEarly`, and `TokenLifeKept` (`Spec => KeepsTokenLife`): three steps can be seen
through the mapping (save, use, expire) and the passing of the token's own time.
`OneTimeUseAlone` needs one slot but allows any number of aborts, so the refutation
in `one_time_use` is due to overlap alone.

**Accounts.** `RotatedTokenIsSpent` compares a row with what a request read several
steps before, and other requests write rows in between, so it needs to know
that they write other rows: `NamesApart` says that the token a request will create is
named by nobody else. `Backed(s)` says what the next write of `s` rests on: a presented
token that stays spent, a manager's account that was created, a canteen that exists.
The proof has the same shape as that of the order backend: `Kept` for the
requests that do not move, `OneMoves` for the one that does, one lemma per
operation. Theorems: `AccountsTypes`, `AssignedAreManagers`, `RotationSpends`.

**Power switch.** `KnowledgeHolds`: the invocation in progress alone writes desired
counts and stops the database, so after the loop the counts are what it wrote,
and a status `available` read with the flag on has not become a stopped one. ECS
places no task of a service that wants none, which keeps "nothing listed" true
for services until the database is stopped; it says nothing about standalone
tasks, which is where `stop_under_tasks` goes wrong. Theorems: `KnowledgeAlways`,
`StoppedOverNothing`, `RestoredOverUp`, `PowerTypes`.

**Checkout.** `OrdersAddUp` speaks of rows; between the read and the write a menu item
may go, so the invariant has to say what a waiting request still guarantees:
prices are kept for the lines it asks for, its items belong to its canteen
(an item never changes its canteen, and a deleted one never comes back), the order
it will write is nobody else's, and one that waits to clear the cart names
an order that exists with its lines. Theorems: `TypeCorrect`, `InvariantHolds`,
`OrdersAlwaysAddUp`, `SnapshotStays`, `ClearedAfterOrder`, and, from the history that
`Observe` keeps, `SnapshotIsOfOneMenu`.

**Container.** `NeverKilledOnEcs` is arithmetic over three timers that start at
different times: the invariant bounds `since` and `pm2At` at every place of the
stop by the lags passed so far, so that 25 seconds and a lag end before 26,
and 26 and the lags before 30. `PreparedBeforeServing` rests on the groups of the
seed: those before `phase` are complete, and the rows of the current one that are
not pending exist. Theorems: `TypeCorrect`, `NeverKilled`, `PreparedFirst`, `NotCutBefore`.

Only model-checked: liveness
(`CaptureLeadsToQr`, `LapsedOrderMovesOn`, `LockoutHolds`, `ServesUnlessStopped`, `OffSettles`, `OnSettles`),
which is out of the proof system's reach.

## 5. Plan

Done, in this order: lifecycle table, store, QR, payment, desk, system and its
invariant, abstract promise, proofs, power switch and its proofs, accounts and
their proofs, checkout and its proofs, container and its proofs, nonces and the
sequential system with its abstract token. Every safety invariant and every action
property that a run checks as passing has a theorem. Next, if the code moves:

1. The place where a fix goes: with a guarded update (`status` in the `where` of
   `updateStatus` and of the token's update) `TokenPlace` becomes provable for
   overlapping scans too.
2. An abstract atomic `reconcile` for the invocation of the power controller;
   `KnowledgeHolds` says the same today, state by state.

Not modelled, and not planned: HTTP layer, schemas, rate limits, access control,
storage, metrics, Terraform, CloudFormation, dashboards, CI, Dockerfile. They are
stateless, declarative or pure I/O. So is the fake payment provider: it answers
every call at once, accepts a second refund, and the handlers around it are those of
the payment service.
