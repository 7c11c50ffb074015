# DeliverIQ in TLA+

DeliverIQ is a food-delivery platform: FastAPI services for orders, payments,
inventory, webhooks, authentication and ML monitoring, a saga orchestrator that
runs a checkout across them, a transactional outbox with a Redis stream behind
it, and an ETA model. This directory models the parts that carry the platform's
consistency promises, checks them with TLC and proves the central ones with
TLAPS. Paths below are relative to the repository.

## 1. Inventory

| Component | State it keeps | Operations | Correct when |
|---|---|---|---|
| Saga orchestrator `services/orchestrator/{app,saga_state_machine,models}.py` | `SagaInstance` rows, `SagaStepLog`, one thread per request | `start_saga`, `_compensate`, `_transition` | a confirmed order is paid and held; an order is charged once; a cancelled one is refunded; the log is a complete audit; every saga ends |
| HTTP adapters `services/orchestrator/http_adapters.py` | requests on the wire | authorize, refund, reserve, predict, update_status | what a timeout or an error hides is accounted for |
| Payment service `services/payment/app.py` | `payments`, idempotency cache, `FAIL_RATE` | authorize, refund, set fail rate | retries agree; answers are backed by rows; refunds mark their original |
| Inventory service `services/inventory/app.py` | `inventory_items`, `reservations`, row locks, cache | reserve, release, set stock | no oversell, no lost unit, no leaked lock, no endless wait |
| Idempotency store `core/idempotency.py` | dict in the process | get, set | a replay has no side effect |
| Order service `services/order/{app,models}.py` | `orders`, cache | create (two routes), update status, list, get | order and event commit together |
| Transactional outbox `core/outbox.py` | `outbox_events`, Redis stream | `write_outbox_event`, `relay_batch`, `publish_sync` | an order's event reaches a handler or is given up at the limit; no mark without an event |
| Event consumer `core/streams.py` | stream position, pending list, dead-letter stream, both streams trimmed | `publish`, `consume_loop`, `send_to_dlq` | nothing is forgotten but by trimming, nothing is handled twice, the group recovers from faults |
| Notifier `services/notifier/app.py` | events seen, notifications, per process | `handle_event` | one notification per event and process |
| Webhook dispatcher `services/webhook/{app,models}.py` | subscriptions, delivery log | subscribe, dispatch, retry | an answered dispatch is logged in full; the log is truthful |
| Circuit breaker, HTTP client `core/http.py` | state, failure count, time of the last change | `request` | closed exactly below the threshold; admits nobody while open; recovers |
| Rate limiter `core/rate_limiter.py` | request times per key | `check`, middleware | at most `max_requests` in any window; Retry-After suffices |
| ML monitoring `services/monitoring/*` | prediction log, drift reports, gate decisions | log, join, drift check, evaluate gate, inject | a trigger is justified by what was read, verdicts are logged |
| Auth `services/auth/*`, `core/security.py`, `core/auth_middleware.py` | users, tenants, API keys, tokens | signup, login, refresh, tenants | one account per email; a lost role or account ends with the access token |
| ETA service, training pipeline `app.py`, `src/src/*`, `scripts/*` | model files | predict, train | numerical |
| Consoles, simulator, notebooks; infrastructure `core/*` | none of their own | | |

Interactions. A client creates an order (order service), which commits the order
row and an outbox row together; a relay publishes outbox rows to a Redis stream;
a consumer group handles the stream. The retrain gate reads the prediction log
and the drift reports that other requests write. A client starts a saga; its
thread calls payment, inventory, ETA and order services over HTTP, each with a
client timeout, and commits its own row between calls. Webhooks are dispatched by
HTTP. Services share no tables; the idempotency caches are local to a process.

Library code without a user in the repository: no service installs the rate
limiter's middleware and no code but the tests makes a `ResilientHttpClient` (the
adapters use plain `httpx` clients), nothing starts a relay or a consumer, and
the notifier's `handle_event` has no coroutine that `consume_loop` could call.
They are modelled in their documented use.

What is hard here: requests of the same key, order or item that interleave; a
call that times out at the client and is executed later; restarts between a
commit and what follows it (caches, answers, acknowledgements, log rows); row
locks taken in the order of a cart; a relay or a consumer that dies inside a
batch; answers that arrive after a breaker has opened; queries of one evaluation
that see different moments; tokens that outlive the role they claim, and are made
from a row that was read earlier. `PROJECT.json` lists these hazards at their
lines.

## 2. Plan

Done: 1 `CheckoutSaga` with its abstract specification `CheckoutOutcome` and
their proofs; 2 `PaymentService`; 3 `InventoryService`; 4 `OrderOutbox`;
5 `EventConsumer` with the notifier; 6 `WebhookDispatcher`; 7 `RetrainGate`;
8 `CircuitBreaker`, `RateLimiter` and their composition `ResilientClient`;
9 `AuthTokens`; 10 `OrderEvents`, the composition of 4 and 5. Every operation of
the services that changes state is an action of one of them.

The proofs follow the same order: every invariant and every action property that
a run checks is proved in a module `<component>Proofs`, and so is the refinement
of `CheckoutOutcome`. What is left to TLC is liveness; where a leads-to property
has a safety half, that half is a theorem too (section 5).

## 3. Modules

Every module states its correspondence in its opening comment, names mutants of
its definitions next to them, and is written with the source's names.
A thread's control points (`pc`) are the places where it can be interleaved:
remote calls and commits. What happens between two of them is one action.

**CheckoutSaga** (orchestrator, adapters, and the handlers of payment, inventory
and order as seen through them). One thread per saga id; `req[s][call]` is a
request that is sent at most once; `payRow`, `refundRow`, `rsvRow`, `stock` and
`orderStatus` are the services' rows. `StartSaga` is the insert with the unique
`order_id`, `PaymentFailed` ... `UpdateOrder` the branches of `start_saga` and
`_compensate`, `Serve*` the handlers, `Unavailable` an error answer, `ThreadDies`
a crash. A caller that times out moves on (`CallRaises`) while the request stays
on the wire. `AdapterParams` is the keyword list of the order adapter in use;
`HttpOrderParams` is the one of `HttpOrderService`, the only adapter there is,
whose calls never bind. `OrderEndpointParams`, the parameters of the endpoint
behind it, stands for an adapter that passes the keywords on; `checkout_faults`
uses it so that order rows move. The refund adapter raises on 5xx only; the one
4xx its handler has is the 404 for a payment without a row, which no reachable
refund meets (`WireInv`).

**CheckoutOutcome** is what a client, the ledger and the shelf see: open,
charge, hold, refund, confirm, cancel, review. It says which outcomes are
promised and which are not (a cancelled checkout may be charged late).

**PaymentService** and **InventoryService** open up the handlers: cache look-up,
database work, commit, caching of the response, answer. A restart loses cache
and threads. The inventory has row locks in request order, PostgreSQL's READ
COMMITTED reads (a release reads its items one SELECT at a time, `ReadItem`), the
UPDATE locks of a release in primary key order (the session has
`autoflush=False`: `NextRow` is the least row that is not locked yet) and
deadlock detection. `set-stock` takes any integer. What PostgreSQL does by itself
(the UPDATE locks, finding a deadlock and aborting one of its transactions) is
modelled from how the service uses the database and marked external.

**EventStream** is the Redis stream that outbox and consumer group share: event
ids in the order in which they were published.

**OrderOutbox** has order creation with its outbox row and relays that read a
batch, publish entry by entry, lowest id first, and commit once. Nothing in the repository starts
a relay or a consumer; that they are run periodically is their documented use.

**EventConsumer** has consumers of one group: XREADGROUP with `>`, handler,
XACK, dead-letter stream, and the two `except` levels. XADD trims the stream to
about `MaxLen` messages (`Trimmed`: Redis removes any number of old messages as
long as that many are left), and the dead-letter stream likewise: `dlq` is all
that was ever put on it and `dlqFirst` the oldest that is left (`OnDlq`). An XACK
or XADD that raises may have been executed (`AckUnsure`, `ErrorPathRaises`). The
handler is the notifier's `handle_event`, whose set of seen events dies with its
process.

**OrderEvents** extends the two over one stream: a step of `OrderOutbox` that
appends to it is a `Produce` of `EventConsumer` (`Upstream`), a step of the group
leaves the outbox alone (`Downstream`). The components' formulas are told apart
by their prefix (`OutboxSpec`, `GroupSpec`, `EventsSpec`). The event ids on the
stream are those of outbox rows, so what a relay publishes twice is one event
twice; `order.created` is no type that the notifier knows (`EventsAssumption`).

**WebhookDispatcher** has subscriptions, the dispatch loop with its single
commit, manual retries, and a merchant that may take a post whose answer is lost.

**RateLimiter** is `check` for one key, with timestamps written as ages that
stop at the window; **CircuitBreaker** is the breaker's three methods;
**ResilientClient** extends both: tasks of one process in `request()`, with
retries, backoff, cancellation and requests that outlive their client, calling a
service behind the limiter. The composition is that of the library's parts; no
service of the repository is set up so.

**RetrainGate** has the prediction log, label joins, drift reports, the drift
injector and evaluations that are interleaved between their queries and before
their commit. Every evaluation comes with a configuration of its own, whose fields
are integers without bounds, as in `GateConfigRequest` (`Config`). A decision
remembers how many rows of each table were committed when the evaluation read
it, so that the properties can look at the tables of those moments (`Drifted(k)`,
`Degraded(k, cfg)`). `Subtractable(LoadedZone)` is Python's rule that an aware and a
naive datetime cannot be subtracted: columns of type `DateTime` come back naive.
A query "newest n rows" is the set of their positions (`Newest`).

**AuthTokens** has signups split between query and commit, and threads that serve
the other requests in two steps each: login and refresh read the row and later
issue tokens from it with their full lifetimes (`IssueTokens`), and the token of
an administrator is checked before the tenant is inserted (`CheckAdmin`,
`CreateTenant`). At most `MaxDelay` ticks pass in between; the code sets no such
bound, and the properties are stated in terms of it. Tokens are what they claim
plus the ticks they have left. Role changes and removals are an administrator's,
in the database.

`MC*` modules hold model values, carts, request mixes and symmetry sets.

## 4. Runs

| Run | Instance | Shows |
|---|---|---|
| `checkout_faults` | 2 sagas, 2 orders, carts {a}, {a,b}, one unit of a, all faults | money, goods, audit log and verdict agree in every state; completed rows are final; every saga whose thread lives ends; `CheckoutOutcome` is implemented |
| `checkout_http` | `HttpOrderService`, no faults | **violated** `ConfirmedReachesOrderRow` (finding 1) |
| `payment_calls` | 3 requests, 2 keys, 1 restart | replays agree, answers are backed by rows, refunds mark their original |
| `inventory_mixed` | 3 requests out of reserves in opposite lock order, releases, restocks, one of them negative; an item without a row; 1 restart | no oversell, reserves conserve stock, answers are backed, every request ends |
| `inventory_lost_update` | reserves and a release of one item | **violated** `StockConservation` (finding 2) |
| `order_events` | 2 orders (one of them poison to its handler), 2 relays with batches of 2, 2 attempts, a consumer, 1 failing publish or dying relay | no dual write, no mark ahead of the stream, and every order's event that no consumer has read reaches the handler or the dead-letter stream, also behind another order's event |
| `at_least_once` | 2 orders, a relay, a consumer that may crash once | **violated** `AtLeastOnce` (finding 3) |
| `consumer_faults` | 2 consumers, 3 messages of 2 events (one poison), stream and dead-letter stream trimmed at 1, batch 2, 2 faults | only trimming forgets a message, none is handled twice, a fault costs at most a batch, one notification per event and process, the group recovers from every fault |
| `webhook_dispatch` | 2 tenants, 2 endpoints, 1 dispatch, 2 retries, 1 restart | an answered dispatch is logged in full, the log never overstates, requests end |
| `resilient_calls` | 2 tasks, 2 requests per 2 seconds at half-second resolution, threshold 2, 1 retry, 3 errors | limit and Retry-After hold at the window's edge, breaker state and count agree, an open breaker admits nobody, and closes again |
| `gate_evaluations` | 2 evaluations, 2 log rows, 2 reports, window 1; configurations with `min_samples` within the window, beyond it, and one that an empty log satisfies | an evaluation triggers exactly when what it read meets its conditions; only overlapping evaluations are logged after a trigger; answered evaluations are logged |
| `auth_tokens` | 2 signups with one email, 1 thread, 2 roles, access tokens of 2 ticks, refresh tokens of 3, a delay of 1 | one account per email; a lost role is usable for less than an access token's lifetime and a delay; tenants come from admins of that time; removed users are locked out |

Bounds. Two sagas suffice for a collision on an order and on the last unit of an
item, with a cart that still fits in between. Three requests with shared keys
give a first attempt, a retry that races it and a third party (another key, a
refund, a release). One restart separates "before" from "after"; a second adds
no new kind of state, since a restart leaves only the tables. In `order_events`
two orders share a batch and are behind each other in the stream; two relays and
a failure publish a row several times over, and `MaxMessages` is never reached.
Its single failure does not reach the retry limit, its stream is never trimmed
and its consumer does not crash: FAILED rows are covered by the theorems only,
trimming and consumer faults by `consumer_faults`, whose streams hold one message
so that both are trimmed, with a batch for each of two consumers and two faults
to lose them. Two tasks and a threshold of two let one request open the breaker
while the other is in flight; half seconds make the truncation of Retry-After
show. Two evaluations overlap; two log rows overfill a window of one. An
access token of two ticks and a refresh token of three let a refresh token be
used after its access token expired and again after that; one thread, whose
requests the administrator and time interrupt, is what TLC can afford, and the
theorems are about any number. Deadlock is not
checked: every system here may stop when clients stop sending requests; that
requests in progress do end is a liveness property instead. The model behaves
the same when an id is renamed, which the symmetry sets use; no run with a
liveness property uses symmetry.

Fairness. `SagaStep`, `CallStep`, `DispatchStep`, `RetryStep`, and `IssueTokens`
and `CreateTenant` of auth: a live thread is scheduled, and every remote call
ends. (httpx applies its timeout to each connect, read and write; that a peer
which sends a byte now and then does not prolong a call for ever is assumed, for
merchants' endpoints in particular.)
`ServiceStep`: a service that is up answers. `RelayStep`, `ConsumerStep`: relay
and consumer loop for ever, also when composed. `Tick`: time passes. `TaskStep`:
the event loop runs every task, and tasks keep issuing requests (a breaker that
nobody asks stays open, by design); a service that is up answers eventually, as
the number of errors is bounded. PostgreSQL's deadlock detector is part of the
inventory's `CallStep`. Clients, faults, crashes and restarts are never forced.

## 5. Proofs

Eight modules hold the proofs. Each theorem is about the specification without
fairness and holds for every value of the constants under the named assumptions
of the module it is about. Those say that the bounds are natural numbers (sizes,
lifetimes and limits positive), that the placeholder `None` is none of the
values it stands beside (`NoneAssumption` for records), that requests have the
fields their contract gives them (a reserve names at least one item:
`min_length=1` in `contracts/inventory.py`), that a dispatch is not a retry, and
that `order.created` notifies nobody.
TLC evaluates them in the runs of that module.

In each module `IInv` is the inductive invariant (`OutboxIInv` and `GroupIInv` in
`OrderEventsProofs`): `Init => IInv`, `IInv /\ [Next]_vars => IInv'` with one step
per action, and the theorem `Invariance`. The properties are conjuncts of `IInv` or follow from it.

| Module | Proved | What makes the property inductive |
|---|---|---|
| `CheckoutSagaProofs` | `TypeOK`, `ConfirmedPaidAndHeld`, `OneChargePerOrder`, `CancelledAfterPaymentIsRefunded`, `StockOnlyForPaidOrders`, `AuditTrail`, `OrderRowNeverAhead`, `NoOversell`; the action property `CompletedIsFinal`; the refinement `ImplementsOutcome` | `WireInv`, `StateInv`, `PcInv`, `OneSagaPerOrder` (below) |
| `PaymentServiceProofs` | `TypeOK`, `ReplaysAgree`, `AcknowledgedIsStored`, `RefundMarksOriginal` | `Backed`: an answer, given or cached, quotes the local variable of the handler that stored the key's row, since a refund overwrites the row's status; `OneRowPerKey` |
| `InventoryServiceProofs` | `TypeOK`, `NoOversell`, `ReservesConserveStock`, `AcknowledgedIsStored`; `LocksAreOfOpen` | `LockInv`: an item that a reserve has tested is locked by it and still in stock; `StockInv`: rows do not disappear and, without a negative restock, a release has read no negative stock; `UnitsInv`: the units of an item in reservations are a finite set |
| `OrderEventsProofs`, outbox | `OutboxTypeOK`, `EventIffOrder`, `PublishedIsOnStream` | `BatchInv`, `ChangeInv`: what a relay holds names existing rows, and what it is about to mark is on the stream |
| `OrderEventsProofs`, composition | `EventsSpec` implements `OutboxSpec` and `GroupSpec` and has the invariants of both; `OrdersAreAccounted` | the invariants of the parts |
| `OrderEventsProofs`, group | `GroupTypeOK`, `NothingForgotten`, `HandledOnce`, `LossIsBounded`, `NotifiedOncePerProcess` | `HandsDisjoint`, `TakenRead`, `StageInv`: no message is in two hands, and how far the one in hand has got; `MessageInv`, `AckInv`: both streams are trimmed to `MaxLen` and not below, and what is acknowledged was handled or put on the dead-letter stream; `NotifierInv`: notifications of an event are at most the processes that have seen it plus the restarts |
| `WebhookDispatcherProofs` | `TypeOK`, `AnsweredIsLogged`, `LogNeverOverstates` | `SessionInv`, `RetryInv`: what a thread remembers is bounded by the posts really made, so it is true whenever it is written |
| `ResilientClientProofs` | `TypeOK`, `SlidingLimit`, `RetryAfterSuffices`, `ClosedBelowThreshold`; the action property `OpenAdmitsNobody` | `LimiterInv`: the list, cleaned up, is exactly the requests allowed within the last window |
| `AuthTokensProofs` | `TypeOK`, `OneAccountPerEmail`, `StaleRoleIsBounded`, `TenantsComeFromAdmins`; the action property `StaysRemoved`; `LostIsLockedOut` | `AccountInv`: the email of a signup is fixed once it may own a row; `HeldIsFresh`: a role that is held was lost 0 ticks ago; `RequestInv`: a role that a request has read was lost no longer ago than the request has waited |
| `RetrainGateProofs` | `TypeOK`, `TriggersAreJustified`, `BeyondWindow`, `OnlyOverlapsFollow`, `AnsweredIsLogged` | `ReportsRead`, `MetricsRead`: what an evaluation holds is what the tables held when it read them, and can still be computed from them; `Looked`, `StuckInv`: who is about to commit has seen no trigger; `Unanswered` |

The checkout. The properties relate ledgers to committed states, and neither
determines the other while requests are in flight, so they are not inductive.
`IInv` adds, for each saga: `WireInv` (an answer and the row it reports exist
together, and a reserve or refund is sent only after the payment was recorded),
`StateInv` (which requests must have been answered for a state to be committed),
`PcInv` (the state at each control point), and across sagas `OneSagaPerOrder`
(the unique index). Each step touches one saga (`Frame`, `Local`), so one case
per action remains. `AuditTrail` has an invariant of its own, `AuditInv`: a log
row along an edge of the diagram continues an audited log (`AuditGrows`), and
`PcInv` gives the source of each edge. `OrderRowNeverAhead` rests on
`CompletedStays`: the row it compares with no longer changes. `NoOversell` needs
only the type invariant and the fact that test and decrement are one step. The
refinement maps the saga state to a verdict and the payment row to a charge;
`StepRefines` goes through the actions with `IInv`.

The inventory. Stock is conserved because a commit moves as many units out of
`stock` as it enters into reservations: `Units(i)` is the set of pairs of a
reservation and a position that holds item `i`, `Reserved(i)` its cardinality,
and the units that a commit adds are in bijection with the entries of its request
(`UnitsAdded`). That no reserve oversells is about two moments, the test and the
commit; `LockInv` carries the test over what happens in between, since every
other writer of the row waits for its lock.

The rate limiter. `Younger`, the filter of `_cleanup`, is a recursive function,
and what it computes takes induction over the list. The library's induction
theorems have an operator parameter that the provers cannot instantiate, so
`ListInduction` is proved here in the form "a set of lists that has the empty one
and is closed under `Append` has them all", from the well-foundedness of `<`, and
used with comprehensions. Ageing a list and then cleaning it is cleaning it with
a smaller limit and then ageing it; that is why `LimiterInv` survives a tick.

The retrain gate. An evaluation decides on three reads made at earlier moments.
What it holds stays computable until its commit, and after it, because the tables
only grow and no row changes: `Drifted(k)` and `Degraded(k, cfg)` are about the
first `k` rows. `join_actual` would change a row, but raises on every one it
finds; and no evaluation that commits has seen a trigger, because the lookup
raises as soon as there is one. Both rest on `LoadedZone`: the theorems are about
the code as it is, in which the cooldown's comparison is never reached.
`TriggersStayJustified` is therefore an equivalence of the verdict with the first
three conditions, for configurations with any integers. `NothingFollowsATrigger`
is what the missing zone costs: after a committed trigger only evaluations that
had looked before it are logged, so the gate never triggers again and the audit
log ends, for every cooldown and any number of evaluations. `BeyondWindow` says
that a request for more samples than the window holds is always suppressed
(`NewestBound`: the newest n rows are at most n).

Trimming. Redis forgets what does not fit, so that a message is dead-lettered does
not mean that it can still be found. `NothingIsForgotten` says exactly when not:
`MaxLen` newer dead letters, or `MaxLen` newer messages before the group read it.

Tokens. What bounds the use of a lost role is the lifetime of the token *and* the
time for which its request had already held the role when it issued it; a
tenant's insert adds the time after its check. `Fresh` carries both over the
steps in between. Nothing in the code bounds these times, so the theorems give
the bound as a function of `MaxDelay`.

The composition. `ImplementsOutbox` and `ImplementsGroup` show that `OrderEvents`
lets each component take only steps of its own specification, so the theorems
about `OutboxSpec` and `GroupSpec` carry over (`EventsAreConsistent`,
`EventsAreHandled`). `EventsAreAccounted` combines them: a row that is neither
pending nor failed is published, so its event is on the stream, and a message on
the stream is unread, pending, handled, on the dead-letter stream, or was trimmed
off one of the two by `MaxLen` newer entries.

Only model-checked: liveness, which is beyond the prover. For four of the seven
properties the safety half is proved, so that what TLC adds is that steps are
taken:

| Checked | Proved about it |
|---|---|
| `OrdersReachAHandler` | `EventsAreAccounted`: at no moment is the event of an order nowhere |
| `RecoversAfterFaults` | `LossesAreBounded`: a fault costs at most a batch; `NothingIsForgotten` |
| `CallsEnd` (inventory) | `NoLockLeaks`: whoever waits for a row waits for a transaction that is still open |
| `RemovedIsLockedOut` | `RemovalIsFinal`: no row comes back; `LockedOutInTime`: after an access token's lifetime and a delay without a role no access token is left |
| `SagasFinish`, `RequestsEnd`, `NeverStuckOpen` | - |

`NoOversell` of `CheckoutSaga` is proved and not model-checked: the run of the
inventory checks it with the row locks opened up. The type invariants of the
modules other than `CheckoutSaga` are conjuncts of their inductive invariants.

## 6. Findings

1. `ConfirmedReachesOrderRow`: `start_saga` passes keywords that
   `HttpOrderService.update_status` does not have; the TypeError is swallowed.
2. `StockConservation`: `release_stock` writes a value computed from an unlocked
   read and overwrites concurrent reserves.
3. `AtLeastOnce`: `consume_loop` reads only messages that were never delivered to
   the group, so an event in the hands of a consumer that dies stays pending for
   ever. The repository's README promises at-least-once delivery, and
   `core/outbox.py` guarantees it. `OrdersReachAHandler`, `LossIsBounded` and
   `RecoversAfterFaults` say what holds instead.

Behaviour that the models contain and no run of its own singles out:

* Once a trigger is stored, every later evaluation subtracts a naive from an
  aware datetime, raises, and is not logged, where the gate's comment says "Every
  evaluation is logged". The passing property `OnlyOverlapsFollow` and its theorem
  state it.
* Two evaluations that overlap both trigger, within any cooldown
  (`OnlyOverlapsFollow` allows it, because the code does).
* An authorize call that times out and is executed later leaves a cancelled,
  charged order, where the state machine's comment says "nothing to undo";
  likewise a late reserve holds stock for a cancelled order. `CheckoutOutcome`
  allows both explicitly.
* The dead-letter stream is trimmed like the stream itself.
* `RETRYING` webhook deliveries have a `next_retry_at` that no code reads.
* `join_actual` fails on every row it finds, for the same reason as the gate, so
  labels come only from the drift injector; a `min_samples` above the window of
  200 silently disables the gate (`BeyondWindowSuppresses`); and thresholds are
  not validated, so that a request can make an empty log look degraded.
* A role that is lost while a login or refresh is served starts a new token
  lifetime (`StaleRoleIsBounded` accounts for the delay).
* A success of a request that was let through earlier closes an OPEN breaker at
  once, without HALF_OPEN; and the retry loop does not look at the breaker.
* `request.state.auth` is set by no code, so the rate limit is always per address.
* Two relays may write FAILED over PUBLISHED and the reverse; the stream is not
  affected.

Restricted statements that the code makes necessary: `NoOversell` is about carts
without repeated items and stock that nobody sets to a negative number, and
`ReservesConserveStock` about the time before the first release or restock.

## 7. Not modelled

The ETA model and its training pipeline are numerical code over data frames,
represented by the three outcomes of a prediction (`EtaOutcome`); the PSI of a
drift check is any verdict. The notebooks, by far most of the repository's lines,
are recorded experiments with their outputs and no part of the running system.
Consoles and simulator are clients. Passwords, signatures and API keys are
cryptography that is taken to work. Logging, metrics, configuration and
error formatting change no state that a property is about. `get_session` (commit
or rollback) is part of every action that commits. Reads (lists, status queries)
return the modelled state.
