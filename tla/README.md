# NanoCrate: a formal model

TLA+ modules, TLC runs and TLAPS proofs for [NanoCrate](../src/README.md), an
e-commerce platform with a Go backend (`backend/`) and a React client
(`frontend/`). The models follow the code, not the documents; where the two
disagree a run shows it (see *Where the documents and the code part*).
Paths below are relative to `src/`.

## The system

| Component | State it keeps | Operations | Interacts with |
|---|---|---|---|
| **Inventory engine** `backend/internal/inventory` | `inventory` (available, reserved), `reservations` (held → committed / released / expired), `stock_ledger` (append-only) | reserve, commit, release; `ReleaseExpired` | called by checkout inside its transactions; a sweeper would call `ReleaseExpired` |
| **Checkout saga** `backend/internal/checkout/service.go` | `orders`, `order_items`, converts `carts` | `POST /checkout`: look the key up, load and authorise the cart, list the lines, transaction (order, reservations, cart conversion), create the intent, store it; `SweepAbandonedPendingOrders` | inventory engine, cart tables, payment provider |
| **Payment webhook** `backend/internal/checkout/webhook.go` | `processed_events`, `outbox`, order status | settle an order as paid, failed or cancelled | called by the provider; inventory engine |
| **Payment provider** `backend/internal/payment` | none here; intents and events live at Stripe (or in the offline provider) | create an intent, verify and normalise an event | checkout; the customer's browser pays with the client secret |
| **Cart service** `backend/internal/cart` | `carts`, `cart_items` | resolve or create, add, update, remove, snapshot | checkout reads, claims and converts the cart |
| **Order history** `backend/internal/order` | none (reads) | `GET /orders` (page and total), `GET /orders/:id` (order and items) | reads what checkout and the webhook write |
| **Catalogue** `backend/internal/catalog` | none (reads) | `GET /products` (page and total in one snapshot), `GET /products/:slug` | the catalogue tables, edited from outside |
| **Authentication** `backend/internal/auth` | the cached key set | `RequireUser`, `RequireRole`, `OptionalUser` | the issuer; every route |
| **API process** `backend/cmd/api`, `platform` | the connection pool, the state of the server | start, serve, drain, close | every handler |
| **Cart cache** `frontend/src/hooks/useCart.ts`, `lib/cart.ts` | the cached cart, snapshots of mutations | optimistic change, rollback, refetch | cart endpoints |
| **Checkout attempt** `hooks/useCheckout.ts` | key and order of the attempt | pay: checkout and confirm, retried | checkout endpoint, or `mocks/store.ts` in its place |
| **Order polling** `hooks/useOrders.ts` | the order, the timeout | poll, give up after 30 s | order history |

### What is hard in it

*Concurrency.* Apart from the pool and the key cache nothing in the process is
shared between requests; all interaction goes through Postgres at READ
COMMITTED. Several operations read
outside their transaction and act inside it (the key lookup, the cart and its
lines, both sweepers' lists), so what they act on may be stale. Inside the
transactions, correctness hangs on conditional `UPDATE`s whose predicate is
checked again after the row lock is granted.

*Failure.* A request can die between the committed order and the stored
intent; a sweep can end in the middle of its list; a line of an order can fail
after others were reserved.

*Delivery.* Webhooks are duplicated, reordered, and may arrive before the
intent they name is stored.

*Time.* A reservation expires after 15 minutes; the payment may succeed later.
No process schedules a sweeper at this commit (`cmd/api/main.go` starts only
the HTTP server; `cmd/worker` does not exist yet), but the sweeps are written,
tested and documented as safe beside everything else.

### What makes each component correct

* Inventory: reserved stock is exactly what held reservations hold; no unit is
  created, lost or sold twice; the journal reconciles; the first outcome of a
  reservation is final; nothing expires early.
* Checkout: one order per user and key, one order per cart, the same answer to
  every retry, stock reserved for what was priced.
* Webhook: each order is settled once and for good, OrderPlaced goes out once,
  no event is swallowed, stock follows the order.
* Provider and customer: what the customer is told about a charge is true.
* Cart: one active cart per user, no add lost, quantities within the cap,
  every edit in the cart of its own session.
* Reading endpoints: pages tile the rows, totals agree with pages as far as the
  code says so, nobody reads another user's order.
* Authentication: the work of a route is done only for those it is for.
* API process: no handler starves, the process ends in time and orderly.
* Web client: no optimistic guess survives in the cache; one logical attempt
  makes one order; the result page is true and does not wait for ever.

## The modules

```
Inventory  <--EXTENDS--  InventoryTx          refines Inventory!Spec
           <--EXTENDS--  Checkout             refines Inventory!Spec and
Purchases  <--INSTANCE-- Checkout             Purchases!PurchasesSpec
CartStore  <--INSTANCE-- Cart                 refines CartStore!StoreSpec
Auth       <--EXTENDS--  Api
Paging     <--EXTENDS--  Catalogue, OrderHistory
CartCache, CheckoutAttempt, OrderPolling      the web client

InventoryProofs, InventoryTxProofs,           theorems, each about the module
CheckoutProofs, CartProofs, ApiProofs         that it EXTENDS
ReadingProofs                                 about Paging, Catalogue, OrderHistory
WebProofs                                     about the web client and MCWeb
MCApiProofs                                   about MCApi
MCInventoryTx, MCCheckout, MCCart,            instances for TLC
MCApi (Api, Catalogue, OrderHistory),
MCWeb (CartCache, CheckoutAttempt, OrderPolling)
```

**Inventory** is the stock engine with one step per database transaction. It
is both a faithful model of `ReserveOne`, `Commit`, `Release` and
`ReleaseExpired`, and the abstract specification that the two other modules
implement. `TryReserveStock`, `MarkReservations`, ... are the queries of
`db/queries/inventory.sql` and keep their names; `Reserve`, `Commit` and
`Release` are the functions of `engine.go` for all the lines of one order that
one transaction treats together. The conditional updates are guards; a
transaction that changes no row rolls back and is no step. `ReleaseExpired`
lists first and settles row by row, so it is four actions with its list,
`expiring`, in between.

**InventoryTx** opens those transactions: sessions execute one statement per
step, an `UPDATE` that matches waits for the row's lock and then looks at the
committed row again, locks last until the session ends, an aborted or
out-of-stock transaction installs nothing, and a circle of waiting sessions
loses one member. `tx[t].image` is what the session has written and nobody else
sees. That a whole transaction is the single step that Inventory says is the
refinement `Spec`, with the committed rows as the mapped variables. The
inserts of the transaction (orders, processed events) are not in it: the unique
indexes they may wait for concern one order only.

**Checkout** adds the saga. A request is a process whose `at` says which call
comes next: `lookup`, `load`, `list`, `place`, `relookup`, `intent`, `save`,
and then `ok` or the error it is answered with. `RequestFails` is any database
or provider error, cancelled context or crash, after any of them. A database
transaction is one step (justified for stock by InventoryTx). `Process` is a
webhook delivery that changes something; duplicate, early and failed deliveries
change nothing and are stuttering steps. The provider and the customer are
external: an intent per order, and events that are never lost but delivered any
number of times in any order. An intent that is cancelled at the provider may
be so before the server has stored it, which is how an event can be early.
Cart edits come at any time, also to a converted cart, as the cart service
does not look at the status again.

**Purchases** is what all of that promises to a buyer, without ids, requests,
intents, events or lists: a purchase is known by its user and key; `Buy` makes
one out of a cart and sets all of its goods aside, `Settle` ends it and sells or
returns what is still set aside together with the announcement, `Lapse` returns
the goods of one line of it. In Checkout an order is mapped to the purchase
`PurchaseOf(o)` and `ImplementsPurchases` says that every behaviour is one of
Purchases. There is no action for a purchase that is settled: it stays as it is.

**Cart** is the cart service. It opens no transaction, so each query of a
request is a step: `Arrive` (what is asked for, the range check, the session), `Resolve`,
`CreateCart`, then `Add`, `FindItem` and `WriteItem`, or `Remove`, and
`Snapshot`. A browser holds a token, which it may gain or lose at any time, and
a cookie, which it takes over from an answer if and when it gets it. Checkout
is there as the statement that claims and converts a cart. **CartStore** is the
other side of the same border: what may happen to the cart tables at all, as
checkout assumes it (`EditCart` in Checkout is `Edit` there). A line that is
added has an id of its own and a removed id does not come back; a request
may name any id, also one of another cart.

**Auth** is the key set of the issuer (`published`, external) and the server's
copy (`jwks`), which the first request that needs it fetches and a refresh
replaces; a token is its signing key, whether its claims are valid, and a role.
**Api** is the process: `starting`, `serving`, `draining`, `closing`, `exited`
or `failed`. Of a handler only its outward steps are kept (`Work`): it waits
for a connection and holds it for a query or transaction, or waits for the
payment provider, which may never answer. `ShutdownReturns`, `GraceElapses` and
`PoolCloses` are the end of `main`.

**Paging** has the arithmetic of both paged endpoints, with the widths of Go's
`int` and `int32` as `IntMax` and `Int32Max` and wrapping around. **Catalogue**
reads page and total in one REPEATABLE READ transaction (`snapshot`), each page
in a transaction of its own, and the detail of a product by two queries outside
any; its clients walk page by page while prices and statuses are edited.
Sorting leaves rows with equal keys in any order. **OrderHistory** opens no
transaction; orders appear when their transaction commits but are listed by the
time it began, so a later one may become visible first.

**CartCache** is what the hooks do with the query cache, with the `await` in
`onMutate` as a step of its own (`BeginOptimistic`, `SnapshotAndSend`). A cart
is two sets of changes: `known`, those an answer of the server had, and
`guess`, those put on top by the client. Requests and answers overlap and are
reordered; the connection may break with the request unserved or served. The
query library is external. **CheckoutAttempt** is `useMockPay` with the
mock's `createOrder` and `confirmMockPayment`: an attempt is one life of
`attemptRef`, whose calls may be lost before or after the server dealt with
them, and which goes on when the page is left. **OrderPolling** is the hook,
its timer and what the result page shows, which is decided by two conditions:
the hook's `IsWaiting` arms the timer, and `View` spins on any order that is not
known to be settled. The query library is external: a fetch is fetching or
paused (offline, at its start or before one of its two retries), a failed one
keeps the data and shows the error over it, and the error stays until a fetch
with data is answered, or one without data starts.

Abstractions: ids are model values; a reservation row is named by its order and
variant (a cart has at most one line per variant); time is the set `overdue` of
reservations past `expires_at`, and the order sweeper may pick any pending order
without an intent, as its caller chooses the age; prices and currency are left
out of checkout, the lines stand for what was priced; the timers of the web
client and of the shutdown may fire whenever they are armed. A definition
marked *Mutant* is not part of its module's specification: it is what the
definition after it would be with a plausible mistake, and `PROJECT.json`
names the property that catches it.

## The runs

| Run | Question | Bounds |
|---|---|---|
| `inventory_tx` | do concurrent transactions, statement by statement, and stale sweeps conserve stock, is an order reserved as a whole, and is a READ COMMITTED transaction as good as one step of Inventory? | two sessions and a sweeper, two orders over the same two variants: opposite lock orders, a three-way circle, a second settlement and an expiry of one row; 2 and 1 units, quantity 1, sweep limit 1, so lists go stale |
| `inventory_tx_live` | does every transaction end? | two sessions, no sweeper |
| `checkout_contention` | who gets the cart and the last unit, and is what comes out a sale as `Purchases` promises? | two users present the cookie of one guest cart under the same raw key; one of them uses the key for a second cart that starts above the line cap; one unit of stock; one edit |
| `checkout_retry` | do order, stock and outbox agree under retries, webhooks and sweeps, and does a payment settle its order? | one user, one key, two requests, two variants; success, one decline and cancellation of each intent; both sweepers |
| `checkout_cancelled`, `_late`, `_declined`, `_duplicate` | one statement of the documents each | as `checkout_retry` |
| `cart` | do overlapping first requests lose anything, does an edit ever hit the wrong cart, and is checkout's view of carts right? | two browsers of one user, three requests that choose among adds up to and above the cap of 2, updates, a removal, a view, an unknown variant and a quantity out of range; two carts, two line ids |
| `cart_guest` | the promise of `Resolve`'s comment | as `cart` |
| `api` | does the process drain in time and starve nobody, and do the reading endpoints show consistent pages? | see below |
| `web` | does the cart cache settle, does an attempt order once, does the spinner end for a browser that comes back online? | two cart changes; two attempts, three keys, three orders, stock 3, carts of 2; one order polled, each fetch paused at its start and before two retries |

`api` and `web` instantiate several modules that share no state. The variable
`part` of `MCApi` and `MCWeb` is chosen at the start and says which of them
moves, so that a behaviour is one of that component and the state spaces add up
instead of multiplying. `api` has one connection for a checkout, a cart request
and a probe, and an admin's ping for the rotation of the keys; three products on
pages of one and two with two edits, so that prices tie, swap, and a product
leaves or enters the list between two pages; four orders of two users, limits
0, 2 and 3 against a maximum of 2. `IntMax`, `Int32Max` and `MaxOffset` are 32,
16 and 10: small enough for the clamps to act, with the same order between them
as in Go.

The bounds are named constants: `MaxLineQty`, `MaxQty`, `SweepLimit`, `LineCap`,
`MaxDeclines`, `MaxEdits`, `MaxCatalogueEdits`, `MaxPrice`, `MaxRotations`,
`MaxAttempts`, `MaxKeys`, `MaxStoreOrders`, `MaxRetries` (the code's own), and the sizes of the sets. Two
actors are enough for most races in the code, since each of its guards relates
one actor's stale read to one other writer; three requests are needed where a
key and a cart are contended at the same time, and four orders where one appears
between two pages. What two cart changes or two attempts show, the theorems
about these modules extend to any number. Orders, sessions, carts and line ids
are interchangeable and are symmetry sets in safety runs; liveness runs use
none. `CHECK_DEADLOCK FALSE` is set since a shop with every order settled, a
process that has ended and a page that was left have nothing to do.

What the properties say is in the comment before each. Those that need the
longest histories to break: `ReservedIsHeld` (a webhook, a cancellation and a
stale sweep of one row), `AnswersAgree` (two users, a shared key, a lost race
and a second lookup), `StockFollowsOrder` (every settlement path of an order
with two lines), `OutboxOncePerPaid` (reordered events after an expiry),
`QuietIsServers` (a rollback to a snapshot with another change's guess in it),
`WalkMissesNothing` (an order that commits between two pages).

Some say less than one might wish, because the code does less.
`WalkMissesNothing` is about limits up to the maximum: the answer repeats the
limit the client asked for (order/handler.go:45), and a client that counts pages
with a larger one stops early. `PagesShowEachOnce` is about a catalogue that did
not change and whose products have different creation times: rows that tie in
the last key may swap between two pages. `QuietIsServers` promises the server's
current cart only if no two requests raced: answers that overtake each other
leave an older cart in the cache until the next refetch. `OneOrderPerAttempt`
says nothing of stock: the mock takes it again when an order whose confirmation
was answered into the void is confirmed once more (mocks/store.ts:252).

### Fairness

*Webhooks.* `Redelivery` is weak fairness of the processing of each event that
was raised: the gateway delivers again until it is answered 2xx, which the code
relies on (webhook.go:19-22, handler.go:122-127), and a delivery that can be
processed is at some time processed. Nothing else in `FairCheckoutSpec` is fair:
no sweep is scheduled, no customer has to pay, no request has to survive.
Therefore `PaymentSettles` speaks of orders whose intent was stored.

*Sessions.* `FairTxSpec` has strong fairness of the next statement of each open
transaction. A session that waits for a row is enabled only when the row is
free; Postgres queues the waiters, so new sessions cannot overtake it for ever.
Weak fairness is too weak for that and TLC shows the starvation. That some
member of a circle fails is the deadlock detector; `Abort` itself is not fair.

*Process.* `ApiFairness` has strong fairness of `Acquire` for each handler, since
pgxpool serves its waiters in order, and weak fairness of the end of a query,
of the timeout and the steps of `main` after a signal. The payment provider,
clients and key fetches are never fair: `ShutdownEnds` and `PoolServesAll` hold although a provider call hangs.

*Polling.* `PollingFairness` is weak fairness of the browser's timer. No answer
has to come, and a browser that is offline may stay so: that `SpinnerGivesUp`
asks for browsers that come back is its premise and no fairness. In the other
parts of `MCWeb` the page shows its outcome and the timer is not armed, so the
condition asks for nothing there.

## Where the documents and the code part

Five runs refute one statement of the repository each; the finding in
`PROJECT.json` quotes it.

* `CancelledIsNeverCharged`: an order without a stored intent may still have
  one at the provider, and a replay attaches one to a cancelled order; the
  customer of a cancelled order can pay.
* `PaidIsCommitted`: a late payment makes an order paid whose stock is back on
  sale. The code settles what is still held and does not compensate.
* `FailedIsNeverCharged`: a decline is final for the order and not for the
  intent; the second card is charged for a failed order.
* `DuplicateIsReplayed`: a duplicate request may be refused because the first
  one consumed the cart.
* `GuestKeepsCart`: a failed lookup of a guest's cart is taken for a missing
  one, and the new cart's cookie replaces the old.

A sixth statement holds with a condition, and the run `web` checks it with that
condition. `useOrder`'s comment (useOrders.ts:24-30) has a fallback "instead of
spinning forever". An order the page has not got counts as pending for the page
(CheckoutResultPage.tsx:169-171) but not for the hook while its fetch is paused
(useOrders.ts:46), so a browser that is offline on the first fetch shows the
spinner with no timer armed, and one that had given up shows it again. It ends
when the browser comes back (`SpinnerGivesUp`), and not before.

## What is proved

For all values of the constants that their modules' assumptions allow: any
numbers of orders, variants, users, carts, requests, sweepers, handlers,
changes, attempts, orders read and products listed, any stock and any caps.

**The stock engine** (`InventoryProofs`, from `ConstantsAssumption`).
`TypeCorrect` needs no other invariant: `available` and `reserved` only shrink
under the predicate of a conditional update. `StockIsConserved`,
`ReservedCountsHeldRows` and `JournalReconciles` are one inductive invariant
with the types, `Conservation`, which is `Booked(v)` for every variant. The
quantities are cardinalities of sets of *units*, pairs of an order and a number
up to the reserved quantity, so that sums over orders become counting. A step
moves the row of one order for each variant (`RowMoves`); the lemmas
`UnitsSplit`, `UnitsChange` and `HoldersChange` say how the counts follow one
changed row, `RowStep` what that does to `Booked`. `NoConservationError`: the
reserved count covers each held reservation, so `ErrStockConservation`
(engine.go:76, 108) is dead code. `ExpiryIsLate` adds that whatever is on a
sweeper's list is overdue. `OutcomeIsFinal` is an action property.

**Transactions** (`InventoryTxProofs`). `TransactionsAreAtomic` is the
refinement of Inventory by the statements of concurrent sessions. Its invariant
`TxInv` describes each session by itself and any two of them: the lines it has
been at, is at and has before it are distinct (`Shape`); the image of a row it
has updated is what Inventory's operation makes of the committed row, and a
reservation row it has marked is still held (`Sound`); a sweeper treats one row
(`Role`); no two sessions have an image or a mark of one row (`Apart`). The step
that matters is the commit, which installs all images at once: `Sound` says that
this is Inventory's step, and `Apart` that no other session's images become
wrong by it. `ReservationsAreWhole`: the lines that have an image and those
ahead are together the basket, none has a row yet, and only a commit writes rows
(`CommitsWriteRows`). `TransactionsConserveStock` inherits the engine's theorems.
`OneLineNeverDeadlocks` is about any set of sessions that wait for each other:
with one line each they hold at most a reservation row that they have marked, so
one that is waited for waits itself for a stock row, which nobody holds.
`StatementsFindTheirUnits`: a row that a transaction has marked stays covered by
the committed count until its stock is updated. With it, `OpenTransactionsGoOn`
is what `TransactionsEnd` rests on: a transaction that cannot go on is blocked by
an open one, so either the next statement of somebody returns or all that are
open wait in circles. For transactions of one line each there are no circles,
hence `SweepersNeedNoVictim`.

**The saga** (`CheckoutProofs`). `CheckoutImplementsInventory`: every step is a
step of the engine or none, so `SagaConservesStock` follows from the theorems
above. For the others every step is first reduced to its effect on orders,
rows and outbox (lemma `Effects`): it settles one order (`Settles`), expires
rows (`Expires`), places an order, edits a cart, or leaves all of them alone
(`Idle`). `FirstSettlementWins`, `StockFollows`, `OutboxIsExactlyOnce`,
`PricedIsReserved` and `CartIsBoughtOnce` are inductive with the types.
`RetriesAgree` and `EventsAreNotSwallowed` need `Keyed`: one order per user and
key, which the insert checks; a request between its calls knows an order of its
own key; an intent is stored for placed orders only.

*Where the refuted statements end.* `PaidIsCommitted` fails, and `SettledGoods`
says by how much: every line of a settled order is sold to a paid order and given
back by an unpaid one in the quantity ordered, unless the sweeper was there first
and the deadline had passed. It puts `StockFollows`, `PricedIsReserved` and
`ExpiryIsLate` together with the fact that no row exists without its order
(`EmptyRows`). `DuplicateIsReplayed` fails, yet `ConflictsAreTruthful`: a request
is refused with "cart is not active" only if an order bought that cart. A cart
that a request was admitted to may be claimed by it until it is sold (`MayBuy`),
and a converted cart is a sold one.

*What `PaymentSettles` rests on.* `NoPaymentIsStranded`: while the intent of an
unsettled order has ended and is stored, the event that settles it is raised
(`EndIsRaised`) and not recorded as processed, the order is pending, and the
counters cover each row that has to move. No guard of the webhook's transaction
can refuse the event, whatever comes in between; only the redelivery is left.

*The buyer's view.* `CheckoutImplementsPurchases` puts these together: the effect
of a step is one step of Purchases or none (`PlaceBuys`, `SettlesOnce`,
`ExpiryLapses`). It needs that a request in front of its transaction listed no
line above the cap (`Listed`), that user and key tell the orders apart, so that
no purchase hides another (`OneBecomes`), and that a settled order holds nothing
that could still change (`StockFollowsOrder`). What the abstract specification is
worth is proved of it and inherited: `PurchasesKeepThePromise` and
`BuyersGetWholePurchases` (status, goods and announcement of a purchase fit
together, and neither a key nor a cart has two), and `NothingBoughtIsLost` (a
purchase keeps its key, cart and lines, its outcome, and goods that were sold or
went back). `CheckoutAndCartsAgree` shows that the saga does to the cart tables
what CartStore allows, which the cart service implements from the other side.

**The cart service** (`CartProofs`). Each query acts on what an earlier one saw.
That is safe because of three facts nobody can undo, which make the invariant
`CartInv` inductive: a cart that exists stays and an owner is for ever (`Homes`,
`Named`), a line stays in its cart until it is deleted and its id is not used
again (`Targets`), and a cart has one line per variant (`OneLine`).
`CartTypeCorrect`, `CartIsUnique`, `CookieIsNobodys`, `LinesChangeAtHome` and
the refinement `CartImplementsStore` follow. `AddsAddUp` counts units, pairs of a
request and a number up to what it asks for: each step either adds to a line the
units of the one request that it makes count, or loosens a bound (`AddCases`);
the cap never bites, since the statement fails instead. It also needs that only
finitely many requests have arrived.

**The process** (`ApiProofs`). `ExitIsOrderly`, with the fact that before the
time is up `main` closes the pool only when no request is under way.
`PoolIsBounded`: the types, with the bound on the connections that are out and
the fact that a handler that waits has the call it waits for before it.
`OnlyQueriesHold` says that holding a connection and running a query are the same
thing. It carries what two liveness properties rest on:
`NobodyWaitsForTheProvider` (if no connection is free, one is with a query that
can end; `PoolServesAll`) and `PoolDrains` (a closing pool only loses
connections; `ShutdownEnds`). `WorkNeedsItsUser` follows a request from its
middleware to its end: the keys it was verified with may be withdrawn, but nobody
gets to the work of a route that is not for them.

**The web client** (`WebProofs`). `CacheSettles` from: a guess in the cache
is owed an answer or a refetch (`GuessIsOwed`), a change is answered once
(`AnsweredOnce`), and without a race whoever is under way is alone (`Alone`).
`AttemptsOrderOnce` from: a key is known by the attempt that drew it
(`KeysKnown`), each has one order (`OneOrderPerKey`), an attempt's order has its
key (`OrdersKnown`), and keys and orders are drawn in sequence, so that the next
one is new (`InSequence`). `ThePageIsTrue` and `TheOrderOnlyAdvances`: one fetch
is under way at a time, so an answer is never older than what it replaces, and
without data there is a fetch or an error (`PollingInv`). The first says that
under the spinner the timer is armed, or the first fetch is paused, which is
what `SpinnerGivesUp` rests on.

**Instances that join components.** `WebIsItsParts` and `ApiIsItsParts`
(`MCApiProofs`): each behaviour of `MCWeb` and `MCApi` is one of every component
in it, so that the runs and the theorems speak of the same behaviours;
`WebTypeCorrect` and `PartsTypeCorrect` follow from the components' own types.

**Reading** (`ReadingProofs`). `OffsetIsExact`, `PagesTile` and
`LastPageIsLast` are facts about the operators: up to the bound no product
wraps, successive pages neither overlap nor leave a gap, and a client that
turns pages while there is a next one ends on the last. The first needs that the
product fits into `int`: for a page near 2^63 it wraps before it is bounded.

*The order history.* `TotalAlwaysCovers`, `WalkIsComplete` and `DetailAlwaysWhole`
follow from `HistoryInv`: orders are numbered without repetition (`Numbered`);
the rows of a page lie within its window, of which an order that appears later
can only push them down (`PageCovered`, `PageShown`); whatever a client is owed
and has not seen is still behind the pages it has turned (`Walk`); an order that
was found had its items from the beginning (`Found`). An order is found at its
`Position`, the number of orders in front of it, so that the walk becomes
arithmetic on positions. `WalkIsComplete` assumes that there are at most
`MaxOffset` orders: beyond that the offset is clamped and the walk repeats a
page, in the code as in the model.

*The catalogue.* `PageAgreesWithTotal` and `EachShownOnce` follow from
`CatalogueInv`: a page is as full as its window of the snapshot (`Fits`), its
number is one the products can fill (`Bounded`), and what a client of an
unchanged catalogue has seen are the first rows of all the matching products in
the order asked for (`Prefix`). Two sorted lists without ties are the same list,
which is why the pages of two transactions fit together. `EachShownOnce` assumes
at most `MaxOffset` products.

Every invariant, action property and refinement that a passing run checks is
stated by a theorem. Only model-checked: liveness (`PaymentSettles`,
`TransactionsEnd`, `PoolServesAll`, `ShutdownEnds`, `SpinnerGivesUp`), since
reasoning from fairness and ENABLED is out of the prover's reach. The safety half
of each is proved, as said above. The five refuted statements have no theorem, of
course.

## What is not modelled

* Configuration, logging, metrics, request ids, rendering and URL parameters keep
  no state that a property here is about. The paid-orders counter is
  incremented inside the transaction (webhook.go:128) and may overcount, which
  is listed as a hazard.
* The subtotal is a product and a sum of `int64`s over lines of at most 999
  units. Stripe's refusal of a key that another order used is one of the
  failures of a request. The snapshot of a cart, the search term and the columns
  of the lists are data.
* `useCreatePaymentIntent` keeps its key as `useMockPay` does; the panel around
  it is driven by Stripe's library. A retry after an error does not store the
  client secret it gets (StripePaymentPanel.tsx:78): the state of the panel is
  not modelled.
* Of the mock backend only orders and confirmations; its catalogue and single
  cart lines are fixtures. The API client is stateless.
* How soon the key library refreshes its copy, and with it how long a key that
  the issuer withdrew is still trusted, is not the repository's code and no
  property speaks of it; the keys change in `Auth` so that the requests meet it.
* No property speaks of the two carts that overlapping first requests of a guest
  leave behind (cart/service.go:47): nothing in the repository promises one.

## Plan

The core is modelled and proved; what could come next, in this order:

1. A model of `useCreatePaymentIntent` and its panel, with the client secret that
   a retry does not store.
2. The stock of the mock backend beside `OneOrderPerAttempt`.
3. The worker that is to run the sweepers, once it exists: with its schedule as
   fairness, that every abandoned order is cancelled and its stock comes back.
