----------------------------- MODULE Checkout ------------------------------
(***************************************************************************)
(* The checkout saga (internal/checkout): POST /checkout requests, payment *)
(* webhooks and the two sweepers, over the stock engine of Inventory.      *)
(*                                                                         *)
(* A request is a process.  Each of its reads outside the transaction, the *)
(* transaction itself, the call to the payment provider and the storing of *)
(* the intent are separate steps, so that any other request, webhook or    *)
(* sweep may run in between, and the process may die after any of them.    *)
(* A database transaction is one step.                                     *)
(*                                                                         *)
(* The provider is external: it keeps one intent per order (the request's  *)
(* key makes creation idempotent), tells the server what happened to it by *)
(* events, and delivers every event any number of times in any order.      *)
(***************************************************************************)
EXTENDS Inventory

CONSTANTS
  Users, Carts, Keys,  \* user ids, cart ids, Idempotency-Key values
  Requests,            \* POST /checkout calls
  Attempt,             \* what each request asks for
  CartOwner,           \* user_id of each cart, Guest for NULL
  CartLines,           \* what each cart holds before any edit
  LineCap,             \* maxLineQty of the checkout service
  MaxDeclines,         \* bound on the declined payments of an order
  MaxEdits,            \* bound on the cart edits in a behaviour
  Guest, NoCart, NoKey, NoOrder  \* no user, cart, key, order

ASSUME CheckoutAssumption ==
  /\ Attempt \in [Requests -> [user : Users, cart : Carts, key : Keys,
                               cookie : Carts \cup {NoCart}]]
  /\ CartOwner \in [Carts -> Users \cup {Guest}]
  /\ CartLines \in [Carts -> Basket]
  /\ LineCap \in 1..MaxQty
  /\ MaxDeclines \in Nat
  /\ MaxEdits \in Nat
  /\ Guest \notin Users
  /\ NoCart \notin Carts
  /\ NoKey \notin Keys
  /\ NoOrder \notin Orders

VARIABLES
  cart,       \* the carts table with its items
  edits,      \* how many cart edits happened
  order,      \* the orders table, status "none" for no row
  request,    \* where each checkout request stands
  intent,     \* the provider's intent of each order
  events,     \* the events the provider has raised
  processed,  \* processed_events
  outbox,     \* OrderPlaced rows per order
  abandoned   \* the order sweeper's list, not yet dealt with

cartVars == <<cart, edits>>
gatewayVars == <<intent, events>>
webhookVars == <<processed, outbox>>
checkoutVars == <<cart, edits, order, request, intent, events, processed, outbox, abandoned>>
vars == <<inventoryVars, checkoutVars>>

Terminal == {"paid", "failed", "cancelled"}
Refusal == {"notFound", "notActive", "empty", "tooLarge", "outOfStock", "error"}
Event == [order : Orders, type : {"succeeded", "failed", "canceled"}, n : 0..MaxDeclines]

NoRow == [status |-> "none", user |-> Guest, key |-> NoKey, cart |-> NoCart,
          lines |-> Nothing, intent |-> FALSE]

Placed == {o \in Orders : order[o].status # "none"}

(* Mutant: the lookup and the unique index forget the user. *)
DuplicatesOfAnyUser(r) == {o \in Placed : order[o].key = Attempt[r].key}

(* GetOrderByIdempotencyKey: the orders of the request's user and key. *)
Duplicates(r) ==
  {o \in Placed : order[o].user = Attempt[r].user /\ order[o].key = Attempt[r].key}

(* GetOrderByPaymentIntent finds the order. *)
IntentStored(o) == order[o].intent

----------------------------------------------------------------------------
(* Checkout *)

GoTo(r, step) == request' = [request EXCEPT ![r].at = step]

(* replay: the stored secret is the answer; without one, attach an intent. *)
Replay(r, o) ==
  request' = [request EXCEPT
    ![r] = [@ EXCEPT !.at = IF order[o].intent THEN "ok" ELSE "intent", !.order = o]]

(* The idempotency lookup, outside any transaction. *)
Lookup(r) ==
  /\ request[r].at = "lookup"
  /\ IF Duplicates(r) = {} THEN GoTo(r, "load") ELSE \E o \in Duplicates(r) : Replay(r, o)
  /\ UNCHANGED <<inventoryVars, cartVars, order, gatewayVars, webhookVars, abandoned>>

Authorized(r, c) ==
  \/ c.user = Attempt[r].user
  \/ c.user = Guest /\ Attempt[r].cookie = Attempt[r].cart

(* GetCart and ListCartItemsDetailed, by the cart id of the request. *)
GetCart(r) == cart[Attempt[r].cart]
ListCartItems(r) == GetCart(r).lines

(* The cart is loaded; the ownership check and the status check. *)
LoadCart(r) ==
  LET c == GetCart(r) IN
  /\ request[r].at = "load"
  /\ \/ ~Authorized(r, c) /\ GoTo(r, "notFound")
     \/ Authorized(r, c) /\ c.status # "active" /\ GoTo(r, "notActive")
     \/ Authorized(r, c) /\ c.status = "active" /\ GoTo(r, "list")
  /\ UNCHANGED <<inventoryVars, cartVars, order, gatewayVars, webhookVars, abandoned>>

(* The lines are listed: the order is priced and reserved from this copy. *)
ListLines(r) ==
  LET lines == ListCartItems(r) IN
  /\ request[r].at = "list"
  /\ \/ lines = Nothing /\ GoTo(r, "empty")
     \/ (\E v \in Variants : lines[v] > LineCap) /\ GoTo(r, "tooLarge")
     \/ /\ lines # Nothing /\ \A v \in Variants : lines[v] <= LineCap
        /\ request' = [request EXCEPT ![r] = [@ EXCEPT !.at = "place", !.lines = lines]]
  /\ UNCHANGED <<inventoryVars, cartVars, order, gatewayVars, webhookVars, abandoned>>

(* Mutant: the cart is converted by id alone. *)
ClaimableAlways(r) == Attempt[r].cart \in Carts

(* ClaimAndConvertCart matches the row. *)
Claimable(r) ==
  GetCart(r).status = "active" /\ GetCart(r).user \in {Guest, Attempt[r].user}

(* Mutant: there is no unique index on user and key. *)
CreateOrderUnindexed(o, r) ==
  order' = [order EXCEPT ![o] =
    [status |-> "pending", user |-> Attempt[r].user, key |-> Attempt[r].key,
     cart |-> Attempt[r].cart, lines |-> request[r].lines, intent |-> FALSE]]

(* CreateOrder and CreateOrderItem, under the unique index on user and key. *)
CreateOrder(o, r) ==
  /\ Duplicates(r) = {}
  /\ order' = [order EXCEPT ![o] =
       [status |-> "pending", user |-> Attempt[r].user, key |-> Attempt[r].key,
        cart |-> Attempt[r].cart, lines |-> request[r].lines, intent |-> FALSE]]

ClaimAndConvertCart(r) ==
  /\ Claimable(r)
  /\ cart' = [cart EXCEPT ![Attempt[r].cart] =
       [@ EXCEPT !.user = Attempt[r].user, !.status = "converted"]]

(* Mutant: the transaction reserves the lines the cart has by then. *)
PlaceOrderRereading(r, o) ==
  /\ request[r].at = "place"
  /\ o \notin Placed
  /\ CreateOrder(o, r)
  /\ ReserveInTx(o, ListCartItems(r))
  /\ ClaimAndConvertCart(r)
  /\ request' = [request EXCEPT ![r] = [@ EXCEPT !.at = "intent", !.order = o]]
  /\ UNCHANGED <<edits, gatewayVars, webhookVars, abandoned>>

(* reserveAndCreateOrder, the transaction: create the order, reserve every
   line, claim and convert the cart, or roll all of it back. *)
PlaceOrder(r, o) ==
  /\ request[r].at = "place"
  /\ o \notin Placed
  /\ CreateOrder(o, r)
  /\ ReserveInTx(o, request[r].lines)
  /\ ClaimAndConvertCart(r)
  /\ request' = [request EXCEPT ![r] = [@ EXCEPT !.at = "intent", !.order = o]]
  /\ UNCHANGED <<edits, gatewayVars, webhookVars, abandoned>>

InStock(lines) == \A v \in Variants : available[v] >= lines[v]

(* The same transaction rolled back: unique (user, key), then a line out of
   stock, then the cart already consumed. *)
RefuseOrder(r) ==
  /\ request[r].at = "place"
  /\ \/ Duplicates(r) # {} /\ GoTo(r, "relookup")
     \/ Duplicates(r) = {} /\ ~InStock(request[r].lines) /\ GoTo(r, "outOfStock")
     \/ /\ Duplicates(r) = {} /\ InStock(request[r].lines) /\ ~Claimable(r)
        /\ GoTo(r, "notActive")
  /\ UNCHANGED <<inventoryVars, cartVars, order, gatewayVars, webhookVars, abandoned>>

(* errDuplicateOrder: the other request's order is the answer. *)
Relookup(r) ==
  /\ request[r].at = "relookup"
  /\ \E o \in Duplicates(r) : Replay(r, o)
  /\ UNCHANGED <<inventoryVars, cartVars, order, gatewayVars, webhookVars, abandoned>>

(* provider.CreatePaymentIntent: idempotent, it returns the order's intent
   whatever has become of it.  FakeProvider names the intent after the order;
   Stripe goes by the request's key and refuses one that another order used,
   which is a failure of the request. *)
CreateIntent(r) ==
  LET o == request[r].order IN
  /\ request[r].at = "intent"
  /\ intent' = [intent EXCEPT ![o] = IF @ = "none" THEN "open" ELSE @]
  /\ GoTo(r, "save")
  /\ UNCHANGED <<inventoryVars, cartVars, order, events, webhookVars, abandoned>>

(* By order id, whatever the order's status. *)
SetOrderPaymentIntent(o) == order' = [order EXCEPT ![o].intent = TRUE]

SaveIntent(r) ==
  /\ request[r].at = "save"
  /\ SetOrderPaymentIntent(request[r].order)
  /\ GoTo(r, "ok")
  /\ UNCHANGED <<inventoryVars, cartVars, gatewayVars, webhookVars, abandoned>>

(* A database or provider error, a cancelled context or a crash: what was
   committed stays, the client gets no order. *)
RequestFails(r) ==
  /\ request[r].at \notin Refusal \cup {"ok"}
  /\ GoTo(r, "error")
  /\ UNCHANGED <<inventoryVars, cartVars, order, gatewayVars, webhookVars, abandoned>>

RequestStep(r) ==
  \/ Lookup(r) \/ LoadCart(r) \/ ListLines(r)
  \/ (\E o \in Orders : PlaceOrder(r, o)) \/ RefuseOrder(r) \/ Relookup(r)
  \/ CreateIntent(r) \/ SaveIntent(r) \/ RequestFails(r)

(* The cart service changes a line.  It resolves the cart before and does not
   look at its status again, so the cart may have been converted since. *)
EditCart(c, v, q) ==
  /\ edits < MaxEdits
  /\ q # cart[c].lines[v]
  /\ cart' = [cart EXCEPT ![c].lines[v] = q]
  /\ edits' = edits + 1
  /\ UNCHANGED <<inventoryVars, order, request, gatewayVars, webhookVars, abandoned>>

----------------------------------------------------------------------------
(* The payment provider and the customer (external) *)

(* Somebody got the client secret of order o. *)
SecretKnown(o) == \E r \in Requests : request[r].at = "ok" /\ request[r].order = o

Raise(o, type, n) == events' = events \cup {[order |-> o, type |-> type, n |-> n]}

PaymentSucceeds(o) ==
  /\ SecretKnown(o) /\ intent[o] = "open"
  /\ intent' = [intent EXCEPT ![o] = "succeeded"]
  /\ Raise(o, "succeeded", 0)
  /\ UNCHANGED <<inventoryVars, cartVars, order, request, webhookVars, abandoned>>

(* A declined card: the intent stays open for another try. *)
PaymentDeclined(o) ==
  /\ SecretKnown(o) /\ intent[o] = "open"
  /\ \E n \in 1..MaxDeclines :
       /\ Cardinality({e \in events : e.order = o /\ e.type = "failed"}) = n - 1
       /\ Raise(o, "failed", n)
  /\ UNCHANGED <<inventoryVars, cartVars, order, request, intent, webhookVars, abandoned>>

(* The provider gives the intent up, possibly before the server stored it. *)
IntentCanceled(o) ==
  /\ intent[o] = "open"
  /\ intent' = [intent EXCEPT ![o] = "canceled"]
  /\ Raise(o, "canceled", 0)
  /\ UNCHANGED <<inventoryVars, cartVars, order, request, webhookVars, abandoned>>

----------------------------------------------------------------------------
(* Webhook *)

(* Mutant: unpaid orders only have their rows marked. *)
TransitionRowsOnly(o, commit) ==
  LET held == {v \in Variants : Held(<<o, v>>)} IN
  IF held = {} THEN UNCHANGED inventoryVars
  ELSE IF commit THEN CommitInTx(o, held)
  ELSE /\ MarkReservations(o, held, "released")
       /\ UNCHANGED <<available, reserved, ledger, sweepVars>>

(* transitionReservations: every line of the order that is still held. *)
TransitionReservations(o, commit) ==
  LET held == {v \in Variants : Held(<<o, v>>)} IN
  IF held = {} THEN UNCHANGED inventoryVars
  ELSE IF commit THEN CommitInTx(o, held) ELSE ReleaseInTx(o, held)

(* Mutant: the status is set by order id alone. *)
SetStatusUnguarded(o, status) == order' = [order EXCEPT ![o].status = status]

(* MarkOrderPaid and MarkOrderFailed: pending orders only. *)
SetStatus(o, status) ==
  order' = IF order[o].status = "pending"
             THEN [order EXCEPT ![o].status = status] ELSE order

InsertOutbox(o) == outbox' = [outbox EXCEPT ![o] = @ + 1]

(* Mutant: the number of rows MarkOrderPaid changed is not looked at. *)
SettlePaidUnconditionally(o) ==
  /\ TransitionReservations(o, TRUE)
  /\ SetStatus(o, "paid")
  /\ InsertOutbox(o)

SettlePaid(o) ==
  /\ TransitionReservations(o, TRUE)
  /\ SetStatus(o, "paid")
  /\ IF order[o].status = "pending" THEN InsertOutbox(o) ELSE UNCHANGED outbox

(* Mutant: the stock of an unpaid order is left to its expiry. *)
SettleUnpaidKeepingStock(o, status) ==
  /\ SetStatus(o, status)
  /\ UNCHANGED <<inventoryVars, outbox>>

SettleUnpaid(o, status) ==
  /\ TransitionReservations(o, FALSE)
  /\ SetStatus(o, status)
  /\ UNCHANGED outbox

ApplyEvent(e) ==
  \/ e.type = "succeeded" /\ SettlePaid(e.order)
  \/ e.type = "failed" /\ SettleUnpaid(e.order, "failed")
  \/ e.type = "canceled" /\ SettleUnpaid(e.order, "cancelled")

(* ON CONFLICT DO NOTHING: no row means that the event was applied before. *)
InsertProcessedEvent(e) ==
  /\ e \notin processed
  /\ processed' = processed \cup {e}

(* Mutant: the event is recorded before the order is looked for. *)
ProcessRecordingFirst(e) ==
  /\ InsertProcessedEvent(e)
  /\ IF IntentStored(e.order) THEN ApplyEvent(e)
     ELSE UNCHANGED <<inventoryVars, order, outbox>>
  /\ UNCHANGED <<cartVars, request, gatewayVars, abandoned>>

(* A delivery that does something.  Before the intent is stored the delivery
   is answered 503 and leaves nothing behind; a processed event is answered
   200 and changes nothing; a delivery that fails rolls back.  All of these
   are stuttering steps, and the event can be delivered again. *)
Process(e) ==
  /\ IntentStored(e.order)
  /\ InsertProcessedEvent(e)
  /\ ApplyEvent(e)
  /\ UNCHANGED <<cartVars, request, gatewayVars, abandoned>>

----------------------------------------------------------------------------
(* SweepAbandonedPendingOrders *)

(* ListAbandonedPendingOrders: pending orders without an intent.  The caller
   chooses the age, so any of them may be old enough. *)
Abandonable == {o \in Orders : order[o].status = "pending" /\ ~IntentStored(o)}

ListAbandoned ==
  /\ abandoned = {}
  /\ \E batch \in SUBSET Abandonable : batch # {} /\ abandoned' = batch
  /\ UNCHANGED <<inventoryVars, cartVars, order, request, gatewayVars, webhookVars>>

(* cancelAbandoned, the transaction, for a listed order still pending. *)
CancelAbandoned(o) ==
  /\ o \in abandoned
  /\ order[o].status = "pending"
  /\ TransitionReservations(o, FALSE)
  /\ SetStatus(o, "cancelled")
  /\ abandoned' = abandoned \ {o}
  /\ UNCHANGED <<cartVars, request, gatewayVars, webhookVars>>

(* errOrderNotCancelled: settled since it was listed; rolled back. *)
SkipAbandoned(o) ==
  /\ o \in abandoned
  /\ order[o].status # "pending"
  /\ abandoned' = abandoned \ {o}
  /\ UNCHANGED <<inventoryVars, cartVars, order, request, gatewayVars, webhookVars>>

OrderSweepFails ==
  /\ abandoned # {}
  /\ abandoned' = {}
  /\ UNCHANGED <<inventoryVars, cartVars, order, request, gatewayVars, webhookVars>>

----------------------------------------------------------------------------
CheckoutInit ==
  /\ Init
  /\ cart = [c \in Carts |->
       [user |-> CartOwner[c], status |-> "active", lines |-> CartLines[c]]]
  /\ edits = 0
  /\ order = [o \in Orders |-> NoRow]
  /\ request = [r \in Requests |-> [at |-> "lookup", lines |-> Nothing, order |-> NoOrder]]
  /\ intent = [o \in Orders |-> "none"]
  /\ events = {}
  /\ processed = {}
  /\ outbox = [o \in Orders |-> 0]
  /\ abandoned = {}

Provider == \E o \in Orders : PaymentSucceeds(o) \/ PaymentDeclined(o) \/ IntentCanceled(o)

Webhook == \E e \in events : Process(e)

OrderSweep ==
  \/ ListAbandoned
  \/ \E o \in Orders : CancelAbandoned(o) \/ SkipAbandoned(o)
  \/ OrderSweepFails

(* The clock and ReleaseExpired. *)
ReservationSweep ==
  /\ \/ \E l \in Lines : DeadlinePasses(l)
     \/ \E s \in Sweepers : SweepStep(s)
  /\ UNCHANGED checkoutVars

CheckoutNext ==
  \/ \E r \in Requests : RequestStep(r)
  \/ \E c \in Carts, v \in Variants, q \in 0..MaxQty : EditCart(c, v, q)
  \/ Provider
  \/ Webhook
  \/ OrderSweep
  \/ ReservationSweep

CheckoutSpec == CheckoutInit /\ [][CheckoutNext]_vars

(* The provider redelivers an event until it is answered 200. *)
Redelivery == \A e \in Event : WF_vars(e \in events /\ Process(e))

FairCheckoutSpec == CheckoutSpec /\ Redelivery

----------------------------------------------------------------------------
(* Properties *)

CheckoutTypeOK ==
  /\ TypeOK
  /\ cart \in [Carts -> [user : Users \cup {Guest}, status : {"active", "converted"},
                         lines : Basket]]
  /\ edits \in 0..MaxEdits
  /\ order \in [Orders -> [status : {"none", "pending"} \cup Terminal,
                           user : Users \cup {Guest}, key : Keys \cup {NoKey},
                           cart : Carts \cup {NoCart}, lines : Basket, intent : BOOLEAN]]
  /\ request \in [Requests -> [at : {"lookup", "load", "list", "place", "relookup",
                                     "intent", "save", "ok"} \cup Refusal,
                               lines : Basket, order : Orders \cup {NoOrder}]]
  /\ intent \in [Orders -> {"none", "open", "succeeded", "canceled"}]
  /\ events \subseteq Event
  /\ processed \subseteq events
  /\ outbox \in [Orders -> Nat]
  /\ abandoned \subseteq Orders

(* A cart is bought at most once, whatever keys, users and retries compete
   for it, and it then belongs to the buyer (service.go:190-201, B2 and B4). *)
CartBoughtOnce ==
  \A c \in Carts :
    /\ cart[c].status = "converted" <=> \E o \in Placed : order[o].cart = c
    /\ \A o, p \in Placed : order[o].cart = c /\ order[p].cart = c => o = p
    /\ \A o \in Placed : order[o].cart = c => cart[c].user = order[o].user

(* All requests of one user with one key that are answered with an order are
   answered with the same order, the user's own, and it can be paid
   (service.go:90-91, 148-152, 315-320). *)
AnswersAgree ==
  \A r, s \in Requests :
    /\ request[r].at = "ok" =>
         LET mine == order[request[r].order] IN
         mine.user = Attempt[r].user /\ mine.key = Attempt[r].key /\ mine.intent
    /\ (/\ request[r].at = "ok" /\ request[s].at = "ok"
        /\ Attempt[r].user = Attempt[s].user /\ Attempt[r].key = Attempt[s].key)
         => request[r].order = request[s].order

(* What is reserved for an order is what it was priced from, although the
   cart may change between the listing and the transaction. *)
ReservedAsOrdered ==
  \A o \in Placed, v \in Variants : reservation[<<o, v>>].qty = order[o].lines[v]

(* Stock is held for pending orders only, sold to paid orders only and given
   back for unpaid ones only: no settlement, cancellation or expiry leaves a
   line behind, and none undoes another. *)
StockFollowsOrder ==
  \A l \in Lines :
    /\ Held(l) => order[l[1]].status = "pending"
    /\ reservation[l].status = "committed" => order[l[1]].status = "paid"
    /\ reservation[l].status = "released" => order[l[1]].status \in {"failed", "cancelled"}

(* OrderPlaced goes out exactly once for a paid order and never for another,
   however often its events are delivered. *)
OutboxOncePerPaid ==
  \A o \in Orders : outbox[o] = IF order[o].status = "paid" THEN 1 ELSE 0

(* No settlement event is swallowed: once it counts as processed its order is
   settled, also when it arrives before the intent is stored (B1). *)
ProcessedIsSettled ==
  \A e \in processed : order[e.order].status \in Terminal

(* The first settlement of an order is final. *)
SettlementIsFinal ==
  [][\A o \in Orders :
       order[o].status \in Terminal => order'[o].status = order[o].status]_vars

(* What became of a line of an order. *)
GoodsOf(l) ==
  LET status == reservation[l].status IN
  [qty |-> reservation[l].qty,
   state |-> IF status = "held" THEN "aside"
             ELSE IF status = "committed" THEN "sold"
             ELSE IF status \in {"released", "expired"} THEN "back" ELSE "none"]

Goods(o) == [v \in Variants |-> GoodsOf(<<o, v>>)]

(* The order without its id, with its outbox rows and its goods. *)
PurchaseOf(o) ==
  [user |-> order[o].user, key |-> order[o].key, cart |-> order[o].cart,
   lines |-> order[o].lines, status |-> order[o].status, announced |-> outbox[o],
   goods |-> Goods(o)]

(* Whatever is retried, duplicated, raced or lost, a key buys at most one cart,
   once, for what it was priced from, and order, stock and announcement change
   together ("Idempotent on the Idempotency-Key", service.go:90-91). *)
Sale == INSTANCE Purchases WITH purchases <- {PurchaseOf(o) : o \in Placed}

ImplementsPurchases == Sale!PurchasesSpec

(* A payment that went through, or was given up, settles the order it was
   for, once the server has stored the intent. *)
PaymentSettles ==
  \A o \in Orders :
    (intent[o] \in {"succeeded", "canceled"} /\ order[o].intent)
      ~> order[o].status \in Terminal

----------------------------------------------------------------------------
(* What the code's comments say and the code does not keep *)

(* "no payment can ever succeed, so cancelling is safe" (service.go:258-264). *)
CancelledIsNeverCharged ==
  \A o \in Orders : order[o].status = "cancelled" => intent[o] # "succeeded"

(* "On success the order is paid and reservations committed"
   (webhook.go:24-26): the stock of a paid order was sold to it. *)
PaidIsCommitted ==
  \A l \in Lines :
    order[l[1]].status = "paid" => reservation[l].status \in {"none", "committed"}

(* "Your card wasn't charged" (CheckoutResultPage.tsx:118) is what the customer
   of a failed order reads. *)
FailedIsNeverCharged ==
  \A o \in Orders : order[o].status = "failed" => intent[o] # "succeeded"

(* "Idempotent on the Idempotency-Key" (service.go:90-91): a request whose key
   has an order is not refused for the cart that the order consumed. *)
DuplicateIsReplayed ==
  \A r \in Requests : request[r].at = "notActive" => Duplicates(r) = {}
=============================================================================
