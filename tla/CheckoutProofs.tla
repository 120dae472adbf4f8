--------------------------- MODULE CheckoutProofs ---------------------------
(***************************************************************************)
(* What the checkout saga keeps for any number of requests, users, carts,  *)
(* keys, orders and sweepers.  Every step of the saga is a step of the     *)
(* stock engine or leaves it alone, so what InventoryProofs proves of the  *)
(* engine holds within the saga.  For the rest, the handlers' reads and    *)
(* provider calls matter little: an order, its rows, its cart and its      *)
(* outbox change only where one is placed, settled or expired, and each    *)
(* invariant is followed through those few effects.                        *)
(***************************************************************************)
EXTENDS Checkout, InventoryProofs

----------------------------------------------------------------------------
(* The saga implements the stock engine *)

(* Settling an order is a commit, a release or nothing for the engine. *)
LEMMA TransitionStep ==
  ASSUME NEW o \in Orders, NEW commit \in BOOLEAN, TransitionReservations(o, commit)
  PROVE  [Next]_inventoryVars
<1>. DEFINE held == {v \in Variants : Held(<<o, v>>)}
<1>1. held \in SUBSET Variants
  OBVIOUS
<1>2. CASE held = {}
  BY <1>2 DEF TransitionReservations
<1>3. CASE held # {}
  <2>1. CommitInTx(o, held) \/ ReleaseInTx(o, held)
    BY <1>3 DEF TransitionReservations
  <2>. HIDE DEF held
  <2>. QED  BY <1>1, <2>1 DEF Next
<1>. QED  BY <1>2, <1>3

LEMMA ProcessStep ==
  ASSUME CheckoutTypeOK, NEW e \in events, Process(e)
  PROVE  /\ e \in Event
         /\ e.order \in Orders
         /\ TransitionReservations(e.order, e.type = "succeeded")
<1>1. e \in Event /\ e.order \in Orders
  BY DEF CheckoutTypeOK, Event
<1>. QED  BY <1>1 DEF Process, ApplyEvent, SettlePaid, SettleUnpaid

LEMMA EngineStep ==
  ASSUME CheckoutTypeOK, [CheckoutNext]_vars
  PROVE  [Next]_inventoryVars
<1>1. ASSUME NEW r \in Requests, NEW o \in Orders, PlaceOrder(r, o)
      PROVE  Next
  <2>1. request[r].lines \in Basket
    BY DEF CheckoutTypeOK
  <2>. QED  BY <1>1, <2>1 DEF PlaceOrder, Next
<1>2. ASSUME NEW r \in Requests, RequestStep(r), ~ \E o \in Orders : PlaceOrder(r, o)
      PROVE  UNCHANGED inventoryVars
  BY <1>2 DEF RequestStep, Lookup, LoadCart, ListLines, RefuseOrder, Relookup,
              CreateIntent, SaveIntent, RequestFails
<1>3. ASSUME NEW c \in Carts, NEW v \in Variants, NEW q \in 0..MaxQty, EditCart(c, v, q)
      PROVE  UNCHANGED inventoryVars
  BY <1>3 DEF EditCart
<1>4. ASSUME Provider
      PROVE  UNCHANGED inventoryVars
  BY <1>4 DEF Provider, PaymentSucceeds, PaymentDeclined, IntentCanceled
<1>5. ASSUME Webhook
      PROVE  [Next]_inventoryVars
  <2>1. PICK e \in events : Process(e)
    BY <1>5 DEF Webhook
  <2>2. e.order \in Orders /\ TransitionReservations(e.order, e.type = "succeeded")
    BY <2>1, ProcessStep
  <2>. QED  BY <2>2, TransitionStep
<1>6. ASSUME OrderSweep
      PROVE  [Next]_inventoryVars
  <2>1. ASSUME NEW o \in Orders, CancelAbandoned(o)
        PROVE  [Next]_inventoryVars
    BY <2>1, TransitionStep DEF CancelAbandoned
  <2>. QED  BY <1>6, <2>1 DEF OrderSweep, ListAbandoned, SkipAbandoned, OrderSweepFails
<1>7. ASSUME ReservationSweep
      PROVE  Next
  BY <1>7 DEF ReservationSweep, Next
<1>8. ASSUME UNCHANGED vars
      PROVE  UNCHANGED inventoryVars
  BY <1>8 DEF vars
<1>. QED  BY <1>1, <1>2, <1>3, <1>4, <1>5, <1>6, <1>7, <1>8 DEF CheckoutNext

----------------------------------------------------------------------------
(* Type correctness *)

LEMMA CheckoutTypeInit == CheckoutInit => CheckoutTypeOK
<1>. SUFFICES ASSUME CheckoutInit PROVE CheckoutTypeOK
  OBVIOUS
<1>1. TypeOK
  BY TypeInit DEF CheckoutInit
<1>2. Nothing \in Basket
  BY ConstantsAssumption DEF Nothing, Basket
<1>3. NoRow \in [status : {"none", "pending"} \cup Terminal,
                 user : Users \cup {Guest}, key : Keys \cup {NoKey},
                 cart : Carts \cup {NoCart}, lines : Basket, intent : BOOLEAN]
  BY <1>2 DEF NoRow
<1>4. edits \in 0..MaxEdits
  BY CheckoutAssumption DEF CheckoutInit
<1>5. cart \in [Carts -> [user : Users \cup {Guest}, status : {"active", "converted"},
                          lines : Basket]]
  BY CheckoutAssumption DEF CheckoutInit
<1>6. request \in [Requests -> [at : {"lookup", "load", "list", "place", "relookup",
                                      "intent", "save", "ok"} \cup Refusal,
                                lines : Basket, order : Orders \cup {NoOrder}]]
  BY <1>2 DEF CheckoutInit
<1>. QED  BY <1>1, <1>3, <1>4, <1>5, <1>6 DEF CheckoutInit, CheckoutTypeOK

(* The rows of the tables and what a request's process holds. *)
CartRow == [user : Users \cup {Guest}, status : {"active", "converted"}, lines : Basket]
OrderRow == [status : {"none", "pending"} \cup Terminal,
             user : Users \cup {Guest}, key : Keys \cup {NoKey},
             cart : Carts \cup {NoCart}, lines : Basket, intent : BOOLEAN]
Steps == {"lookup", "load", "list", "place", "relookup", "intent", "save", "ok"} \cup Refusal
RequestRow == [at : Steps, lines : Basket, order : Orders \cup {NoOrder}]

LEMMA MoveType ==
  ASSUME CheckoutTypeOK, NEW r \in Requests, NEW step \in Steps, GoTo(r, step)
  PROVE  request' \in [Requests -> RequestRow]
<1>. HIDE DEF Steps
<1>1. request \in [Requests -> RequestRow]
  BY DEF CheckoutTypeOK, RequestRow, Steps
<1>2. [request[r] EXCEPT !.at = step] \in RequestRow
  BY <1>1 DEF RequestRow
<1>3. request' = [request EXCEPT ![r] = [request[r] EXCEPT !.at = step]]
  BY DEF GoTo
<1>. QED  BY <1>1, <1>2, <1>3

LEMMA ReplayType ==
  ASSUME CheckoutTypeOK, NEW r \in Requests, NEW o \in Duplicates(r), Replay(r, o)
  PROVE  request' \in [Requests -> RequestRow]
<1>1. request \in [Requests -> RequestRow] /\ o \in Orders
  BY DEF CheckoutTypeOK, RequestRow, Steps, Duplicates, Placed
<1>. DEFINE step == IF order[o].intent THEN "ok" ELSE "intent"
            next == [request[r] EXCEPT !.at = step, !.order = o]
<1>2. step \in Steps
  BY DEF Steps
<1>3. request' = [request EXCEPT ![r] = next]
  BY DEF Replay
<1>. HIDE DEF step
<1>4. next \in RequestRow
  BY <1>1, <1>2 DEF RequestRow
<1>. HIDE DEF next
<1>. QED  BY <1>1, <1>3, <1>4

(* Requests that read, place, refuse, call the provider or fail. *)
LEMMA RequestType ==
  ASSUME CheckoutTypeOK, TypeOK', NEW r \in Requests, RequestStep(r)
  PROVE  CheckoutTypeOK'
<1>. DEFINE Quiet ==
       /\ request' \in [Requests -> RequestRow]
       /\ cart' \in [Carts -> CartRow] /\ edits' = edits
       /\ order' \in [Orders -> OrderRow]
       /\ intent' \in [Orders -> {"none", "open", "succeeded", "canceled"}]
       /\ UNCHANGED <<events, webhookVars, abandoned>>
<1>1. ASSUME Quiet PROVE CheckoutTypeOK'
  BY <1>1 DEF CheckoutTypeOK, CartRow, OrderRow, RequestRow, Steps, webhookVars
<1>2. /\ cart \in [Carts -> CartRow] /\ order \in [Orders -> OrderRow]
      /\ request \in [Requests -> RequestRow]
      /\ intent \in [Orders -> {"none", "open", "succeeded", "canceled"}]
  BY DEF CheckoutTypeOK, CartRow, OrderRow, RequestRow, Steps
<1>3. /\ GetCart(r) \in CartRow /\ ListCartItems(r) \in Basket
      /\ Attempt[r].user \in Users /\ Attempt[r].key \in Keys /\ Attempt[r].cart \in Carts
  BY <1>2, CheckoutAssumption DEF GetCart, ListCartItems, CartRow
<1>. USE DEF cartVars, gatewayVars
<1>4. ASSUME Lookup(r) \/ Relookup(r) PROVE Quiet
  BY <1>2, <1>4, MoveType, ReplayType DEF Lookup, Relookup, Steps
<1>5. ASSUME LoadCart(r) \/ RefuseOrder(r) \/ RequestFails(r) PROVE Quiet
  BY <1>2, <1>5, MoveType DEF LoadCart, RefuseOrder, RequestFails, Steps, Refusal
<1>6. ASSUME ListLines(r) PROVE Quiet
  <2>. DEFINE next == [request[r] EXCEPT !.at = "place", !.lines = ListCartItems(r)]
  <2>1. request' \in [Requests -> RequestRow]
    <3>1. next \in RequestRow
      BY <1>2, <1>3 DEF RequestRow, Steps
    <3>2. ASSUME request' = [request EXCEPT ![r] = next]
          PROVE  request' \in [Requests -> RequestRow]
      <4>. HIDE DEF next
      <4>. QED  BY <1>2, <3>1, <3>2
    <3>. QED  BY <1>6, <3>2, MoveType DEF ListLines, Steps, Refusal
  <2>. QED  BY <1>2, <1>6, <2>1 DEF ListLines
<1>7. ASSUME NEW o \in Orders, PlaceOrder(r, o) PROVE Quiet
  <2>. DEFINE next == [request[r] EXCEPT !.at = "intent", !.order = o]
              row == [status |-> "pending", user |-> Attempt[r].user,
                      key |-> Attempt[r].key, cart |-> Attempt[r].cart,
                      lines |-> request[r].lines, intent |-> FALSE]
              sold == [cart[Attempt[r].cart]
                         EXCEPT !.user = Attempt[r].user, !.status = "converted"]
  <2>1. next \in RequestRow /\ row \in OrderRow /\ sold \in CartRow
    <3>1. request[r].lines \in Basket
      BY <1>2 DEF RequestRow
    <3>2. next \in RequestRow
      BY <1>2 DEF RequestRow, Steps
    <3>3. row \in OrderRow
      BY <1>3, <3>1 DEF OrderRow
    <3>4. sold \in CartRow
      BY <1>2, <1>3 DEF CartRow
    <3>. QED  BY <3>2, <3>3, <3>4
  <2>2. /\ request' = [request EXCEPT ![r] = next]
        /\ order' = [order EXCEPT ![o] = row]
        /\ cart' = [cart EXCEPT ![Attempt[r].cart] = sold]
    BY <1>7 DEF PlaceOrder, CreateOrder, ClaimAndConvertCart
  <2>. HIDE DEF next, row, sold
  <2>3. /\ request' \in [Requests -> RequestRow] /\ order' \in [Orders -> OrderRow]
        /\ cart' \in [Carts -> CartRow]
    BY <1>2, <2>1, <2>2
  <2>. QED  BY <1>2, <1>7, <2>3 DEF PlaceOrder
<1>8. ASSUME CreateIntent(r) PROVE Quiet
  BY <1>2, <1>8, MoveType DEF CreateIntent, Steps
<1>9. ASSUME SaveIntent(r) PROVE Quiet
  <2>1. order' \in [Orders -> OrderRow]
    BY <1>2, <1>9 DEF SaveIntent, SetOrderPaymentIntent, OrderRow
  <2>. QED  BY <1>2, <1>9, <2>1, MoveType DEF SaveIntent, Steps
<1>. HIDE DEF Quiet
<1>. QED  BY <1>1, <1>4, <1>5, <1>6, <1>7, <1>8, <1>9 DEF RequestStep

LEMMA EditType ==
  ASSUME CheckoutTypeOK, TypeOK', NEW c \in Carts, NEW v \in Variants, NEW q \in 0..MaxQty,
         EditCart(c, v, q)
  PROVE  CheckoutTypeOK'
<1>. DEFINE row == [cart[c] EXCEPT !.lines = [@ EXCEPT ![v] = q]]
<1>1. cart \in [Carts -> CartRow]
  BY DEF CheckoutTypeOK, CartRow
<1>2. row \in CartRow
  BY <1>1 DEF CartRow, Basket
<1>3. cart' = [cart EXCEPT ![c] = row]
  BY DEF EditCart
<1>. HIDE DEF row
<1>4. cart' \in [Carts -> CartRow]
  BY <1>1, <1>2, <1>3
<1>5. edits' \in 0..MaxEdits
  BY CheckoutAssumption DEF EditCart, CheckoutTypeOK
<1>. QED  BY <1>4, <1>5 DEF EditCart, CheckoutTypeOK, CartRow, gatewayVars, webhookVars

LEMMA ProviderType ==
  ASSUME CheckoutTypeOK, TypeOK', Provider
  PROVE  CheckoutTypeOK'
<1>1. PICK o \in Orders : PaymentSucceeds(o) \/ PaymentDeclined(o) \/ IntentCanceled(o)
  BY DEF Provider
<1>2. intent' \in [Orders -> {"none", "open", "succeeded", "canceled"}]
  BY <1>1 DEF PaymentSucceeds, PaymentDeclined, IntentCanceled, CheckoutTypeOK
<1>3. PICK e \in Event : events' = events \cup {e}
  <2>1. \A type \in {"succeeded", "failed", "canceled"}, n \in 0..MaxDeclines :
          [order |-> o, type |-> type, n |-> n] \in Event
    BY DEF Event
  <2>2. 0 \in 0..MaxDeclines /\ \A n \in 1..MaxDeclines : n \in 0..MaxDeclines
    BY CheckoutAssumption
  <2>3. \E type \in {"succeeded", "failed", "canceled"}, n \in 0..MaxDeclines :
          Raise(o, type, n)
    BY <1>1, <2>2 DEF PaymentSucceeds, PaymentDeclined, IntentCanceled
  <2>. QED  BY <2>1, <2>3 DEF Raise
<1>4. UNCHANGED <<cartVars, order, request, webhookVars, abandoned>>
  BY <1>1 DEF PaymentSucceeds, PaymentDeclined, IntentCanceled
<1>. QED
  BY <1>2, <1>3, <1>4 DEF CheckoutTypeOK, cartVars, webhookVars

LEMMA SettleType ==
  ASSUME CheckoutTypeOK, NEW o \in Orders, NEW status \in Terminal, SetStatus(o, status)
  PROVE  order' \in [Orders -> OrderRow]
<1>. DEFINE row == [order[o] EXCEPT !.status = status]
<1>1. order \in [Orders -> OrderRow]
  BY DEF CheckoutTypeOK, OrderRow
<1>2. row \in OrderRow
  BY <1>1 DEF OrderRow
<1>3. order' = order \/ order' = [order EXCEPT ![o] = row]
  BY DEF SetStatus
<1>. HIDE DEF row
<1>. QED  BY <1>1, <1>2, <1>3

LEMMA WebhookType ==
  ASSUME CheckoutTypeOK, TypeOK', NEW e \in events, Process(e)
  PROVE  CheckoutTypeOK'
<1>1. e.order \in Orders
  BY ProcessStep
<1>2. \E status \in Terminal : SetStatus(e.order, status)
  BY DEF Process, ApplyEvent, SettlePaid, SettleUnpaid, Terminal
<1>3. outbox' \in [Orders -> Nat]
  <2>1. outbox \in [Orders -> Nat]
    BY DEF CheckoutTypeOK
  <2>2. outbox' = outbox \/ outbox' = [outbox EXCEPT ![e.order] = @ + 1]
    BY DEF Process, ApplyEvent, SettlePaid, SettleUnpaid, InsertOutbox
  <2>. QED  BY <2>1, <2>2
<1>4. events' = events /\ processed' \subseteq events'
  BY DEF Process, InsertProcessedEvent, gatewayVars, CheckoutTypeOK
<1>. QED
  BY <1>1, <1>2, <1>3, <1>4, SettleType DEF Process, CheckoutTypeOK, OrderRow, cartVars, gatewayVars

LEMMA OrderSweepType ==
  ASSUME CheckoutTypeOK, TypeOK', OrderSweep
  PROVE  CheckoutTypeOK'
<1>1. ASSUME NEW o \in Orders, CancelAbandoned(o) PROVE CheckoutTypeOK'
  BY <1>1, SettleType
     DEF CancelAbandoned, CheckoutTypeOK, OrderRow, Terminal, cartVars, gatewayVars, webhookVars
<1>2. ASSUME ListAbandoned PROVE CheckoutTypeOK'
  BY <1>2 DEF ListAbandoned, Abandonable, CheckoutTypeOK, cartVars, gatewayVars, webhookVars
<1>3. ASSUME NEW o \in Orders, SkipAbandoned(o) \/ OrderSweepFails PROVE CheckoutTypeOK'
  BY <1>3 DEF SkipAbandoned, OrderSweepFails, CheckoutTypeOK, cartVars, gatewayVars, webhookVars
<1>4. ASSUME OrderSweepFails PROVE CheckoutTypeOK'
  BY <1>4 DEF OrderSweepFails, CheckoutTypeOK, cartVars, gatewayVars, webhookVars
<1>. QED  BY <1>1, <1>2, <1>3, <1>4 DEF OrderSweep

LEMMA CheckoutTypeStep == CheckoutTypeOK /\ [CheckoutNext]_vars => CheckoutTypeOK'
<1>. SUFFICES ASSUME CheckoutTypeOK, [CheckoutNext]_vars PROVE CheckoutTypeOK'
  OBVIOUS
<1>1. TypeOK'
  BY EngineStep, TypeStep DEF CheckoutTypeOK
<1>2. ASSUME ReservationSweep \/ UNCHANGED vars PROVE CheckoutTypeOK'
  BY <1>1, <1>2 DEF ReservationSweep, vars, checkoutVars, CheckoutTypeOK
<1>. QED
  BY <1>1, <1>2, RequestType, EditType, ProviderType, WebhookType, OrderSweepType
     DEF CheckoutNext, Webhook

(* The saga's tables and the processes' positions stay well formed whatever
   requests, deliveries, edits and sweeps come in between, and no line of a
   cart or an order leaves the per-line cap. *)
THEOREM CheckoutTypeCorrect == CheckoutSpec => []CheckoutTypeOK
BY CheckoutTypeInit, CheckoutTypeStep, PTL DEF CheckoutSpec

(* The saga implements the stock engine: every handler, webhook and sweep
   does to the stock what one transaction of internal/inventory does, or
   nothing (service.go: reserveAndCreateOrder, cancelAbandoned; webhook.go:
   transitionReservations). *)
THEOREM CheckoutImplementsInventory == CheckoutSpec => Spec
<1>1. CheckoutInit => Init
  BY DEF CheckoutInit
<1>2. CheckoutTypeOK /\ [CheckoutNext]_vars => [Next]_inventoryVars
  BY EngineStep
<1>. QED  BY <1>1, <1>2, CheckoutTypeCorrect, PTL DEF CheckoutSpec, Spec

(* Hence the saga conserves stock: no order, retry, late payment or sweep
   loses a unit or sells it twice, and the journal agrees. *)
THEOREM SagaConservesStock ==
  CheckoutSpec => [](ReservedIsHeld /\ StockConserved /\ LedgerReconciles)
BY CheckoutImplementsInventory, StockIsConserved, ReservedCountsHeldRows, JournalReconciles, PTL

----------------------------------------------------------------------------
(* The effects of the steps on orders, rows, carts and the outbox *)

(* Order o is settled with a status, unless it was settled before: its held
   rows get the outcome that goes with the status, and a paid order gets its
   OrderPlaced. *)
Settles(o, status) ==
  LET first == order[o].status = "pending" IN
  /\ order' = IF first THEN [order EXCEPT ![o].status = status] ELSE order
  /\ reservation' = [l \in Lines |->
       IF l[1] = o /\ Held(l)
         THEN [qty |-> reservation[l].qty,
               status |-> IF status = "paid" THEN "committed" ELSE "released"]
         ELSE reservation[l]]
  /\ outbox' = IF first /\ status = "paid" THEN [outbox EXCEPT ![o] = @ + 1] ELSE outbox
  /\ UNCHANGED cart

(* A sweeper expires a held row. *)
Expires ==
  /\ \A k, l \in Lines :
       reservation'[k] # reservation[k] /\ reservation'[l] # reservation[l] => k = l
  /\ \A l \in Lines : \/ reservation'[l] = reservation[l]
                      \/ /\ Held(l)
                         /\ reservation'[l] = [reservation[l] EXCEPT !.status = "expired"]
  /\ UNCHANGED <<cart, order, processed, outbox>>

LEMMA TransitionRows ==
  ASSUME TypeOK, NEW o \in Orders, NEW commit \in BOOLEAN, TransitionReservations(o, commit)
  PROVE  reservation' = [l \in Lines |->
           IF l[1] = o /\ Held(l)
             THEN [qty |-> reservation[l].qty,
                   status |-> IF commit THEN "committed" ELSE "released"]
             ELSE reservation[l]]
<1>. DEFINE held == {v \in Variants : Held(<<o, v>>)}
            outcome == IF commit THEN "committed" ELSE "released"
<1>1. reservation \in [Lines -> Reservation]
  BY DEF TypeOK
<1>2. \A l \in Lines : l = <<l[1], l[2]>> /\ l[2] \in Variants
  BY DEF Lines
<1>3. CASE held = {}
  <2>1. \A l \in Lines : ~(l[1] = o /\ Held(l))
    BY <1>2, <1>3
  <2>2. reservation' = reservation
    BY <1>3 DEF TransitionReservations, inventoryVars
  <2>. QED  BY <1>1, <2>1, <2>2
<1>4. CASE held # {}
  <2>1. MarkReservations(o, held, outcome)
    BY <1>4 DEF TransitionReservations, CommitInTx, Commit, ReleaseInTx, Release
  <2>2. \A l \in Lines : l[1] = o /\ l[2] \in held <=> l[1] = o /\ Held(l)
    BY <1>2
  <2>. HIDE DEF held
  <2>. QED  BY <2>1, <2>2 DEF MarkReservations
<1>. QED  BY <1>3, <1>4

LEMMA ProcessSettles ==
  ASSUME CheckoutTypeOK, NEW e \in events, Process(e)
  PROVE  \E status \in Terminal : Settles(e.order, status)
<1>. DEFINE o == e.order
<1>1. o \in Orders /\ TypeOK
  BY ProcessStep DEF CheckoutTypeOK
<1>2. UNCHANGED cart
  BY DEF Process, cartVars
<1>3. CASE SettlePaid(o)
  BY <1>1, <1>2, <1>3, TransitionRows DEF SettlePaid, SetStatus, InsertOutbox, Settles, Terminal
<1>4. ASSUME NEW status \in {"failed", "cancelled"}, SettleUnpaid(o, status)
      PROVE  Settles(o, status)
  <2>1. status # "paid" /\ status \in Terminal
    BY DEF Terminal
  <2>. QED  BY <1>1, <1>2, <1>4, <2>1, TransitionRows DEF SettleUnpaid, SetStatus, Settles
<1>5. "failed" \in Terminal /\ "cancelled" \in Terminal
  BY DEF Terminal
<1>. QED  BY <1>3, <1>4, <1>5 DEF Process, ApplyEvent

LEMMA CancelSettles ==
  ASSUME CheckoutTypeOK, NEW o \in Orders, CancelAbandoned(o)
  PROVE  Settles(o, "cancelled")
BY TransitionRows DEF CheckoutTypeOK, CancelAbandoned, SetStatus, Settles, cartVars, webhookVars

LEMMA SweepExpires ==
  ASSUME CheckoutTypeOK, ReservationSweep
  PROVE  Expires
<1>1. reservation \in [Lines -> Reservation]
  BY DEF CheckoutTypeOK, TypeOK
<1>2. UNCHANGED <<cart, order, processed, outbox>>
  BY DEF ReservationSweep, checkoutVars
<1>3. ASSUME reservation' = reservation PROVE Expires
  BY <1>2, <1>3 DEF Expires
<1>4. ASSUME NEW s \in Sweepers, NEW k \in Lines, ExpireListed(s, k) PROVE Expires
  <2>1. MarkReservations(k[1], {k[2]}, "expired")
    BY <1>4 DEF ExpireListed, Release
  <2>2. ASSUME NEW l \in Lines, l[1] = k[1], l[2] = k[2]
        PROVE  l = k /\ Held(l)
    BY <2>1, <2>2 DEF MarkReservations, Lines
  <2>3. ASSUME NEW l \in Lines, Held(l)
        PROVE  [qty |-> reservation[l].qty, status |-> "expired"]
                 = [reservation[l] EXCEPT !.status = "expired"]
    BY <1>1 DEF Reservation
  <2>. QED  BY <1>2, <2>1, <2>2, <2>3 DEF MarkReservations, Expires
<1>. QED
  BY <1>3, <1>4
     DEF ReservationSweep, DeadlinePasses, SweepStep, ListExpired, SkipListed, SweepFails, stockVars

(* Nothing that an order is made of changes. *)
Idle == UNCHANGED <<cart, order, reservation, processed, outbox>>

Settling ==
  \E o \in Orders, status \in Terminal :
    /\ Settles(o, status)
    /\ \/ UNCHANGED processed
       \/ /\ IntentStored(o)
          /\ \E e \in Event : e.order = o /\ processed' = processed \cup {e}

LEMMA Effects ==
  ASSUME CheckoutTypeOK, [CheckoutNext]_vars
  PROVE  \/ \E r \in Requests, o \in Orders : PlaceOrder(r, o)
         \/ \E r \in Requests : SaveIntent(r)
         \/ \E c \in Carts, v \in Variants, q \in 0..MaxQty : EditCart(c, v, q)
         \/ Settling
         \/ Expires
         \/ Idle
<1>. USE DEF inventoryVars, cartVars, webhookVars
<1>1. ASSUME NEW r \in Requests, RequestStep(r), ~SaveIntent(r),
             ~ \E o \in Orders : PlaceOrder(r, o)
      PROVE  Idle
  BY <1>1 DEF RequestStep, Lookup, LoadCart, ListLines, RefuseOrder, Relookup,
              CreateIntent, RequestFails, Idle
<1>2. ASSUME Provider PROVE Idle
  BY <1>2 DEF Provider, PaymentSucceeds, PaymentDeclined, IntentCanceled, Idle
<1>3. ASSUME NEW e \in events, Process(e) PROVE Settling
  <2>1. e \in Event /\ e.order \in Orders
    BY <1>3, ProcessStep
  <2>2. IntentStored(e.order) /\ processed' = processed \cup {e}
    BY <1>3 DEF Process, InsertProcessedEvent
  <2>. QED  BY <1>3, <2>1, <2>2, ProcessSettles DEF Settling
<1>4. ASSUME NEW o \in Orders, CancelAbandoned(o) PROVE Settling
  <2>1. UNCHANGED processed /\ "cancelled" \in Terminal
    BY <1>4 DEF CancelAbandoned, Terminal
  <2>. QED  BY <1>4, <2>1, CancelSettles DEF Settling
<1>5. ASSUME OrderSweep, ~ \E o \in Orders : CancelAbandoned(o) PROVE Idle
  BY <1>5 DEF OrderSweep, ListAbandoned, SkipAbandoned, OrderSweepFails, Idle
<1>6. ASSUME UNCHANGED vars PROVE Idle
  BY <1>6 DEF vars, checkoutVars, Idle
<1>. QED
  BY <1>1, <1>2, <1>3, <1>4, <1>5, <1>6, SweepExpires DEF CheckoutNext, Webhook

----------------------------------------------------------------------------
(* Settlement *)

(* A settled order keeps its status, whatever event, sweep or late request
   comes next (webhook.go: MarkOrderPaid and MarkOrderFailed; service.go:
   cancelAbandoned). *)
THEOREM FirstSettlementWins == CheckoutSpec => SettlementIsFinal
<1>. DEFINE Final == \A o \in Orders :
               order[o].status \in Terminal => order'[o].status = order[o].status
<1>1. ASSUME CheckoutTypeOK, [CheckoutNext]_vars PROVE Final
  <2>. USE DEF CheckoutTypeOK, Terminal
  <2>1. ASSUME NEW r \in Requests, NEW p \in Orders, PlaceOrder(r, p) PROVE Final
    BY <2>1 DEF PlaceOrder, CreateOrder, Placed
  <2>2. ASSUME NEW r \in Requests, SaveIntent(r) PROVE Final
    BY <2>2 DEF SaveIntent, SetOrderPaymentIntent
  <2>3. ASSUME Settling PROVE Final
    BY <2>3 DEF Settling, Settles
  <2>4. ASSUME order' = order PROVE Final
    BY <2>4
  <2>. HIDE DEF Final, CheckoutTypeOK, Terminal
  <2>. QED  BY <1>1, <2>1, <2>2, <2>3, <2>4, Effects DEF Expires, Idle, EditCart
<1>2. CheckoutTypeOK /\ [CheckoutNext]_vars => [Final]_vars
  BY <1>1
<1>. QED  BY <1>2, CheckoutTypeCorrect, PTL DEF CheckoutSpec, SettlementIsFinal

(* The stock, the outbox and the settlement of an order keep together:
   StockFollowsOrder and OutboxOncePerPaid. *)
LEMMA StockStep ==
  ASSUME CheckoutTypeOK, [CheckoutNext]_vars, StockFollowsOrder, OutboxOncePerPaid
  PROVE  StockFollowsOrder' /\ OutboxOncePerPaid'
<1>. DEFINE Goal == StockFollowsOrder' /\ OutboxOncePerPaid'
<1>1. /\ reservation \in [Lines -> Reservation] /\ outbox \in [Orders -> Nat]
      /\ order \in [Orders -> OrderRow]
  BY DEF CheckoutTypeOK, TypeOK, OrderRow
<1>2. \A l \in Lines : l[1] \in Orders /\ l[2] \in Variants /\ l = <<l[1], l[2]>>
  BY DEF Lines
<1>. USE DEF StockFollowsOrder, OutboxOncePerPaid, Held
<1>3. ASSUME NEW r \in Requests, NEW o \in Orders, PlaceOrder(r, o) PROVE Goal
  <2>1. /\ order[o].status = "none"
        /\ order'[o].status = "pending"
        /\ \A p \in Orders : p # o => order'[p] = order[p]
    BY <1>1, <1>3 DEF PlaceOrder, CreateOrder, Placed
  <2>2. \A l \in Lines : /\ l[1] # o => reservation'[l] = reservation[l]
                         /\ l[1] = o => reservation'[l].status \in {"none", "held"}
    BY <1>2, <1>3
       DEF PlaceOrder, ReserveInTx, Reserve, CreateReservations, NoReservation
  <2>3. UNCHANGED outbox
    BY <1>3 DEF PlaceOrder, webhookVars
  <2>. QED  BY <1>2, <2>1, <2>2, <2>3
<1>4. ASSUME NEW r \in Requests, SaveIntent(r) PROVE Goal
  <2>1. \A p \in Orders : order'[p].status = order[p].status
    BY <1>1, <1>4 DEF SaveIntent, SetOrderPaymentIntent, OrderRow
  <2>2. UNCHANGED <<reservation, outbox>>
    BY <1>4 DEF SaveIntent, inventoryVars, webhookVars
  <2>. QED  BY <1>2, <2>1, <2>2
<1>5. ASSUME Settling PROVE Goal
  <2>1. PICK o \in Orders, status \in Terminal : Settles(o, status)
    BY <1>5 DEF Settling
  <2>2. /\ order'[o].status = IF order[o].status = "pending" THEN status ELSE order[o].status
        /\ \A p \in Orders : p # o => order'[p] = order[p]
    BY <1>1, <2>1 DEF Settles, OrderRow
  <2>3. \A l \in Lines :
          reservation'[l].status =
            IF l[1] = o /\ Held(l) THEN IF status = "paid" THEN "committed" ELSE "released"
            ELSE reservation[l].status
    BY <2>1 DEF Settles
  <2>4. \A p \in Orders :
          outbox'[p] = IF p = o /\ order[o].status = "pending" /\ status = "paid"
                         THEN outbox[p] + 1 ELSE outbox[p]
    BY <1>1, <2>1 DEF Settles
  <2>5. StockFollowsOrder'
    BY <1>2, <2>2, <2>3 DEF Terminal
  <2>6. OutboxOncePerPaid'
    BY <2>2, <2>4 DEF Terminal
  <2>. QED  BY <2>5, <2>6
<1>6. ASSUME Expires PROVE Goal
  <2>1. \A l \in Lines : \/ reservation'[l] = reservation[l]
                         \/ reservation'[l].status = "expired"
    <3>1. \A l \in Lines : [reservation[l] EXCEPT !.status = "expired"].status = "expired"
      BY <1>1 DEF Reservation
    <3>. QED  BY <1>6, <3>1 DEF Expires
  <2>. QED  BY <1>2, <1>6, <2>1 DEF Expires
<1>7. ASSUME UNCHANGED <<order, reservation, outbox>> PROVE Goal
  BY <1>7
<1>. HIDE DEF Goal
<1>8. Goal
  BY <1>3, <1>4, <1>5, <1>6, <1>7, Effects DEF Idle, EditCart, inventoryVars, webhookVars
<1>. QED  BY <1>8 DEF Goal

LEMMA StockInit == CheckoutInit => StockFollowsOrder /\ OutboxOncePerPaid
BY DEF CheckoutInit, Init, StockFollowsOrder, OutboxOncePerPaid, NoReservation, NoRow, Held

(* Whatever order settlements, cancellations and expiries come in, stock is
   held for pending orders, sold to paid ones and given back for unpaid ones
   only (webhook.go: transitionReservations; service.go: cancelAbandoned). *)
THEOREM StockFollows == CheckoutSpec => []StockFollowsOrder
BY StockInit, StockStep, CheckoutTypeCorrect, PTL DEF CheckoutSpec

(* However often its events are delivered, a paid order gets one OrderPlaced
   and no other order gets any (webhook.go: settlePaid). *)
THEOREM OutboxIsExactlyOnce == CheckoutSpec => []OutboxOncePerPaid
BY StockInit, StockStep, CheckoutTypeCorrect, PTL DEF CheckoutSpec

----------------------------------------------------------------------------
(* What is reserved is what was ordered *)

LEMMA OrderedStep ==
  ASSUME CheckoutTypeOK, [CheckoutNext]_vars, ReservedAsOrdered
  PROVE  ReservedAsOrdered'
<1>1. /\ reservation \in [Lines -> Reservation] /\ order \in [Orders -> OrderRow]
      /\ \A o \in Orders, v \in Variants : <<o, v>> \in Lines
  BY DEF CheckoutTypeOK, TypeOK, OrderRow, Lines
<1>. USE DEF ReservedAsOrdered, Placed
<1>2. ASSUME NEW r \in Requests, NEW o \in Orders, PlaceOrder(r, o) PROVE ReservedAsOrdered'
  <2>1. /\ order'[o].lines = request[r].lines
        /\ \A p \in Orders : p # o => order'[p] = order[p]
    BY <1>1, <1>2 DEF PlaceOrder, CreateOrder
  <2>2. ASSUME NEW v \in Variants
        PROVE  reservation'[<<o, v>>].qty = request[r].lines[v]
    <3>1. request[r].lines[v] \in Nat
      BY ConstantsAssumption DEF CheckoutTypeOK, Basket
    <3>2. reservation'[<<o, v>>] = IF request[r].lines[v] > 0
            THEN [qty |-> request[r].lines[v], status |-> "held"] ELSE NoReservation
      BY <1>1, <1>2 DEF PlaceOrder, ReserveInTx, Reserve, CreateReservations
    <3>. QED  BY <3>1, <3>2 DEF NoReservation
  <2>3. \A p \in Orders, v \in Variants :
          p # o => reservation'[<<p, v>>] = reservation[<<p, v>>]
    BY <1>1, <1>2 DEF PlaceOrder, ReserveInTx, Reserve, CreateReservations
  <2>4. ASSUME NEW p \in Placed', NEW v \in Variants
        PROVE  reservation'[<<p, v>>].qty = order'[p].lines[v]
    <3>1. CASE p = o
      BY <2>1, <2>2, <3>1
    <3>2. CASE p # o
      <4>1. p \in Placed
        BY <2>1, <3>2
      <4>. QED  BY <2>1, <2>3, <3>2, <4>1
    <3>. QED  BY <3>1, <3>2
  <2>. QED  BY <2>4
<1>3. ASSUME UNCHANGED reservation,
             \A o \in Orders : order'[o].lines = order[o].lines /\ (o \in Placed' => o \in Placed)
      PROVE  ReservedAsOrdered'
  BY <1>3
<1>4. ASSUME NEW r \in Requests, SaveIntent(r) PROVE ReservedAsOrdered'
  BY <1>1, <1>3, <1>4 DEF SaveIntent, SetOrderPaymentIntent, OrderRow, inventoryVars
<1>5. ASSUME Settling PROVE ReservedAsOrdered'
  <2>1. PICK o \in Orders, status \in Terminal : Settles(o, status)
    BY <1>5 DEF Settling
  <2>2. \A p \in Orders : order'[p].lines = order[p].lines /\ (p \in Placed' => p \in Placed)
    BY <1>1, <2>1 DEF Settles, OrderRow
  <2>3. \A l \in Lines : reservation'[l].qty = reservation[l].qty
    BY <2>1 DEF Settles
  <2>. QED  BY <1>1, <2>2, <2>3
<1>6. ASSUME Expires PROVE ReservedAsOrdered'
  <2>1. \A l \in Lines : [reservation[l] EXCEPT !.status = "expired"].qty = reservation[l].qty
    BY <1>1 DEF Reservation
  <2>. QED  BY <1>1, <1>6, <2>1 DEF Expires
<1>7. ASSUME UNCHANGED <<order, reservation>> PROVE ReservedAsOrdered'
  BY <1>7
<1>. HIDE DEF ReservedAsOrdered, Placed
<1>. QED  BY <1>2, <1>4, <1>5, <1>6, <1>7, Effects DEF Idle, EditCart, inventoryVars

(* An order reserves what it was priced from, also when the cart is edited
   between the listing of its lines and the transaction (service.go:
   reserveAndCreateOrder). *)
THEOREM PricedIsReserved == CheckoutSpec => []ReservedAsOrdered
<1>1. CheckoutInit => ReservedAsOrdered
  BY DEF CheckoutInit, ReservedAsOrdered, Placed, NoRow
<1>. QED  BY <1>1, OrderedStep, CheckoutTypeCorrect, PTL DEF CheckoutSpec

----------------------------------------------------------------------------
(* One order per cart *)

LEMMA BoughtStep ==
  ASSUME CheckoutTypeOK, [CheckoutNext]_vars, CartBoughtOnce
  PROVE  CartBoughtOnce'
<1>1. cart \in [Carts -> CartRow] /\ order \in [Orders -> OrderRow]
  BY DEF CheckoutTypeOK, CartRow, OrderRow
<1>. USE DEF CartBoughtOnce, Placed
<1>2. ASSUME NEW r \in Requests, NEW o \in Orders, PlaceOrder(r, o) PROVE CartBoughtOnce'
  <2>. DEFINE mine == Attempt[r].cart
  <2>1. mine \in Carts
    BY CheckoutAssumption
  <2>2. cart[mine].status = "active" /\ order[o].status = "none"
    BY <1>2 DEF PlaceOrder, ClaimAndConvertCart, Claimable, GetCart
  <2>3. /\ order'[o].status = "pending" /\ order'[o].cart = mine
        /\ order'[o].user = Attempt[r].user
        /\ \A p \in Orders : p # o => order'[p] = order[p]
    BY <1>1, <1>2 DEF PlaceOrder, CreateOrder
  <2>4. /\ cart'[mine].status = "converted" /\ cart'[mine].user = Attempt[r].user
        /\ \A c \in Carts : c # mine => cart'[c] = cart[c]
    BY <1>1, <1>2, <2>1 DEF PlaceOrder, ClaimAndConvertCart, CartRow
  <2>5. \A p \in Placed : order[p].cart # mine
    BY <2>1, <2>2
  <2>. HIDE DEF mine
  <2>. QED  BY <2>1, <2>2, <2>3, <2>4, <2>5
<1>3. ASSUME \A c \in Carts : cart'[c].status = cart[c].status /\ cart'[c].user = cart[c].user,
             \A o \in Orders : /\ order'[o].cart = order[o].cart
                               /\ order'[o].user = order[o].user
                               /\ order'[o].status = "none" <=> order[o].status = "none"
      PROVE  CartBoughtOnce'
  BY <1>3
<1>4. ASSUME NEW r \in Requests, SaveIntent(r) PROVE CartBoughtOnce'
  BY <1>1, <1>3, <1>4 DEF SaveIntent, SetOrderPaymentIntent, OrderRow, cartVars
<1>5. ASSUME NEW c \in Carts, NEW v \in Variants, NEW q \in 0..MaxQty, EditCart(c, v, q)
      PROVE  CartBoughtOnce'
  BY <1>1, <1>3, <1>5 DEF EditCart, CartRow
<1>6. ASSUME Settling PROVE CartBoughtOnce'
  BY <1>1, <1>3, <1>6 DEF Settling, Settles, OrderRow, Terminal
<1>7. ASSUME UNCHANGED <<cart, order>> PROVE CartBoughtOnce'
  BY <1>7
<1>. HIDE DEF CartBoughtOnce, Placed
<1>. QED  BY <1>2, <1>4, <1>5, <1>6, <1>7, Effects DEF Idle, Expires

(* Whatever keys, users and retries compete for a cart, it is bought at most
   once and then belongs to its buyer (service.go: ClaimAndConvertCart in the
   transaction that places the order). *)
THEOREM CartIsBoughtOnce == CheckoutSpec => []CartBoughtOnce
<1>1. CheckoutInit => CartBoughtOnce
  BY DEF CheckoutInit, CartBoughtOnce, Placed, NoRow
<1>. QED  BY <1>1, BoughtStep, CheckoutTypeCorrect, PTL DEF CheckoutSpec

----------------------------------------------------------------------------
(* Answers and events *)

(* A user has one order per key. *)
OneOrderPerKey ==
  \A o, p \in Placed : order[o].user = order[p].user /\ order[o].key = order[p].key => o = p

(* A request that got past the placing holds an order of its own user and
   key, and answers only with one that has its intent. *)
KnowsItsOrder(r) ==
  /\ request[r].at \in {"intent", "save", "ok"} => request[r].order \in Duplicates(r)
  /\ request[r].at = "ok" => order[request[r].order].intent

(* An intent is stored for placed orders only. *)
IntentsOfPlaced == \A o \in Orders : IntentStored(o) => o \in Placed

Keyed ==
  /\ OneOrderPerKey
  /\ \A r \in Requests : KnowsItsOrder(r)
  /\ IntentsOfPlaced
  /\ ProcessedIsSettled

(* Orders keep what Keyed says of them: nothing is unplaced, renamed or
   loses its intent, and none appears. *)
OrdersKept ==
  \A o \in Orders :
    /\ order'[o].user = order[o].user /\ order'[o].key = order[o].key
    /\ order'[o].status = "none" <=> order[o].status = "none"
    /\ order[o].status \in Terminal => order'[o].status \in Terminal

(* A request moves by its own steps only. *)
LEMMA OthersLeaveRequests ==
  ASSUME [CheckoutNext]_vars, ~ \E r \in Requests : RequestStep(r)
  PROVE  request' = request
<1>1. ASSUME NEW e \in events, Process(e) PROVE request' = request
  BY <1>1 DEF Process
<1>. QED
  BY <1>1
     DEF CheckoutNext, EditCart, Provider, PaymentSucceeds, PaymentDeclined, IntentCanceled,
         Webhook, OrderSweep, ListAbandoned, CancelAbandoned, SkipAbandoned, OrderSweepFails,
         ReservationSweep, checkoutVars, vars

LEMMA RequestMoves ==
  ASSUME CheckoutTypeOK, NEW r \in Requests, RequestStep(r), KnowsItsOrder(r),
         ~ \E o \in Orders : PlaceOrder(r, o)
  PROVE  /\ \A s \in Requests : s # r => request'[s] = request[s]
         /\ request'[r].at \in {"intent", "save", "ok"} => request'[r].order \in Duplicates(r)
         /\ request'[r].at = "ok" => order[request'[r].order].intent \/ SaveIntent(r)
<1>. DEFINE Goal ==
       /\ \A s \in Requests : s # r => request'[s] = request[s]
       /\ request'[r].at \in {"intent", "save", "ok"} => request'[r].order \in Duplicates(r)
       /\ request'[r].at = "ok" => order[request'[r].order].intent \/ SaveIntent(r)
<1>1. request \in [Requests -> RequestRow]
  BY DEF CheckoutTypeOK, RequestRow, Steps
<1>2. ASSUME NEW o \in Duplicates(r), Replay(r, o) PROVE Goal
  BY <1>1, <1>2 DEF Replay, RequestRow
<1>3. ASSUME NEW step, GoTo(r, step)
      PROVE  /\ \A s \in Requests : s # r => request'[s] = request[s]
             /\ request'[r].at = step /\ request'[r].order = request[r].order
  BY <1>1, <1>3 DEF GoTo, RequestRow
<1>4. ASSUME NEW step \in {"load", "list", "place", "relookup"} \cup Refusal, GoTo(r, step)
      PROVE  Goal
  BY <1>3, <1>4 DEF Refusal
<1>5. ASSUME Lookup(r) \/ Relookup(r) PROVE Goal
  BY <1>2, <1>4, <1>5 DEF Lookup, Relookup
<1>6. ASSUME LoadCart(r) \/ RefuseOrder(r) \/ RequestFails(r) PROVE Goal
  <2>1. \E step \in {"load", "list", "place", "relookup"} \cup Refusal : GoTo(r, step)
    BY <1>6 DEF LoadCart, RefuseOrder, RequestFails, Refusal
  <2>. HIDE DEF Goal
  <2>. QED  BY <1>4, <2>1
<1>7. ASSUME ListLines(r) PROVE Goal
  <2>1. \/ \E step \in {"load", "list", "place", "relookup"} \cup Refusal : GoTo(r, step)
        \/ request' = [request EXCEPT
             ![r] = [@ EXCEPT !.at = "place", !.lines = ListCartItems(r)]]
    BY <1>7 DEF ListLines, Refusal
  <2>2. ASSUME request' = [request EXCEPT
                 ![r] = [@ EXCEPT !.at = "place", !.lines = ListCartItems(r)]]
        PROVE  Goal
    BY <1>1, <2>2 DEF RequestRow
  <2>. HIDE DEF Goal
  <2>. QED  BY <1>4, <2>1, <2>2
<1>8. ASSUME CreateIntent(r) PROVE Goal
  <2>1. request[r].at = "intent" /\ GoTo(r, "save")
    BY <1>8 DEF CreateIntent
  <2>. QED  BY <1>3, <2>1 DEF KnowsItsOrder
<1>9. ASSUME SaveIntent(r) PROVE Goal
  <2>1. request[r].at = "save" /\ GoTo(r, "ok")
    BY <1>9 DEF SaveIntent
  <2>. QED  BY <1>3, <1>9, <2>1 DEF KnowsItsOrder
<1>. HIDE DEF Goal
<1>10. Goal
  BY <1>5, <1>6, <1>7, <1>8, <1>9 DEF RequestStep
<1>. QED  BY <1>10 DEF Goal

(* Orders that are kept keep the answers of the requests that stand still. *)
LEMMA KeptKeyed ==
  ASSUME CheckoutTypeOK, OrdersKept,
         \A o \in Orders : order[o].intent => order'[o].intent
  PROVE  /\ OneOrderPerKey => OneOrderPerKey'
         /\ \A r \in Requests : Duplicates(r)' = Duplicates(r)
         /\ \A r \in Requests : KnowsItsOrder(r) /\ request'[r] = request[r] => KnowsItsOrder(r)'
         /\ ProcessedIsSettled /\ processed' = processed => ProcessedIsSettled'
<1>1. Placed' = Placed
  BY DEF OrdersKept, Placed
<1>2. \A r \in Requests : Duplicates(r)' = Duplicates(r)
  BY <1>1 DEF Duplicates, OrdersKept, Placed
<1>3. OneOrderPerKey => OneOrderPerKey'
  BY <1>1 DEF OneOrderPerKey, OrdersKept, Placed
<1>4. ASSUME NEW r \in Requests, KnowsItsOrder(r), request'[r] = request[r]
      PROVE  KnowsItsOrder(r)'
  BY <1>2, <1>4 DEF KnowsItsOrder, Duplicates, Placed
<1>5. \A e \in processed : e.order \in Orders
  BY DEF CheckoutTypeOK, Event
<1>6. ProcessedIsSettled /\ processed' = processed => ProcessedIsSettled'
  BY <1>5 DEF ProcessedIsSettled, OrdersKept
<1>. QED  BY <1>2, <1>3, <1>4, <1>6

(* Placing an order: its user had none for its key, so Duplicates grows for
   the requests with that user and key only. *)
LEMMA PlaceKeyed ==
  ASSUME CheckoutTypeOK, Keyed, NEW r \in Requests, NEW o \in Orders, PlaceOrder(r, o)
  PROVE  Keyed'
<1>1. /\ order \in [Orders -> OrderRow] /\ request \in [Requests -> RequestRow]
  BY DEF CheckoutTypeOK, OrderRow, RequestRow, Steps
<1>2. /\ o \notin Placed /\ Duplicates(r) = {}
      /\ order'[o].status = "pending" /\ ~order'[o].intent
      /\ order'[o].user = Attempt[r].user /\ order'[o].key = Attempt[r].key
      /\ \A p \in Orders : p # o => order'[p] = order[p]
  BY <1>1 DEF PlaceOrder, CreateOrder
<1>3. Placed' = Placed \cup {o}
  BY <1>2 DEF Placed
<1>4. OneOrderPerKey'
  BY <1>2, <1>3 DEF Keyed, OneOrderPerKey, Duplicates, Placed
<1>5. \A s \in Requests : Duplicates(s) \subseteq Duplicates(s)'
  BY <1>2, <1>3 DEF Duplicates, Placed
<1>6. ASSUME NEW s \in Requests PROVE KnowsItsOrder(s)'
  <2>1. CASE s = r
    <3>1. request'[r].at = "intent" /\ request'[r].order = o
      BY <1>1 DEF PlaceOrder, RequestRow
    <3>. QED  BY <1>2, <1>3, <2>1, <3>1 DEF KnowsItsOrder, Duplicates
  <2>2. CASE s # r
    <3>1. request'[s] = request[s] /\ KnowsItsOrder(s)
      BY <1>1, <2>2 DEF PlaceOrder, Keyed
    <3>2. \A p \in Duplicates(s) : p \in Orders /\ p # o
      BY <1>2 DEF Duplicates, Placed
    <3>. QED  BY <1>2, <1>5, <3>1, <3>2 DEF KnowsItsOrder
  <2>. QED  BY <2>1, <2>2
<1>7. IntentsOfPlaced'
  BY <1>2, <1>3 DEF Keyed, IntentsOfPlaced, IntentStored
<1>8. ProcessedIsSettled'
  <2>1. processed' = processed /\ \A e \in processed : e.order \in Orders
    BY DEF PlaceOrder, webhookVars, CheckoutTypeOK, Event
  <2>2. \A e \in processed : e.order # o
    BY <1>2, <2>1 DEF Keyed, ProcessedIsSettled, Placed, Terminal
  <2>. QED  BY <1>2, <2>1, <2>2 DEF Keyed, ProcessedIsSettled
<1>. QED  BY <1>4, <1>6, <1>7, <1>8 DEF Keyed

(* Any other step of a request moves that request only, and stores at most
   the intent of its order. *)
LEMMA RequestKeyed ==
  ASSUME CheckoutTypeOK, Keyed, NEW r \in Requests, RequestStep(r),
         ~ \E o \in Orders : PlaceOrder(r, o)
  PROVE  Keyed'
<1>. DEFINE o == request[r].order
<1>1. order \in [Orders -> OrderRow] /\ KnowsItsOrder(r)
  BY DEF CheckoutTypeOK, OrderRow, Keyed
<1>2. SaveIntent(r) \/ UNCHANGED order
  BY DEF RequestStep, Lookup, LoadCart, ListLines, RefuseOrder, Relookup,
         CreateIntent, RequestFails
<1>3. ASSUME SaveIntent(r)
      PROVE  /\ o \in Placed /\ order'[o].intent
             /\ order' = [order EXCEPT ![o].intent = TRUE]
             /\ request'[r].order = o
  <2>1. o \in Placed /\ o \in Orders
    BY <1>1, <1>3 DEF SaveIntent, KnowsItsOrder, Duplicates, Placed
  <2>2. request'[r].order = o
    BY <1>3 DEF SaveIntent, GoTo, CheckoutTypeOK
  <2>. QED  BY <1>1, <1>3, <2>1, <2>2 DEF SaveIntent, SetOrderPaymentIntent, OrderRow
<1>4. OrdersKept /\ \A p \in Orders : order[p].intent => order'[p].intent
  BY <1>1, <1>2, <1>3 DEF OrdersKept, OrderRow
<1>5. processed' = processed
  BY DEF RequestStep, Lookup, LoadCart, ListLines, RefuseOrder, Relookup,
         CreateIntent, SaveIntent, RequestFails, webhookVars
<1>6. OneOrderPerKey' /\ ProcessedIsSettled'
  BY <1>4, <1>5, KeptKeyed DEF Keyed
<1>7. ASSUME NEW s \in Requests PROVE KnowsItsOrder(s)'
  <2>1. CASE s # r
    <3>1. request'[s] = request[s]
      BY <1>1, <2>1, RequestMoves
    <3>. QED  BY <1>4, <3>1, KeptKeyed DEF Keyed
  <2>2. CASE s = r
    <3>1. request'[r].at \in {"intent", "save", "ok"} => request'[r].order \in Duplicates(r)'
      BY <1>1, <1>4, RequestMoves, KeptKeyed
    <3>2. request'[r].at = "ok" => order'[request'[r].order].intent
      <4>1. request'[r].at = "ok" => request'[r].order \in Orders
        BY <1>1, RequestMoves DEF Duplicates, Placed
      <4>. QED  BY <1>1, <1>3, <1>4, <4>1, RequestMoves
    <3>. QED  BY <2>2, <3>1, <3>2 DEF KnowsItsOrder
  <2>. QED  BY <2>1, <2>2
<1>8. IntentsOfPlaced'
  <2>1. Placed' = Placed
    BY <1>4 DEF OrdersKept, Placed
  <2>2. ASSUME NEW p \in Orders, IntentStored(p)' PROVE p \in Placed
    BY <1>1, <1>2, <1>3, <2>2 DEF Keyed, IntentsOfPlaced, IntentStored, OrderRow
  <2>. QED  BY <2>1, <2>2 DEF IntentsOfPlaced
<1>. QED  BY <1>6, <1>7, <1>8 DEF Keyed

(* The steps of the others leave the requests where they are; an event is
   recorded only when its order has its intent, so when it is placed, and
   the same step settles it. *)
LEMMA OthersKeyed ==
  ASSUME CheckoutTypeOK, Keyed, request' = request, Settling \/ Expires \/ Idle
  PROVE  Keyed'
<1>1. order \in [Orders -> OrderRow]
  BY DEF CheckoutTypeOK, OrderRow
<1>2. \A p \in Orders : order'[p].intent = order[p].intent
  BY <1>1 DEF Settling, Settles, Expires, Idle, OrderRow
<1>3. OrdersKept
  BY <1>1 DEF Settling, Settles, Expires, Idle, OrderRow, OrdersKept, Terminal
<1>4. OneOrderPerKey' /\ \A r \in Requests : KnowsItsOrder(r)'
  BY <1>2, <1>3, KeptKeyed DEF Keyed
<1>5. IntentsOfPlaced'
  BY <1>2, <1>3 DEF Keyed, IntentsOfPlaced, IntentStored, OrdersKept, Placed
<1>6. ProcessedIsSettled'
  <2>1. CASE processed' = processed
    BY <1>2, <1>3, <2>1, KeptKeyed DEF Keyed
  <2>2. CASE processed' # processed
    <3>1. PICK o \in Orders, status \in Terminal :
            /\ Settles(o, status) /\ IntentStored(o)
            /\ \E e \in Event : e.order = o /\ processed' = processed \cup {e}
      BY <2>2 DEF Settling, Expires, Idle
    <3>2. order[o].status # "none"
      BY <3>1 DEF Keyed, IntentsOfPlaced, Placed
    <3>3. order'[o].status \in Terminal
      BY <1>1, <3>1, <3>2 DEF Settles, OrderRow
    <3>4. \A e \in processed : e.order \in Orders
      BY DEF CheckoutTypeOK, Event
    <3>. QED  BY <1>3, <3>1, <3>3, <3>4 DEF Keyed, ProcessedIsSettled, OrdersKept
  <2>. QED  BY <2>1, <2>2
<1>. QED  BY <1>4, <1>5, <1>6 DEF Keyed

LEMMA KeyedStep == CheckoutTypeOK /\ Keyed /\ [CheckoutNext]_vars => Keyed'
<1>. SUFFICES ASSUME CheckoutTypeOK, Keyed, [CheckoutNext]_vars PROVE Keyed'
  OBVIOUS
<1>1. ASSUME NEW r \in Requests, RequestStep(r) PROVE Keyed'
  BY <1>1, PlaceKeyed, RequestKeyed
<1>2. ASSUME request' = request, ~ \E r \in Requests : RequestStep(r) PROVE Keyed'
  <2>1. ASSUME NEW c \in Carts, NEW v \in Variants, NEW q \in 0..MaxQty, EditCart(c, v, q)
        PROVE  UNCHANGED <<order, processed>>
    BY <2>1 DEF EditCart, webhookVars
  <2>2. ASSUME UNCHANGED <<order, processed>>
        PROVE  Keyed'
    BY <1>2, <2>2 DEF Keyed, OneOrderPerKey, KnowsItsOrder, IntentsOfPlaced, IntentStored,
                      ProcessedIsSettled, Duplicates, Placed
  <2>. QED  BY <1>2, <2>1, <2>2, Effects, OthersKeyed DEF RequestStep
<1>. QED  BY <1>1, <1>2, OthersLeaveRequests

LEMMA KeyedInit == CheckoutInit => Keyed
BY DEF CheckoutInit, Keyed, OneOrderPerKey, KnowsItsOrder, IntentsOfPlaced, IntentStored,
       ProcessedIsSettled, Placed, NoRow

(* The requests of a user that repeat a key are answered with one order, the
   user's own, and it can be paid: the lookup, the unique index and the
   replay agree however the requests overlap (service.go: Checkout, replay). *)
THEOREM RetriesAgree == CheckoutSpec => []AnswersAgree
<1>1. Keyed => AnswersAgree
  BY DEF Keyed, AnswersAgree, KnowsItsOrder, OneOrderPerKey, Duplicates
<1>. QED  BY <1>1, KeyedInit, KeyedStep, CheckoutTypeCorrect, PTL DEF CheckoutSpec

(* No settlement is lost to an early delivery: an event counts as processed
   only in the transaction that settles its order (webhook.go: process). *)
THEOREM EventsAreNotSwallowed == CheckoutSpec => []ProcessedIsSettled
<1>1. Keyed => ProcessedIsSettled
  BY DEF Keyed
<1>. QED  BY <1>1, KeyedInit, KeyedStep, CheckoutTypeCorrect, PTL DEF CheckoutSpec

----------------------------------------------------------------------------
(* The promise to the buyer *)

(* A request that is about to place an order has listed lines under the cap. *)
Listed ==
  \A r \in Requests : request[r].at = "place" => \A v \in Variants : request[r].lines[v] <= LineCap

LEMMA ListedStep == CheckoutTypeOK /\ Listed /\ [CheckoutNext]_vars => Listed'
<1>. SUFFICES ASSUME CheckoutTypeOK, Listed, [CheckoutNext]_vars PROVE Listed'
  OBVIOUS
<1>0. request \in [Requests -> RequestRow]
  BY DEF CheckoutTypeOK, RequestRow, Steps
<1>1. ASSUME NEW r \in Requests,
             \A s \in Requests : s # r => request'[s] = request[s],
             request'[r].at = "place" => \A v \in Variants : request'[r].lines[v] <= LineCap
      PROVE  Listed'
  BY <1>1 DEF Listed
<1>2. ASSUME NEW r \in Requests, NEW step, step # "place", GoTo(r, step)
      PROVE  Listed'
  BY <1>0, <1>1, <1>2 DEF GoTo, RequestRow
<1>3. ASSUME NEW r \in Requests, NEW o \in Orders, Replay(r, o)
      PROVE  Listed'
  BY <1>0, <1>1, <1>3 DEF Replay, RequestRow
<1>4. ASSUME NEW r \in Requests, ListLines(r)
      PROVE  Listed'
  <2>. DEFINE lines == ListCartItems(r)
  <2>1. CASE GoTo(r, "empty") \/ GoTo(r, "tooLarge")
    BY <1>2, <2>1
  <2>2. CASE /\ \A v \in Variants : lines[v] <= LineCap
             /\ request' = [request EXCEPT ![r] = [@ EXCEPT !.at = "place", !.lines = lines]]
    <3>. HIDE DEF lines
    <3>. QED  BY <1>0, <1>1, <2>2 DEF RequestRow
  <2>. QED  BY <1>4, <2>1, <2>2 DEF ListLines
<1>5. ASSUME NEW r \in Requests, NEW o \in Orders, PlaceOrder(r, o)
      PROVE  Listed'
  BY <1>0, <1>1, <1>5 DEF PlaceOrder, RequestRow
<1>6. ASSUME NEW r \in Requests, RequestStep(r)
      PROVE  Listed'
  <2>1. \A o \in Duplicates(r) : o \in Orders
    BY DEF Duplicates, Placed
  <2>2. CASE Lookup(r) \/ Relookup(r)
    BY <1>2, <1>3, <2>1, <2>2 DEF Lookup, Relookup
  <2>3. CASE LoadCart(r) \/ RefuseOrder(r) \/ CreateIntent(r) \/ SaveIntent(r) \/ RequestFails(r)
    BY <1>2, <2>3 DEF LoadCart, RefuseOrder, CreateIntent, SaveIntent, RequestFails
  <2>. QED  BY <1>4, <1>5, <1>6, <2>2, <2>3 DEF RequestStep
<1>7. ASSUME request' = request
      PROVE  Listed'
  BY <1>7 DEF Listed
<1>. QED  BY <1>6, <1>7, OthersLeaveRequests

Bought == {PurchaseOf(o) : o \in Placed}

(* An order that keeps its rows is the same purchase, whether or not its
   intent was stored. *)
LEMMA PurchaseSame ==
  ASSUME CheckoutTypeOK, NEW o \in Orders,
         /\ order'[o].user = order[o].user /\ order'[o].key = order[o].key
         /\ order'[o].cart = order[o].cart /\ order'[o].lines = order[o].lines
         /\ order'[o].status = order[o].status,
         outbox'[o] = outbox[o],
         \A v \in Variants : reservation'[<<o, v>>] = reservation[<<o, v>>]
  PROVE  PurchaseOf(o)' = PurchaseOf(o)
<1>1. \A v \in Variants : GoodsOf(<<o, v>>)' = GoodsOf(<<o, v>>)
  BY DEF GoodsOf
<1>2. Goods(o)' = Goods(o)
  BY <1>1 DEF Goods
<1>. QED  BY <1>2 DEF PurchaseOf

(* An order that changes alone is a purchase that becomes another. *)
LEMMA OneBecomes ==
  ASSUME OneOrderPerKey, NEW o \in Placed, Placed' = Placed,
         \A p \in Placed : p # o => PurchaseOf(p)' = PurchaseOf(p)
  PROVE  Bought' = (Bought \ {PurchaseOf(o)}) \cup {PurchaseOf(o)'}
<1>1. \A p \in Placed : PurchaseOf(p) = PurchaseOf(o) => p = o
  BY DEF OneOrderPerKey, PurchaseOf
<1>. QED  BY <1>1 DEF Bought

LEMMA PlaceBuys ==
  ASSUME CheckoutTypeOK, Listed, OneOrderPerKey, CartBoughtOnce, StockFollowsOrder, OutboxOncePerPaid,
         NEW r \in Requests, NEW o \in Orders, PlaceOrder(r, o)
  PROVE  \E u \in Users, k \in Keys, c \in Carts, lines \in Sale!Quantities :
           Sale!Buy(u, k, c, lines)
<1>0. /\ order \in [Orders -> OrderRow] /\ reservation \in [Lines -> Reservation]
      /\ \A p \in Orders, v \in Variants : <<p, v>> \in Lines
      /\ LineCap \in Nat /\ MaxQty \in Nat
  BY CheckoutAssumption, ConstantsAssumption DEF CheckoutTypeOK, TypeOK, OrderRow, Lines
<1>. DEFINE u == Attempt[r].user
            k == Attempt[r].key
            c == Attempt[r].cart
<1>1. u \in Users /\ k \in Keys /\ c \in Carts
  BY CheckoutAssumption
<1>2. PICK lines : lines = request[r].lines
  OBVIOUS
<1>3. /\ lines \in [Variants -> 0..LineCap]
      /\ \E v \in Variants : lines[v] > 0
  <2>1. lines \in Basket /\ \A v \in Variants : lines[v] <= LineCap
    BY <1>2 DEF PlaceOrder, Listed, CheckoutTypeOK
  <2>2. lines # Nothing
    BY <1>2 DEF PlaceOrder, ReserveInTx, Reserve
  <2>3. \A v \in Variants : lines[v] \in 0..LineCap
    BY <1>0, <2>1 DEF Basket
  <2>4. \E v \in Variants : lines[v] # 0
    BY <2>1, <2>2 DEF Basket, Nothing
  <2>. QED  BY <1>0, <2>1, <2>3, <2>4 DEF Basket
<1>4. /\ order[o].status = "none" /\ Duplicates(r) = {}
      /\ cart[c].status = "active"
      /\ \A p \in Orders : p # o => order'[p] = order[p]
      /\ order'[o] = [status |-> "pending", user |-> u, key |-> k, cart |-> c,
                      lines |-> lines, intent |-> FALSE]
      /\ outbox' = outbox
  BY <1>0, <1>2
     DEF PlaceOrder, CreateOrder, Placed, ClaimAndConvertCart, Claimable, GetCart, webhookVars
<1>5. /\ \A v \in Variants : reservation'[<<o, v>>] =
             IF lines[v] > 0 THEN [qty |-> lines[v], status |-> "held"] ELSE NoReservation
      /\ \A p \in Orders, v \in Variants :
           p # o => reservation'[<<p, v>>] = reservation[<<p, v>>]
  BY <1>0, <1>2 DEF PlaceOrder, ReserveInTx, Reserve, CreateReservations
<1>6. \A p \in Placed : PurchaseOf(p)' = PurchaseOf(p)
  BY <1>0, <1>4, <1>5, PurchaseSame DEF Placed
<1>7. Placed' = Placed \cup {o}
  BY <1>4 DEF Placed
<1>. DEFINE goods == [v \in Variants |->
              [qty |-> lines[v], state |-> IF lines[v] > 0 THEN "aside" ELSE "none"]]
            new == [user |-> u, key |-> k, cart |-> c, lines |-> lines, status |-> "pending",
                    announced |-> 0, goods |-> goods]
<1>8. PurchaseOf(o)' = new
  <2>1. ASSUME NEW v \in Variants PROVE GoodsOf(<<o, v>>)' = goods[v]
    <3>1. lines[v] \in Nat
      BY <1>0, <1>3
    <3>2. CASE lines[v] > 0
      <4>1. reservation'[<<o, v>>] = [qty |-> lines[v], status |-> "held"]
        BY <1>5, <3>2
      <4>2. GoodsOf(<<o, v>>)' = [qty |-> lines[v], state |-> "aside"]
        BY <4>1 DEF GoodsOf
      <4>. QED  BY <3>2, <4>2
    <3>3. CASE ~(lines[v] > 0)
      <4>1. lines[v] = 0
        BY <3>1, <3>3
      <4>2. reservation'[<<o, v>>] = [qty |-> 0, status |-> "none"]
        BY <1>5, <3>3 DEF NoReservation
      <4>3. GoodsOf(<<o, v>>)' = [qty |-> 0, state |-> "none"]
        BY <4>2 DEF GoodsOf
      <4>. QED  BY <3>3, <4>1, <4>3
    <3>. QED  BY <3>2, <3>3
  <2>2. Goods(o)' = goods
    BY <2>1 DEF Goods
  <2>3. outbox'[o] = 0
    BY <1>4 DEF OutboxOncePerPaid
  <2>. HIDE DEF goods
  <2>. QED  BY <1>4, <2>2, <2>3 DEF PurchaseOf
<1>9. Bought' = Bought \cup {new}
  <2>. HIDE DEF new
  <2>. QED  BY <1>6, <1>7, <1>8 DEF Bought
<1>10. \A p \in Bought : ~(p.user = u /\ p.key = k) /\ p.cart # c
  <2>1. \A q \in Placed : ~(order[q].user = u /\ order[q].key = k)
    BY <1>4 DEF Duplicates
  <2>2. \A q \in Placed : order[q].cart # c
    BY <1>1, <1>4 DEF CartBoughtOnce
  <2>. QED  BY <2>1, <2>2 DEF Bought, PurchaseOf
<1>11. Sale!Buy(u, k, c, lines)
  BY <1>3, <1>9, <1>10 DEF Sale!Buy, Bought
<1>12. lines \in Sale!Quantities
  BY <1>3 DEF Sale!Quantities
<1>. QED  BY <1>1, <1>11, <1>12

LEMMA SettlesOnce ==
  ASSUME CheckoutTypeOK, OneOrderPerKey, StockFollowsOrder, OutboxOncePerPaid, Settling
  PROVE  [Sale!PurchasesNext]_Bought
<1>0. /\ order \in [Orders -> OrderRow] /\ reservation \in [Lines -> Reservation]
      /\ outbox \in [Orders -> Nat]
      /\ \A p \in Orders, v \in Variants : <<p, v>> \in Lines
  BY DEF CheckoutTypeOK, TypeOK, OrderRow, Lines
<1>1. PICK o \in Orders, status \in Terminal : Settles(o, status)
  BY DEF Settling
<1>2. /\ \A p \in Orders : p # o => order'[p] = order[p] /\ outbox'[p] = outbox[p]
      /\ \A p \in Orders, v \in Variants :
           reservation'[<<p, v>>] =
             IF p = o /\ Held(<<p, v>>)
               THEN [qty |-> reservation[<<p, v>>].qty,
                     status |-> IF status = "paid" THEN "committed" ELSE "released"]
               ELSE reservation[<<p, v>>]
  BY <1>0, <1>1 DEF Settles
<1>3. \A p \in Orders : p # o => PurchaseOf(p)' = PurchaseOf(p)
  BY <1>0, <1>2, PurchaseSame
<1>4. CASE order[o].status # "pending"
  <2>1. \A v \in Variants : ~Held(<<o, v>>)
    BY <1>0, <1>4 DEF StockFollowsOrder
  <2>2. order' = order /\ outbox' = outbox
    BY <1>1, <1>4 DEF Settles
  <2>3. \A p \in Orders : PurchaseOf(p)' = PurchaseOf(p)
    BY <1>0, <1>2, <2>1, <2>2, PurchaseSame
  <2>4. Placed' = Placed /\ Placed \subseteq Orders
    BY <2>2 DEF Placed
  <2>. QED  BY <2>3, <2>4 DEF Bought
<1>5. CASE order[o].status = "pending"
  <2>1. /\ order' = [order EXCEPT ![o].status = status]
        /\ outbox'[o] = IF status = "paid" THEN outbox[o] + 1 ELSE outbox[o]
        /\ outbox[o] = 0
    BY <1>0, <1>1, <1>5 DEF Settles, OutboxOncePerPaid
  <2>2. /\ order'[o].user = order[o].user /\ order'[o].key = order[o].key
        /\ order'[o].cart = order[o].cart /\ order'[o].lines = order[o].lines
        /\ order'[o].status = status
    BY <1>0, <2>1 DEF OrderRow
  <2>3. Placed' = Placed /\ o \in Placed /\ Placed \subseteq Orders
    BY <1>0, <1>2, <1>5, <2>2 DEF Placed, Terminal
  <2>. DEFINE p == PurchaseOf(o)
              goods == [v \in Variants |->
                IF p.goods[v].state = "aside"
                  THEN [qty |-> p.goods[v].qty,
                        state |-> IF status = "paid" THEN "sold" ELSE "back"]
                  ELSE p.goods[v]]
              announced == IF status = "paid" THEN 1 ELSE 0
  <2>4. ASSUME NEW v \in Variants PROVE GoodsOf(<<o, v>>)' = goods[v]
    <3>1. p.goods[v] = GoodsOf(<<o, v>>)
      BY DEF PurchaseOf, Goods
    <3>2. CASE Held(<<o, v>>)
      <4>1. p.goods[v].state = "aside" /\ p.goods[v].qty = reservation[<<o, v>>].qty
        BY <3>1, <3>2 DEF GoodsOf, Held
      <4>2. reservation'[<<o, v>>] = [qty |-> reservation[<<o, v>>].qty,
                                      status |-> IF status = "paid" THEN "committed" ELSE "released"]
        BY <1>2, <3>2
      <4>3. GoodsOf(<<o, v>>)' = [qty |-> reservation[<<o, v>>].qty,
                                  state |-> IF status = "paid" THEN "sold" ELSE "back"]
        BY <4>2 DEF GoodsOf
      <4>. QED  BY <4>1, <4>3
    <3>3. CASE ~Held(<<o, v>>)
      <4>1. p.goods[v].state # "aside"
        BY <3>1, <3>3 DEF GoodsOf, Held
      <4>2. reservation'[<<o, v>>] = reservation[<<o, v>>]
        BY <1>2, <3>3
      <4>3. GoodsOf(<<o, v>>)' = GoodsOf(<<o, v>>)
        BY <4>2 DEF GoodsOf
      <4>. QED  BY <3>1, <4>1, <4>3
    <3>. QED  BY <3>2, <3>3
  <2>5. Goods(o)' = goods
    BY <2>4 DEF Goods
  <2>6. outbox'[o] = announced
    BY <2>1
  <2>. HIDE DEF goods, announced
  <2>7. PurchaseOf(o)' = [user |-> p.user, key |-> p.key, cart |-> p.cart, lines |-> p.lines,
                          status |-> status, announced |-> announced, goods |-> goods]
    <3>1. PurchaseOf(o)' = [user |-> order[o].user, key |-> order[o].key, cart |-> order[o].cart,
                            lines |-> order[o].lines, status |-> status,
                            announced |-> announced, goods |-> goods]
      BY <2>2, <2>5, <2>6 DEF PurchaseOf
    <3>2. /\ p.user = order[o].user /\ p.key = order[o].key
          /\ p.cart = order[o].cart /\ p.lines = order[o].lines
      BY DEF PurchaseOf
    <3>. QED  BY <3>1, <3>2
  <2>8. Bought' = (Bought \ {p}) \cup {PurchaseOf(o)'}
    BY <1>3, <2>3, OneBecomes
  <2>9. p.status = "pending" /\ p \in Bought
    BY <1>5, <2>3 DEF PurchaseOf, Bought
  <2>. HIDE DEF p
  <2>10. Sale!Settle(p, status)
    BY <2>7, <2>8, <2>9 DEF Sale!Settle, Sale!Becomes, Bought, goods, announced
  <2>. QED  BY <2>9, <2>10 DEF Sale!PurchasesNext, Bought, Terminal
<1>. QED  BY <1>4, <1>5

LEMMA ExpiryLapses ==
  ASSUME CheckoutTypeOK, OneOrderPerKey, StockFollowsOrder, Expires
  PROVE  [Sale!PurchasesNext]_Bought
<1>0. /\ reservation \in [Lines -> Reservation]
      /\ \A p \in Orders, v \in Variants : <<p, v>> \in Lines
      /\ order' = order /\ outbox' = outbox /\ Placed' = Placed /\ Placed \subseteq Orders
  BY DEF CheckoutTypeOK, TypeOK, Lines, Expires, Placed
<1>1. CASE \A l \in Lines : reservation'[l] = reservation[l]
  <2>1. \A p \in Orders : PurchaseOf(p)' = PurchaseOf(p)
    BY <1>0, <1>1, PurchaseSame
  <2>. QED  BY <1>0, <2>1 DEF Bought
<1>2. CASE \E l \in Lines : reservation'[l] # reservation[l]
  <2>1. PICK l \in Lines : reservation'[l] # reservation[l]
    BY <1>2
  <2>2. PICK o \in Orders, v \in Variants : l = <<o, v>>
    BY DEF Lines
  <2>3. /\ Held(l) /\ reservation'[l].qty = reservation[l].qty /\ reservation'[l].status = "expired"
        /\ \A m \in Lines : m # l => reservation'[m] = reservation[m]
    <3>1. Held(l) /\ reservation'[l] = [reservation[l] EXCEPT !.status = "expired"]
      BY <2>1 DEF Expires
    <3>2. \A m \in Lines : m # l => reservation'[m] = reservation[m]
      BY <2>1 DEF Expires
    <3>. QED  BY <1>0, <3>1, <3>2 DEF Reservation
  <2>4. order[o].status = "pending" /\ o \in Placed
    BY <2>2, <2>3 DEF StockFollowsOrder, Placed
  <2>5. \A p \in Orders : p # o => PurchaseOf(p)' = PurchaseOf(p)
    BY <1>0, <2>2, <2>3, PurchaseSame
  <2>. DEFINE p == PurchaseOf(o)
              goods == [w \in Variants |-> IF w = v THEN [qty |-> p.goods[v].qty, state |-> "back"]
                                           ELSE p.goods[w]]
  <2>6. ASSUME NEW w \in Variants PROVE GoodsOf(<<o, w>>)' = goods[w]
    <3>1. p.goods[w] = GoodsOf(<<o, w>>) /\ p.goods[v] = GoodsOf(<<o, v>>)
      BY DEF PurchaseOf, Goods
    <3>2. CASE w = v
      BY <2>2, <2>3, <3>1, <3>2 DEF GoodsOf
    <3>3. CASE w # v
      <4>1. reservation'[<<o, w>>] = reservation[<<o, w>>]
        BY <1>0, <2>2, <2>3, <3>3
      <4>2. GoodsOf(<<o, w>>)' = GoodsOf(<<o, w>>)
        BY <4>1 DEF GoodsOf
      <4>. QED  BY <3>1, <3>3, <4>2
    <3>. QED  BY <3>2, <3>3
  <2>7. Goods(o)' = goods
    BY <2>6 DEF Goods
  <2>8. p.goods[v].state = "aside" /\ p.status = "pending" /\ p \in Bought
    BY <2>2, <2>3, <2>4 DEF PurchaseOf, Goods, GoodsOf, Held, Bought
  <2>. HIDE DEF goods
  <2>9. PurchaseOf(o)' = [p EXCEPT !.goods = goods]
    BY <1>0, <2>7 DEF PurchaseOf
  <2>10. Bought' = (Bought \ {p}) \cup {PurchaseOf(o)'}
    BY <1>0, <2>4, <2>5, OneBecomes
  <2>. HIDE DEF p
  <2>11. Sale!Lapse(p, v)
    BY <2>8, <2>9, <2>10 DEF Sale!Lapse, Sale!Becomes, Bought, goods
  <2>. QED  BY <2>8, <2>11 DEF Sale!PurchasesNext, Bought
<1>. QED  BY <1>1, <1>2

(* The saga keeps the promise of Purchases: whatever is retried, duplicated,
   raced or lost, a key buys at most one cart, once, for what it was priced
   from, and an order changes together with its stock and its announcement. *)
THEOREM CheckoutImplementsPurchases == CheckoutSpec => ImplementsPurchases
<1>1. CheckoutInit => Sale!PurchasesInit /\ Listed
  BY DEF CheckoutInit, Sale!PurchasesInit, Placed, NoRow, Listed
<1>2. ASSUME CheckoutTypeOK, Listed, Keyed, CartBoughtOnce, StockFollowsOrder, OutboxOncePerPaid,
             [CheckoutNext]_vars
      PROVE  [Sale!PurchasesNext]_Bought
  <2>0. OneOrderPerKey /\ order \in [Orders -> OrderRow]
    BY <1>2 DEF Keyed, CheckoutTypeOK, OrderRow
  <2>1. ASSUME NEW r \in Requests, NEW o \in Orders, PlaceOrder(r, o)
        PROVE  Sale!PurchasesNext
    BY <1>2, <2>0, <2>1, PlaceBuys DEF Sale!PurchasesNext
  <2>2. ASSUME UNCHANGED <<outbox, reservation>>,
               \A o \in Orders :
                 /\ order'[o].user = order[o].user /\ order'[o].key = order[o].key
                 /\ order'[o].cart = order[o].cart /\ order'[o].lines = order[o].lines
                 /\ order'[o].status = order[o].status
        PROVE  Bought' = Bought
    <3>1. Placed' = Placed /\ Placed \subseteq Orders
      BY <2>2 DEF Placed
    <3>2. \A o \in Orders : PurchaseOf(o)' = PurchaseOf(o)
      BY <1>2, <2>2, PurchaseSame
    <3>. QED  BY <3>1, <3>2 DEF Bought
  <2>3. ASSUME NEW r \in Requests, SaveIntent(r)
        PROVE  Bought' = Bought
    BY <2>0, <2>2, <2>3
       DEF SaveIntent, SetOrderPaymentIntent, OrderRow, inventoryVars, webhookVars
  <2>4. ASSUME UNCHANGED <<order, outbox, reservation>>
        PROVE  Bought' = Bought
    BY <2>2, <2>4
  <2>. QED
    BY <1>2, <2>0, <2>1, <2>3, <2>4, Effects, SettlesOnce, ExpiryLapses
       DEF Idle, EditCart, inventoryVars, webhookVars
<1>3. CheckoutSpec => [](CheckoutTypeOK /\ Keyed /\ CartBoughtOnce /\ StockFollowsOrder
                           /\ OutboxOncePerPaid)
  <2>1. CheckoutSpec => []Keyed
    BY KeyedInit, KeyedStep, CheckoutTypeCorrect, PTL DEF CheckoutSpec
  <2>. QED
    BY <2>1, CheckoutTypeCorrect, CartIsBoughtOnce, StockFollows, OutboxIsExactlyOnce, PTL
<1>4. CheckoutSpec => []Listed
  BY <1>1, ListedStep, CheckoutTypeCorrect, PTL DEF CheckoutSpec
<1>. QED
  BY <1>1, <1>2, <1>3, <1>4, PTL
     DEF CheckoutSpec, ImplementsPurchases, Sale!PurchasesSpec, Bought

----------------------------------------------------------------------------
(* What becomes of the stock of an order *)

(* A line that was never reserved has an empty row. *)
EmptyRows == \A l \in Lines : reservation[l].status = "none" => reservation[l] = NoReservation

LEMMA EmptyRowsStep ==
  ASSUME CheckoutTypeOK, [CheckoutNext]_vars, EmptyRows
  PROVE  EmptyRows'
<1>1. reservation \in [Lines -> Reservation]
  BY DEF CheckoutTypeOK, TypeOK
<1>2. ASSUME \A l \in Lines : reservation'[l] = reservation[l] \/ reservation'[l].status # "none"
      PROVE  EmptyRows'
  BY <1>2 DEF EmptyRows
<1>3. ASSUME NEW r \in Requests, NEW o \in Orders, PlaceOrder(r, o) PROVE EmptyRows'
  <2>1. CreateReservations(o, request[r].lines)
    BY <1>3 DEF PlaceOrder, ReserveInTx, Reserve
  <2>. QED  BY <1>2, <2>1 DEF CreateReservations
<1>4. ASSUME Settling PROVE EmptyRows'
  <2>1. PICK o \in Orders, status \in Terminal : Settles(o, status)
    BY <1>4 DEF Settling
  <2>. QED  BY <1>2, <2>1 DEF Settles
<1>5. ASSUME Expires PROVE EmptyRows'
  <2>1. \A l \in Lines : [reservation[l] EXCEPT !.status = "expired"].status = "expired"
    BY <1>1 DEF Reservation
  <2>. QED  BY <1>2, <1>5, <2>1 DEF Expires
<1>6. ASSUME UNCHANGED reservation PROVE EmptyRows'
  BY <1>2, <1>6
<1>. QED
  BY <1>3, <1>4, <1>5, <1>6, Effects DEF Idle, SaveIntent, EditCart, inventoryVars

(* Every line of a settled order was dealt with as the settlement says: it was
   sold to a paid order and given back by an unpaid one, the whole quantity
   that was ordered.  The one exception is a line whose deadline had passed:
   the sweeper may have given it back first, also for an order that was paid
   later (engine.go: ReleaseExpired), which is all that PaidIsCommitted misses. *)
GoodsOfSettled ==
  \A o \in Orders, v \in Variants :
    LET row == reservation[<<o, v>>] IN
    order[o].status \in Terminal /\ order[o].lines[v] > 0 =>
      /\ row.qty = order[o].lines[v]
      /\ \/ row.status = IF order[o].status = "paid" THEN "committed" ELSE "released"
         \/ row.status = "expired" /\ <<o, v>> \in overdue

(* No settlement forgets a line or treats it otherwise than its order, and only
   the sweeper is ever ahead of it (webhook.go: transitionReservations). *)
THEOREM SettledGoods == CheckoutSpec => []GoodsOfSettled
<1>1. CheckoutInit => EmptyRows
  BY DEF CheckoutInit, Init, EmptyRows
<1>2. CheckoutSpec => []EmptyRows
  BY <1>1, EmptyRowsStep, CheckoutTypeCorrect, PTL DEF CheckoutSpec
<1>3. ASSUME CheckoutTypeOK, EmptyRows, StockFollowsOrder, ReservedAsOrdered, ExpiredOnlyOverdue
      PROVE  GoodsOfSettled
  <2>. SUFFICES ASSUME NEW o \in Orders, NEW v \in Variants,
                       order[o].status \in Terminal, order[o].lines[v] > 0
                PROVE  LET row == reservation[<<o, v>>] IN
                       /\ row.qty = order[o].lines[v]
                       /\ \/ row.status = IF order[o].status = "paid" THEN "committed" ELSE "released"
                          \/ row.status = "expired" /\ <<o, v>> \in overdue
    BY DEF GoodsOfSettled
  <2>. DEFINE row == reservation[<<o, v>>]
  <2>1. <<o, v>> \in Lines /\ row \in Reservation /\ o \in Placed
    BY <1>3 DEF CheckoutTypeOK, TypeOK, Lines, Placed, Terminal
  <2>2. row.qty = order[o].lines[v]
    BY <1>3, <2>1 DEF ReservedAsOrdered
  <2>3. row.status # "none"
    BY <1>3, <2>1, <2>2 DEF EmptyRows, NoReservation
  <2>4. row.status # "held"
    BY <1>3, <2>1 DEF StockFollowsOrder, Held, Terminal
  <2>5. /\ row.status = "committed" => order[o].status = "paid"
        /\ row.status = "released" => order[o].status \in {"failed", "cancelled"}
    BY <1>3, <2>1 DEF StockFollowsOrder
  <2>6. row.status = "expired" => <<o, v>> \in overdue
    BY <1>3, <2>1 DEF ExpiredOnlyOverdue
  <2>7. row.status \in {"none", "held", "committed", "released", "expired"}
    BY <2>1 DEF Reservation, Status, Outcome
  <2>8. order[o].status # "paid" => row.status # "committed"
    BY <2>5
  <2>. QED  BY <2>2, <2>3, <2>4, <2>5, <2>6, <2>7
<1>. QED
  BY <1>2, <1>3, CheckoutTypeCorrect, StockFollows, PricedIsReserved,
     CheckoutImplementsInventory, ExpiryIsLate, PTL

----------------------------------------------------------------------------
(* A payment can always be settled *)

(* The event that tells the server how the intent of order o ended. *)
EndOf(o) == [order |-> o, type |-> intent[o], n |-> 0]

Ended(o) == intent[o] \in {"succeeded", "canceled"}

(* How an intent ended was reported to the server. *)
EndIsRaised == \A o \in Orders : Ended(o) => EndOf(o) \in events

LEMMA RaisedStep ==
  ASSUME CheckoutTypeOK, [CheckoutNext]_vars, EndIsRaised
  PROVE  EndIsRaised'
<1>1. intent \in [Orders -> {"none", "open", "succeeded", "canceled"}]
  BY DEF CheckoutTypeOK
<1>. USE DEF EndIsRaised, EndOf, Ended
<1>2. ASSUME events \subseteq events',
             \A o \in Orders : intent'[o] = intent[o] \/ ~Ended(o)' \/ EndOf(o)' \in events'
      PROVE  EndIsRaised'
  BY <1>2
<1>3. ASSUME NEW o \in Orders, PaymentSucceeds(o) \/ IntentCanceled(o) PROVE EndIsRaised'
  <2>1. PICK type \in {"succeeded", "canceled"} :
          intent' = [intent EXCEPT ![o] = type] /\ Raise(o, type, 0)
    BY <1>3 DEF PaymentSucceeds, IntentCanceled
  <2>2. intent'[o] = type /\ \A p \in Orders : p # o => intent'[p] = intent[p]
    BY <1>1, <2>1
  <2>. QED  BY <1>2, <2>1, <2>2 DEF Raise
<1>4. ASSUME NEW o \in Orders, PaymentDeclined(o) PROVE EndIsRaised'
  BY <1>2, <1>4 DEF PaymentDeclined, Raise
<1>5. ASSUME NEW r \in Requests, CreateIntent(r) PROVE EndIsRaised'
  <2>1. \A o \in Orders : intent'[o] = intent[o] \/ intent'[o] = "open"
    BY <1>1, <1>5 DEF CreateIntent
  <2>. QED  BY <1>2, <1>5, <2>1 DEF CreateIntent
<1>6. ASSUME UNCHANGED gatewayVars PROVE EndIsRaised'
  BY <1>6 DEF gatewayVars
<1>. HIDE DEF EndIsRaised, EndOf, Ended
<1>7. ASSUME NEW r \in Requests, RequestStep(r), ~CreateIntent(r) PROVE UNCHANGED gatewayVars
  BY <1>7 DEF RequestStep, Lookup, LoadCart, ListLines, PlaceOrder, RefuseOrder, Relookup,
              SaveIntent, RequestFails
<1>8. ASSUME NEW e \in events, Process(e) PROVE UNCHANGED gatewayVars
  BY <1>8 DEF Process
<1>9. ASSUME OrderSweep \/ ReservationSweep \/ UNCHANGED vars PROVE UNCHANGED gatewayVars
  BY <1>9 DEF OrderSweep, ListAbandoned, CancelAbandoned, SkipAbandoned, OrderSweepFails,
              ReservationSweep, checkoutVars, vars, gatewayVars
<1>10. ASSUME NEW c \in Carts, NEW v \in Variants, NEW q \in 0..MaxQty, EditCart(c, v, q)
       PROVE  UNCHANGED gatewayVars
  BY <1>10 DEF EditCart
<1>. QED
  BY <1>3, <1>4, <1>5, <1>6, <1>7, <1>8, <1>9, <1>10 DEF CheckoutNext, Provider, Webhook

(* A payment that ended never becomes impossible to settle: as long as its
   order has its intent and is not settled, the event that settles it is out
   and not recorded as processed, and the counters cover every row that the
   settlement has to move, so that no guard of the webhook's transaction
   (InsertProcessedEvent, MarkReservation, the reserved >= qty of the stock
   update) can refuse it, whatever came in between.  It is what PaymentSettles
   rests on apart from the redelivery. *)
PaymentStaysDeliverable ==
  \A o \in Orders :
    Ended(o) /\ IntentStored(o) /\ order[o].status \notin Terminal =>
      /\ EndOf(o) \in events \ processed
      /\ order[o].status = "pending"
      /\ \A v \in Variants : Held(<<o, v>>) => reserved[v] >= reservation[<<o, v>>].qty

(* No order whose payment was decided waits for an event that cannot come or
   cannot be processed (webhook.go: process). *)
THEOREM NoPaymentIsStranded == CheckoutSpec => []PaymentStaysDeliverable
<1>1. CheckoutInit => EndIsRaised
  BY DEF CheckoutInit, EndIsRaised, Ended
<1>2. CheckoutSpec => [](EndIsRaised /\ Keyed)
  BY <1>1, RaisedStep, KeyedInit, KeyedStep, CheckoutTypeCorrect, PTL DEF CheckoutSpec
<1>3. ASSUME CheckoutTypeOK, EndIsRaised, Keyed, HeldIsCovered
      PROVE  PaymentStaysDeliverable
  <2>. SUFFICES ASSUME NEW o \in Orders, Ended(o), IntentStored(o), order[o].status \notin Terminal
                PROVE  /\ EndOf(o) \in events \ processed
                       /\ order[o].status = "pending"
                       /\ \A v \in Variants :
                            Held(<<o, v>>) => reserved[v] >= reservation[<<o, v>>].qty
    BY DEF PaymentStaysDeliverable
  <2>1. EndOf(o) \in events /\ EndOf(o).order = o
    BY <1>3 DEF EndIsRaised, EndOf
  <2>2. EndOf(o) \notin processed
    BY <1>3, <2>1 DEF Keyed, ProcessedIsSettled
  <2>3. order[o].status = "pending"
    BY <1>3 DEF Keyed, IntentsOfPlaced, Placed, CheckoutTypeOK
  <2>4. \A v \in Variants : Held(<<o, v>>) => reserved[v] >= reservation[<<o, v>>].qty
    BY <1>3 DEF HeldIsCovered, Lines
  <2>. QED  BY <2>1, <2>2, <2>3, <2>4
<1>. QED
  BY <1>2, <1>3, CheckoutTypeCorrect, CheckoutImplementsInventory, NoConservationError, PTL

----------------------------------------------------------------------------
(* The carts *)

(* The saga's carts as the cart tables of CartStore. *)
Store == INSTANCE CartStore WITH
  MaxLineQty <- MaxQty,
  owner <- [c \in Carts |-> cart[c].user],
  status <- [c \in Carts |-> cart[c].status],
  lines <- [c \in Carts |-> cart[c].lines]

(* Checkout does to the cart tables nothing but what CartStore lets a buyer
   do, and the cart service implements the same CartStore (CartProofs): the
   two services agree on the tables that they share.  Only the first state
   differs: here the carts of CartLines are there already. *)
CheckoutKeepsCarts == [][Store!StoreNext]_(Store!storeVars)

LEMMA CartsSame ==
  ASSUME UNCHANGED cart
  PROVE  UNCHANGED Store!storeVars
BY DEF Store!storeVars

LEMMA PlaceBuysCart ==
  ASSUME CheckoutTypeOK, NEW r \in Requests, ClaimAndConvertCart(r)
  PROVE  Store!Buy(Attempt[r].cart, Attempt[r].user)
<1>. DEFINE c == Attempt[r].cart
            u == Attempt[r].user
<1>1. c \in Carts /\ u \in Users
  BY CheckoutAssumption
<1>2. cart \in [Carts -> CartRow]
  BY DEF CheckoutTypeOK, CartRow
<1>3. cart[c].status = "active" /\ cart[c].user \in {Guest, u}
  BY DEF ClaimAndConvertCart, Claimable, GetCart
<1>4. /\ cart'[c].status = "converted" /\ cart'[c].user = u /\ cart'[c].lines = cart[c].lines
      /\ \A d \in Carts : d # c => cart'[d] = cart[d]
  BY <1>1, <1>2 DEF ClaimAndConvertCart, CartRow
<1>. HIDE DEF c, u
<1>5. [d \in Carts |-> cart'[d].user] = [[d \in Carts |-> cart[d].user] EXCEPT ![c] = u]
  BY <1>1, <1>4
<1>6. [d \in Carts |-> cart'[d].status]
        = [[d \in Carts |-> cart[d].status] EXCEPT ![c] = "converted"]
  BY <1>1, <1>4
<1>7. [d \in Carts |-> cart'[d].lines] = [d \in Carts |-> cart[d].lines]
  BY <1>1, <1>4
<1>8. Store!Buy(c, u)
  BY <1>1, <1>3, <1>5, <1>6, <1>7 DEF Store!Buy
<1>. QED  BY <1>8 DEF c, u

LEMMA EditEditsCart ==
  ASSUME CheckoutTypeOK, NEW c \in Carts, NEW v \in Variants, NEW q \in 0..MaxQty,
         EditCart(c, v, q)
  PROVE  Store!Edit(c, v, q)
<1>1. cart \in [Carts -> CartRow]
  BY DEF CheckoutTypeOK, CartRow
<1>. DEFINE changed == [cart[c].lines EXCEPT ![v] = q]
<1>2. /\ cart'[c].status = cart[c].status /\ cart'[c].user = cart[c].user
      /\ cart'[c].lines = changed
      /\ \A d \in Carts : d # c => cart'[d] = cart[d]
  BY <1>1 DEF EditCart, CartRow
<1>3. cart[c].status # "none"
  BY <1>1 DEF CartRow
<1>4. /\ [d \in Carts |-> cart'[d].user] = [d \in Carts |-> cart[d].user]
      /\ [d \in Carts |-> cart'[d].status] = [d \in Carts |-> cart[d].status]
  BY <1>2
<1>5. [d \in Carts |-> cart'[d].lines]
        = [[d \in Carts |-> cart[d].lines] EXCEPT ![c] = changed]
  <2>. HIDE DEF changed
  <2>. QED  BY <1>2
<1>6. [[d \in Carts |-> cart[d].lines] EXCEPT ![c] = changed]
        = [[d \in Carts |-> cart[d].lines] EXCEPT ![c][v] = q]
  OBVIOUS
<1>. HIDE DEF changed
<1>. QED  BY <1>3, <1>4, <1>5, <1>6 DEF Store!Edit

(* Placing an order is a purchase of its cart, an edit is an edit, and no other
   step of the saga touches a cart (service.go: ClaimAndConvertCart). *)
THEOREM CheckoutAndCartsAgree == CheckoutSpec => CheckoutKeepsCarts
<1>1. ASSUME CheckoutTypeOK, [CheckoutNext]_vars
      PROVE  [Store!StoreNext]_(Store!storeVars)
  <2>1. ASSUME NEW r \in Requests, NEW o \in Orders, PlaceOrder(r, o)
        PROVE  Store!StoreNext
    BY <1>1, <2>1, PlaceBuysCart, CheckoutAssumption DEF PlaceOrder, Store!StoreNext
  <2>2. ASSUME NEW c \in Carts, NEW v \in Variants, NEW q \in 0..MaxQty, EditCart(c, v, q)
        PROVE  Store!StoreNext
    BY <1>1, <2>2, EditEditsCart DEF Store!StoreNext
  <2>3. ASSUME UNCHANGED cart
        PROVE  UNCHANGED Store!storeVars
    BY <2>3, CartsSame
  <2>. QED
    BY <1>1, <2>1, <2>2, <2>3, Effects
       DEF SaveIntent, Settling, Settles, Expires, Idle, cartVars
<1>. QED  BY <1>1, CheckoutTypeCorrect, PTL DEF CheckoutSpec, CheckoutKeepsCarts

----------------------------------------------------------------------------
(* The refusals *)

CartSold(r) == \E o \in Placed : order[o].cart = Attempt[r].cart

(* A request that is answered 409 for its cart is answered truthfully: an
   order did buy the cart.  (Whose, and that it may be the request's own, is
   the finding of DuplicateIsReplayed.) *)
ConflictIsTruthful == \A r \in Requests : request[r].at = "notActive" => CartSold(r)

(* A request that passed the ownership check keeps its right to the cart until
   somebody buys it, although it is never checked again outside the
   transaction. *)
MayBuy(r) == GetCart(r).status = "converted" \/ GetCart(r).user \in {Guest, Attempt[r].user}

AdmittedMayBuy ==
  \A r \in Requests : request[r].at \in {"list", "place"} => MayBuy(r)

LEMMA SoldIsConverted ==
  ASSUME CheckoutTypeOK, CartBoughtOnce, NEW r \in Requests, GetCart(r).status # "active"
  PROVE  CartSold(r)
<1>1. Attempt[r].cart \in Carts
  BY CheckoutAssumption
<1>2. GetCart(r).status = "converted"
  BY <1>1 DEF CheckoutTypeOK, GetCart
<1>. QED  BY <1>1, <1>2 DEF CartBoughtOnce, CartSold, GetCart

(* Carts are only bought, and an order stays placed with its cart. *)
LEMMA SoldStays ==
  ASSUME CheckoutTypeOK, [CheckoutNext]_vars
  PROVE  \A r \in Requests : /\ CartSold(r) => CartSold(r)'
                             /\ MayBuy(r) => MayBuy(r)'
<1>1. cart \in [Carts -> CartRow] /\ order \in [Orders -> OrderRow]
  BY DEF CheckoutTypeOK, CartRow, OrderRow
<1>2. \A r \in Requests : Attempt[r].cart \in Carts
  BY CheckoutAssumption
<1>3. \A o \in Placed : o \in Placed' /\ order'[o].cart = order[o].cart
  <2>1. ASSUME NEW r \in Requests, NEW p \in Orders, PlaceOrder(r, p)
        PROVE  \A o \in Placed : order'[o] = order[o]
    BY <1>1, <2>1 DEF PlaceOrder, CreateOrder, Placed
  <2>2. ASSUME NEW r \in Requests, SaveIntent(r)
        PROVE  \A o \in Orders : /\ order'[o].status = order[o].status
                                 /\ order'[o].cart = order[o].cart
    BY <1>1, <2>2 DEF SaveIntent, SetOrderPaymentIntent, OrderRow
  <2>3. ASSUME Settling
        PROVE  \A o \in Placed : order'[o].status # "none" /\ order'[o].cart = order[o].cart
    BY <1>1, <2>3 DEF Settling, Settles, OrderRow, Terminal, Placed
  <2>. QED  BY <2>1, <2>2, <2>3, Effects DEF Placed, Expires, Idle, EditCart
<1>4. \A c \in Carts : \/ cart'[c].status = "converted"
                       \/ /\ cart'[c].status = cart[c].status
                          /\ cart'[c].user = cart[c].user
  <2>1. ASSUME NEW r \in Requests, NEW p \in Orders, PlaceOrder(r, p)
        PROVE  \A c \in Carts : cart'[c].status = "converted" \/ cart'[c] = cart[c]
    BY <1>1, <1>2, <2>1 DEF PlaceOrder, ClaimAndConvertCart, CartRow
  <2>2. ASSUME NEW d \in Carts, NEW v \in Variants, NEW q \in 0..MaxQty, EditCart(d, v, q)
        PROVE  \A c \in Carts : cart'[c].status = cart[c].status /\ cart'[c].user = cart[c].user
    BY <1>1, <2>2 DEF EditCart, CartRow
  <2>. QED
    BY <2>1, <2>2, Effects DEF SaveIntent, Settling, Settles, Expires, Idle, cartVars
<1>. QED  BY <1>2, <1>3, <1>4 DEF CartSold, MayBuy, GetCart, Placed

LEMMA RefusalStep ==
  ASSUME CheckoutTypeOK, CartBoughtOnce, [CheckoutNext]_vars, ConflictIsTruthful, AdmittedMayBuy
  PROVE  ConflictIsTruthful' /\ AdmittedMayBuy'
<1>0. request \in [Requests -> RequestRow]
  BY DEF CheckoutTypeOK, RequestRow, Steps
<1>1. ASSUME NEW r \in Requests,
             \A s \in Requests : s # r => request'[s] = request[s],
             request'[r].at = "notActive" => CartSold(r)',
             request'[r].at \in {"list", "place"} => MayBuy(r)'
      PROVE  ConflictIsTruthful' /\ AdmittedMayBuy'
  BY <1>1, SoldStays DEF ConflictIsTruthful, AdmittedMayBuy
<1>2. ASSUME NEW r \in Requests, NEW step, GoTo(r, step),
             step = "notActive" => GetCart(r).status # "active",
             step \in {"list", "place"} => MayBuy(r)
      PROVE  ConflictIsTruthful' /\ AdmittedMayBuy'
  <2>1. request'[r].at = step /\ \A s \in Requests : s # r => request'[s] = request[s]
    BY <1>0, <1>2 DEF GoTo, RequestRow
  <2>2. step = "notActive" => CartSold(r)'
    BY <1>2, SoldIsConverted, SoldStays
  <2>3. step \in {"list", "place"} => MayBuy(r)'
    BY <1>2, SoldStays
  <2>. QED  BY <1>1, <2>1, <2>2, <2>3
<1>3. ASSUME NEW r \in Requests, NEW o \in Orders, Replay(r, o)
      PROVE  ConflictIsTruthful' /\ AdmittedMayBuy'
  BY <1>0, <1>1, <1>3 DEF Replay, RequestRow
<1>4. ASSUME NEW r \in Requests, LoadCart(r)
      PROVE  ConflictIsTruthful' /\ AdmittedMayBuy'
  <2>1. Authorized(r, GetCart(r)) => MayBuy(r)
    BY DEF Authorized, MayBuy
  <2>. QED  BY <1>2, <1>4, <2>1 DEF LoadCart
<1>5. ASSUME NEW r \in Requests, ListLines(r)
      PROVE  ConflictIsTruthful' /\ AdmittedMayBuy'
  <2>. DEFINE lines == ListCartItems(r)
  <2>1. CASE GoTo(r, "empty") \/ GoTo(r, "tooLarge")
    BY <1>2, <2>1
  <2>2. CASE request' = [request EXCEPT ![r] = [@ EXCEPT !.at = "place", !.lines = lines]]
    <3>1. MayBuy(r)
      BY <1>5 DEF ListLines, AdmittedMayBuy
    <3>. HIDE DEF lines
    <3>2. request'[r].at = "place" /\ \A s \in Requests : s # r => request'[s] = request[s]
      BY <1>0, <2>2 DEF RequestRow
    <3>. QED  BY <1>1, <3>1, <3>2, SoldStays
  <2>. QED  BY <1>5, <2>1, <2>2 DEF ListLines
<1>6. ASSUME NEW r \in Requests, NEW o \in Orders, PlaceOrder(r, o)
      PROVE  ConflictIsTruthful' /\ AdmittedMayBuy'
  BY <1>0, <1>1, <1>6 DEF PlaceOrder, RequestRow
<1>7. ASSUME NEW r \in Requests, RefuseOrder(r)
      PROVE  ConflictIsTruthful' /\ AdmittedMayBuy'
  <2>1. ~Claimable(r) => GetCart(r).status # "active"
    <3>1. MayBuy(r)
      BY <1>7 DEF RefuseOrder, AdmittedMayBuy
    <3>. QED  BY <3>1 DEF MayBuy, Claimable
  <2>. QED  BY <1>2, <1>7, <2>1 DEF RefuseOrder
<1>8. ASSUME NEW r \in Requests, RequestStep(r)
      PROVE  ConflictIsTruthful' /\ AdmittedMayBuy'
  <2>1. \A o \in Duplicates(r) : o \in Orders
    BY DEF Duplicates, Placed
  <2>2. CASE Lookup(r) \/ Relookup(r)
    BY <1>2, <1>3, <2>1, <2>2 DEF Lookup, Relookup
  <2>3. CASE CreateIntent(r) \/ SaveIntent(r) \/ RequestFails(r)
    BY <1>2, <2>3 DEF CreateIntent, SaveIntent, RequestFails
  <2>. QED  BY <1>4, <1>5, <1>6, <1>7, <1>8, <2>2, <2>3 DEF RequestStep
<1>9. ASSUME request' = request
      PROVE  ConflictIsTruthful' /\ AdmittedMayBuy'
  BY <1>9, SoldStays DEF ConflictIsTruthful, AdmittedMayBuy
<1>. QED  BY <1>8, <1>9, OthersLeaveRequests

(* Nobody is told "cart is not active" of a cart that is still for sale: not by
   the check before the transaction, and not by ClaimAndConvertCart, which
   looks at the owner too (service.go: Checkout, reserveAndCreateOrder). *)
THEOREM ConflictsAreTruthful == CheckoutSpec => []ConflictIsTruthful
<1>1. CheckoutInit => ConflictIsTruthful /\ AdmittedMayBuy
  BY DEF CheckoutInit, ConflictIsTruthful, AdmittedMayBuy
<1>2. CheckoutSpec => [](ConflictIsTruthful /\ AdmittedMayBuy)
  BY <1>1, RefusalStep, CheckoutTypeCorrect, CartIsBoughtOnce, PTL DEF CheckoutSpec
<1>. QED  BY <1>2, PTL

----------------------------------------------------------------------------
(* What the promise of Purchases amounts to *)

(* The goods of a purchase say how it stands: set aside or lapsed while it is
   pending, sold or lapsed when it was paid, and all back otherwise; and it is
   announced once if it was paid. *)
WholePurchase(p) ==
  /\ p \in [user : Users, key : Keys, cart : Carts, lines : Sale!Quantities,
            status : {"pending"} \cup Terminal, announced : {0, 1},
            goods : [Variants -> [qty : 0..LineCap, state : {"none", "aside", "sold", "back"}]]]
  /\ p.announced = IF p.status = "paid" THEN 1 ELSE 0
  /\ \A v \in Variants :
       /\ p.goods[v].qty = p.lines[v]
       /\ p.goods[v].state \in
            IF p.lines[v] = 0 THEN {"none"}
            ELSE IF p.status = "pending" THEN {"aside", "back"}
            ELSE IF p.status = "paid" THEN {"sold", "back"}
            ELSE {"back"}

SamePurchase(p, q) == p = q \/ (~(p.user = q.user /\ p.key = q.key) /\ p.cart # q.cart)

(* In the buyer's words: every purchase is whole, and neither a key of a user
   nor a cart has two. *)
PurchasePromise ==
  /\ \A p \in Bought : WholePurchase(p)
  /\ \A p, q \in Bought : SamePurchase(p, q)

(* A purchase that becomes a whole one of the same key and cart. *)
LEMMA PromiseBecomes ==
  ASSUME PurchasePromise, NEW p \in Bought, NEW q, Sale!Becomes(p, q), WholePurchase(q),
         q.user = p.user, q.key = p.key, q.cart = p.cart
  PROVE  PurchasePromise'
<1>1. Bought' = (Bought \ {p}) \cup {q}
  BY DEF Sale!Becomes, Bought
<1>2. \A b \in Bought' : WholePurchase(b)
  BY <1>1 DEF PurchasePromise
<1>3. \A b, c \in Bought' : SamePurchase(b, c)
  BY <1>1 DEF PurchasePromise, SamePurchase
<1>. QED  BY <1>2, <1>3 DEF PurchasePromise, WholePurchase, SamePurchase

LEMMA PromiseStep == PurchasePromise /\ [Sale!PurchasesNext]_Bought => PurchasePromise'
<1>. SUFFICES ASSUME PurchasePromise, [Sale!PurchasesNext]_Bought PROVE PurchasePromise'
  OBVIOUS
<1>1. ASSUME NEW u \in Users, NEW k \in Keys, NEW c \in Carts, NEW lines \in Sale!Quantities,
             Sale!Buy(u, k, c, lines)
      PROVE  PurchasePromise'
  <2>. DEFINE goods == [v \in Variants |->
                [qty |-> lines[v], state |-> IF lines[v] > 0 THEN "aside" ELSE "none"]]
              new == [user |-> u, key |-> k, cart |-> c, lines |-> lines,
                      status |-> "pending", announced |-> 0, goods |-> goods]
  <2>1. lines \in [Variants -> 0..LineCap] /\ \A v \in Variants : lines[v] \in Nat
    <3>1. LineCap \in Int
      BY CheckoutAssumption
    <3>. QED  BY <3>1 DEF Sale!Quantities
  <2>2. WholePurchase(new)
    <3>1. goods \in [Variants -> [qty : 0..LineCap, state : {"none", "aside", "sold", "back"}]]
      BY <2>1
    <3>2. \A v \in Variants : /\ goods[v].qty = lines[v]
                              /\ goods[v].state = IF lines[v] = 0 THEN "none" ELSE "aside"
      BY <2>1
    <3>. HIDE DEF goods
    <3>. QED  BY <2>1, <3>1, <3>2 DEF WholePurchase
  <2>3. Bought' = Bought \cup {new} /\ \A p \in Bought : ~(p.user = u /\ p.key = k) /\ p.cart # c
    BY <1>1 DEF Sale!Buy, Bought
  <2>4. new.user = u /\ new.key = k /\ new.cart = c
    OBVIOUS
  <2>. HIDE DEF new
  <2>5. \A p \in Bought' : WholePurchase(p)
    BY <2>2, <2>3 DEF PurchasePromise
  <2>6. \A p, q \in Bought' : SamePurchase(p, q)
    BY <2>3, <2>4 DEF PurchasePromise, SamePurchase
  <2>. QED  BY <2>5, <2>6 DEF PurchasePromise, WholePurchase, SamePurchase
<1>2. ASSUME NEW p \in Bought, NEW status \in Terminal, Sale!Settle(p, status)
      PROVE  PurchasePromise'
  <2>. DEFINE good(v) == IF p.goods[v].state = "aside"
                THEN [qty |-> p.goods[v].qty, state |-> IF status = "paid" THEN "sold" ELSE "back"]
                ELSE p.goods[v]
              goods == [v \in Variants |-> good(v)]
              q == [user |-> p.user, key |-> p.key, cart |-> p.cart, lines |-> p.lines,
                    status |-> status, announced |-> IF status = "paid" THEN 1 ELSE 0,
                    goods |-> goods]
  <2>1. WholePurchase(p) /\ p.status = "pending"
    BY <1>2 DEF PurchasePromise, Sale!Settle
  <2>2. ASSUME NEW v \in Variants
        PROVE  /\ goods[v] \in [qty : 0..LineCap, state : {"none", "aside", "sold", "back"}]
               /\ goods[v].qty = p.lines[v]
               /\ goods[v].state \in IF p.lines[v] = 0 THEN {"none"}
                                     ELSE IF status = "paid" THEN {"sold", "back"} ELSE {"back"}
    <3>1. /\ p.goods[v] \in [qty : 0..LineCap, state : {"none", "aside", "sold", "back"}]
          /\ p.goods[v].qty = p.lines[v]
          /\ p.goods[v].state \in IF p.lines[v] = 0 THEN {"none"} ELSE {"aside", "back"}
      BY <2>1 DEF WholePurchase
    <3>. QED  BY <3>1
  <2>3. WholePurchase(q)
    <3>1. goods \in [Variants -> [qty : 0..LineCap, state : {"none", "aside", "sold", "back"}]]
      BY <2>2
    <3>. HIDE DEF goods
    <3>. QED  BY <2>1, <2>2, <3>1 DEF WholePurchase, Terminal
  <2>4. q.user = p.user /\ q.key = p.key /\ q.cart = p.cart
    OBVIOUS
  <2>5. Sale!Becomes(p, q)
    BY <1>2 DEF Sale!Settle
  <2>. HIDE DEF q
  <2>. QED  BY <2>3, <2>4, <2>5, PromiseBecomes
<1>3. ASSUME NEW p \in Bought, NEW v \in Variants, Sale!Lapse(p, v) PROVE PurchasePromise'
  <2>. DEFINE goods == [w \in Variants |-> IF w = v THEN [qty |-> p.goods[v].qty, state |-> "back"]
                                           ELSE p.goods[w]]
              q == [p EXCEPT !.goods = goods]
  <2>1. WholePurchase(p) /\ p.status = "pending" /\ p.goods[v].state = "aside"
    BY <1>3 DEF PurchasePromise, Sale!Lapse
  <2>2. ASSUME NEW w \in Variants
        PROVE  /\ goods[w] \in [qty : 0..LineCap, state : {"none", "aside", "sold", "back"}]
               /\ goods[w].qty = p.lines[w]
               /\ goods[w].state \in IF p.lines[w] = 0 THEN {"none"} ELSE {"aside", "back"}
    <3>1. /\ p.goods[w] \in [qty : 0..LineCap, state : {"none", "aside", "sold", "back"}]
          /\ p.goods[w].qty = p.lines[w]
          /\ p.goods[w].state \in IF p.lines[w] = 0 THEN {"none"} ELSE {"aside", "back"}
      BY <2>1 DEF WholePurchase
    <3>. QED  BY <2>1, <3>1
  <2>3. goods \in [Variants -> [qty : 0..LineCap, state : {"none", "aside", "sold", "back"}]]
    BY <2>2
  <2>4. Sale!Becomes(p, q)
    BY <1>3 DEF Sale!Lapse
  <2>. HIDE DEF goods
  <2>5. /\ q.user = p.user /\ q.key = p.key /\ q.cart = p.cart /\ q.lines = p.lines
        /\ q.status = p.status /\ q.announced = p.announced /\ q.goods = goods
        /\ q \in [user : Users, key : Keys, cart : Carts, lines : Sale!Quantities,
                  status : {"pending"} \cup Terminal, announced : {0, 1},
                  goods : [Variants -> [qty : 0..LineCap, state : {"none", "aside", "sold", "back"}]]]
    BY <2>1, <2>3 DEF WholePurchase
  <2>. HIDE DEF q
  <2>6. WholePurchase(q)
    BY <2>1, <2>2, <2>5 DEF WholePurchase
  <2>. QED  BY <2>4, <2>5, <2>6, PromiseBecomes
<1>4. ASSUME Bought' = Bought PROVE PurchasePromise'
  BY <1>4 DEF PurchasePromise, WholePurchase, SamePurchase
<1>. QED  BY <1>1, <1>2, <1>3, <1>4 DEF Sale!PurchasesNext, Bought, Terminal

(* Whatever implements Purchases gives every buyer whole purchases, one for a
   key and one for a cart. *)
THEOREM PurchasesKeepThePromise == ImplementsPurchases => []PurchasePromise
<1>1. Sale!PurchasesInit => PurchasePromise
  BY DEF Sale!PurchasesInit, PurchasePromise, Bought
<1>2. PurchasePromise /\ [Sale!PurchasesNext]_{PurchaseOf(o) : o \in Placed} => PurchasePromise'
  BY PromiseStep DEF Bought
<1>. QED  BY <1>1, <1>2, PTL DEF ImplementsPurchases, Sale!PurchasesSpec

(* So the saga does, with all its retries, races, late events and sweeps. *)
THEOREM BuyersGetWholePurchases == CheckoutSpec => []PurchasePromise
BY CheckoutImplementsPurchases, PurchasesKeepThePromise, PTL

(* A purchase is never lost or rewritten: it keeps its key, its cart and what
   was ordered, what was settled stays settled, and goods that were sold or
   went back stay so.  Only what is set aside can still change. *)
Continues(p, q) ==
  /\ q.user = p.user /\ q.key = p.key /\ q.cart = p.cart /\ q.lines = p.lines
  /\ p.status # "pending" => q.status = p.status /\ q.announced = p.announced
  /\ \A v \in Variants : p.goods[v].state # "aside" => q.goods[v] = p.goods[v]

PurchasesLast == [][\A p \in Bought : \E q \in Bought' : Continues(p, q)]_Bought

(* No retry, event or sweep takes a purchase away or changes what is final in
   it (service.go: Checkout, cancelAbandoned; webhook.go: process). *)
THEOREM NothingBoughtIsLost == CheckoutSpec => PurchasesLast
<1>1. ASSUME PurchasePromise, Sale!PurchasesNext
      PROVE  \A p \in Bought : \E q \in Bought' : Continues(p, q)
  <2>1. ASSUME NEW p \in Bought, NEW q, Sale!Becomes(p, q), Continues(p, q)
        PROVE  \A b \in Bought : \E c \in Bought' : Continues(b, c)
    <3>1. Bought' = (Bought \ {p}) \cup {q}
      BY <2>1 DEF Sale!Becomes, Bought
    <3>2. \A b : Continues(b, b)
      BY DEF Continues
    <3>. QED  BY <2>1, <3>1, <3>2
  <2>2. ASSUME NEW u \in Users, NEW k \in Keys, NEW c \in Carts, NEW lines \in Sale!Quantities,
               Sale!Buy(u, k, c, lines)
        PROVE  \A b \in Bought : \E d \in Bought' : Continues(b, d)
    <3>1. Bought \subseteq Bought'
      BY <2>2 DEF Sale!Buy, Bought
    <3>2. \A b : Continues(b, b)
      BY DEF Continues
    <3>. QED  BY <3>1, <3>2
  <2>3. ASSUME NEW p \in Bought, NEW status \in Terminal, Sale!Settle(p, status)
        PROVE  \A b \in Bought : \E c \in Bought' : Continues(b, c)
    <3>. DEFINE goods == [v \in Variants |-> IF p.goods[v].state = "aside"
                  THEN [qty |-> p.goods[v].qty, state |-> IF status = "paid" THEN "sold" ELSE "back"]
                  ELSE p.goods[v]]
                q == [user |-> p.user, key |-> p.key, cart |-> p.cart, lines |-> p.lines,
                      status |-> status, announced |-> IF status = "paid" THEN 1 ELSE 0,
                      goods |-> goods]
    <3>1. Sale!Becomes(p, q) /\ p.status = "pending"
      BY <2>3 DEF Sale!Settle
    <3>2. \A v \in Variants : p.goods[v].state # "aside" => goods[v] = p.goods[v]
      OBVIOUS
    <3>. HIDE DEF goods
    <3>3. Continues(p, q)
      BY <3>1, <3>2 DEF Continues
    <3>. HIDE DEF q
    <3>. QED  BY <2>1, <3>1, <3>3
  <2>4. ASSUME NEW p \in Bought, NEW v \in Variants, Sale!Lapse(p, v)
        PROVE  \A b \in Bought : \E c \in Bought' : Continues(b, c)
    <3>. DEFINE goods == [w \in Variants |-> IF w = v THEN [qty |-> p.goods[v].qty, state |-> "back"]
                                             ELSE p.goods[w]]
                q == [p EXCEPT !.goods = goods]
    <3>1. Sale!Becomes(p, q) /\ p.goods[v].state = "aside" /\ WholePurchase(p)
      BY <1>1, <2>4 DEF Sale!Lapse, PurchasePromise
    <3>2. \A w \in Variants : p.goods[w].state # "aside" => goods[w] = p.goods[w]
      BY <3>1
    <3>. HIDE DEF goods
    <3>3. /\ q.user = p.user /\ q.key = p.key /\ q.cart = p.cart /\ q.lines = p.lines
          /\ q.status = p.status /\ q.announced = p.announced /\ q.goods = goods
      BY <3>1 DEF WholePurchase
    <3>. HIDE DEF q
    <3>4. Continues(p, q)
      BY <3>2, <3>3 DEF Continues
    <3>. QED  BY <2>1, <3>1, <3>4
  <2>. HIDE DEF Continues
  <2>. QED  BY <1>1, <2>2, <2>3, <2>4 DEF Sale!PurchasesNext, Bought, Terminal
<1>2. PurchasePromise /\ [Sale!PurchasesNext]_{PurchaseOf(o) : o \in Placed}
        => [\A p \in Bought : \E q \in Bought' : Continues(p, q)]_Bought
  BY <1>1 DEF Bought
<1>. QED
  BY <1>2, CheckoutImplementsPurchases, BuyersGetWholePurchases, PTL
     DEF ImplementsPurchases, Sale!PurchasesSpec, PurchasesLast
=============================================================================
