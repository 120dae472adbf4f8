-------------------------- MODULE CheckoutAttempt ---------------------------
(***************************************************************************)
(* Paying in the web client (hooks/useCheckout.ts, useMockPay), with the   *)
(* backend it runs against in mock mode (mocks/store.ts).  An attempt is   *)
(* one life of attemptRef: a key, an order, and a mutation with two steps, *)
(* checkout and confirm, either of which may fail before or after the      *)
(* server dealt with it.  Leaving the page or paying successfully begins   *)
(* a new attempt; the old one's mutation goes on.                          *)
(***************************************************************************)
EXTENDS Naturals, FiniteSets

CONSTANTS
  MaxAttempts, MaxKeys, MaxStoreOrders,  \* bounds
  MockStock,  \* units of the cart's variant at the start
  CartQty     \* units a filled cart has

ASSUME AttemptAssumption ==
  /\ MaxAttempts \in Nat \ {0} /\ MaxKeys \in Nat /\ MaxStoreOrders \in Nat
  /\ MockStock \in Nat /\ CartQty \in Nat \ {0}

Attempts == 1..MaxAttempts        \* in the order they are begun
Keys == 1..MaxKeys                \* idempotency keys, in the order they are drawn
StoreOrders == 1..MaxStoreOrders  \* the mock's order ids

VARIABLES
  current,     \* the attempt of the page
  attempt,     \* key, order and step of each attempt, 0 for null
  drawnBy,     \* the attempt that drew each key, 0 before
  requests,    \* checkout requests the server has not dealt with
  storeOrders, \* the orders of the mock
  stock, cartQty

attemptVars == <<current, attempt, drawnBy, requests, storeOrders, stock, cartQty>>
storeVars == <<storeOrders, stock, cartQty>>

Outcomes == {"succeeded", "failed"}
Created == {o \in StoreOrders : storeOrders[o].key # 0}
Fresh == [key |-> 0, order |-> 0, step |-> "idle", outcome |-> "succeeded"]

(* crypto.randomUUID *)
NextKey == Cardinality({k \in Keys : drawnBy[k] # 0}) + 1

(* Mutant: a key is drawn for every try. *)
KeyOfTry(i) == NextKey

(* One key per attempt, kept across its retries. *)
KeyOf(i) == IF attempt[i].key = 0 THEN NextKey ELSE attempt[i].key

(* The mutation starts: checkout, or at once confirm if the attempt has its
   order.  The button is disabled while it runs. *)
Pay(outcome) ==
  LET mine == attempt[current]
      key == KeyOf(current) IN
  /\ mine.step = "idle"
  /\ key \in Keys
  /\ drawnBy' = [drawnBy EXCEPT ![key] = current]
  /\ IF mine.order # 0
       THEN /\ attempt' = [attempt EXCEPT ![current] = [@ EXCEPT !.key = key, !.step = "confirm"]]
            /\ UNCHANGED requests
       ELSE /\ attempt' = [attempt EXCEPT ![current] =
                 [@ EXCEPT !.key = key, !.step = "checkout", !.outcome = outcome]]
            /\ requests' = requests \cup {[key |-> key, outcome |-> outcome]}
  /\ UNCHANGED <<current, storeVars>>

OrderOf(key) == {o \in Created : storeOrders[o].key = key}

(* createOrder: replayed by key; from the cart otherwise; null for an empty
   cart.  No stock is reserved. *)
CreateStoreOrder(q) ==
  /\ q \in requests
  /\ requests' = requests \ {q}
  /\ LET o == Cardinality(Created) + 1 IN
     IF OrderOf(q.key) # {} \/ cartQty = 0 THEN UNCHANGED storeOrders
     ELSE /\ o \in StoreOrders
          /\ storeOrders' = [storeOrders EXCEPT ![o] =
               [key |-> q.key, qty |-> cartQty, outcome |-> q.outcome, state |-> "open"]]
  /\ UNCHANGED <<current, attempt, drawnBy, stock, cartQty>>

(* The answer to checkout. *)
CheckoutAnswered(i) ==
  /\ attempt[i].step = "checkout"
  /\ \E o \in OrderOf(attempt[i].key) :
       attempt' = [attempt EXCEPT ![i] = [@ EXCEPT !.order = o, !.step = "confirm"]]
  /\ UNCHANGED <<current, drawnBy, requests, storeVars>>

(* checkout or confirm fails; the server may yet deal with the checkout. *)
StepFails(i) ==
  /\ attempt[i].step \in {"checkout", "confirm"}
  /\ attempt' = [attempt EXCEPT ![i].step = "idle"]
  /\ UNCHANGED <<current, drawnBy, requests, storeVars>>

(* Mutant: the stock is not looked at again. *)
SettlesUnchecked(o) ==
  /\ storeOrders' = [storeOrders EXCEPT ![o].state = "confirmed"]
  /\ stock' = stock - storeOrders[o].qty /\ cartQty' = 0

(* confirmMockPayment for a payment that succeeds: an order that lost its stock
   to another is cancelled, any other takes it and empties the cart. *)
Settles(o) ==
  IF storeOrders[o].qty > stock
    THEN /\ storeOrders' = [storeOrders EXCEPT ![o].state = "oversold"]
         /\ UNCHANGED <<stock, cartQty>>
    ELSE /\ storeOrders' = [storeOrders EXCEPT ![o].state = "confirmed"]
         /\ stock' = stock - storeOrders[o].qty /\ cartQty' = 0

ConfirmServed(o) ==
  IF storeOrders[o].outcome = "succeeded" THEN Settles(o)
  ELSE storeOrders' = [storeOrders EXCEPT ![o].state = "confirmed"] /\ UNCHANGED <<stock, cartQty>>

(* confirm: refused as oversold, answered, or its answer is lost.  An answer
   ends the attempt; if it is the page's, a new one begins. *)
Confirm(i) ==
  /\ attempt[i].step = "confirm"
  /\ ConfirmServed(attempt[i].order)
  /\ \/ /\ storeOrders'[attempt[i].order].state = "confirmed"
        /\ attempt' = [attempt EXCEPT ![i].step = "paid"]
        /\ current' = IF i = current /\ i + 1 \in Attempts THEN i + 1 ELSE current
     \/ attempt' = [attempt EXCEPT ![i].step = "idle"] /\ UNCHANGED current
  /\ UNCHANGED <<drawnBy, requests>>

(* The page is left and opened again, or the cart is another one. *)
Remount ==
  /\ current + 1 \in Attempts
  /\ current' = current + 1
  /\ UNCHANGED <<attempt, drawnBy, requests, storeVars>>

(* addToCart, afterwards. *)
FillCart ==
  /\ cartQty = 0
  /\ cartQty' = CartQty
  /\ UNCHANGED <<current, attempt, drawnBy, requests, storeOrders, stock>>

AttemptInit ==
  /\ current = 1
  /\ attempt = [i \in Attempts |-> Fresh]
  /\ drawnBy = [k \in Keys |-> 0]
  /\ requests = {}
  /\ storeOrders = [o \in StoreOrders |-> [key |-> 0, qty |-> 0, outcome |-> "failed", state |-> "open"]]
  /\ stock = MockStock /\ cartQty = CartQty

AttemptNext ==
  \/ \E outcome \in Outcomes : Pay(outcome)
  \/ \E q \in requests : CreateStoreOrder(q)
  \/ \E i \in Attempts : CheckoutAnswered(i) \/ StepFails(i) \/ Confirm(i)
  \/ Remount \/ FillCart

AttemptSpec == AttemptInit /\ [][AttemptNext]_attemptVars

----------------------------------------------------------------------------
AttemptTypeOK ==
  /\ current \in Attempts
  /\ attempt \in [Attempts -> [key : Keys \cup {0}, order : StoreOrders \cup {0},
                               step : {"idle", "checkout", "confirm", "paid"},
                               outcome : Outcomes]]
  /\ drawnBy \in [Keys -> Attempts \cup {0}]
  /\ storeOrders \in [StoreOrders -> [key : Keys \cup {0}, qty : Nat, outcome : Outcomes,
                                      state : {"open", "confirmed", "oversold"}]]
  /\ stock \in Nat /\ cartQty \in Nat

(* "a transient confirm failure never creates a second order on retry"
   (useCheckout.ts:27-31): however often an attempt is retried and its answers
   are lost or late, the server has at most one order of it, and that is the
   one the attempt confirms. *)
OneOrderPerAttempt ==
  /\ \A o, p \in Created :
       drawnBy[storeOrders[o].key] = drawnBy[storeOrders[p].key] => o = p
  /\ \A i \in Attempts :
       attempt[i].order # 0 => drawnBy[storeOrders[attempt[i].order].key] = i
=============================================================================
