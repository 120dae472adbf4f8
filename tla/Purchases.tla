----------------------------- MODULE Purchases -----------------------------
(***************************************************************************)
(* What POST /checkout and its aftermath promise to a buyer.  A purchase   *)
(* is known by its user and Idempotency-Key alone: retries, concurrent     *)
(* duplicates, crashes and repeated webhooks leave no trace in it.  It     *)
(* takes one cart, gets all of its goods or does not come about, and is    *)
(* settled once, with its goods and its announcement in the same step.     *)
(* Checkout implements it.                                                 *)
(***************************************************************************)
EXTENDS Integers

CONSTANTS
  Users, Carts, Keys, Variants,
  LineCap  \* the per-line cap of a checkout

VARIABLE purchases

Quantities == [Variants -> 0..LineCap]

PurchasesInit == purchases = {}

Becomes(p, q) == purchases' = (purchases \ {p}) \cup {q}

(* All of the lines are set aside.  A key buys once, and so does a cart. *)
Buy(u, k, c, lines) ==
  /\ \E v \in Variants : lines[v] > 0
  /\ \A p \in purchases : ~(p.user = u /\ p.key = k) /\ p.cart # c
  /\ purchases' = purchases \cup
       {[user |-> u, key |-> k, cart |-> c, lines |-> lines,
         status |-> "pending", announced |-> 0,
         goods |-> [v \in Variants |->
           [qty |-> lines[v], state |-> IF lines[v] > 0 THEN "aside" ELSE "none"]]]}

(* The goods that are still set aside are sold, or go back. *)
Settle(p, status) ==
  /\ p.status = "pending"
  /\ Becomes(p,
       [user |-> p.user, key |-> p.key, cart |-> p.cart, lines |-> p.lines,
        status |-> status, announced |-> IF status = "paid" THEN 1 ELSE 0,
        goods |-> [v \in Variants |->
          IF p.goods[v].state = "aside"
            THEN [qty |-> p.goods[v].qty, state |-> IF status = "paid" THEN "sold" ELSE "back"]
            ELSE p.goods[v]]])

(* Nobody paid in time: goods that were set aside go back. *)
Lapse(p, v) ==
  /\ p.status = "pending" /\ p.goods[v].state = "aside"
  /\ Becomes(p, [p EXCEPT !.goods =
       [w \in Variants |-> IF w = v THEN [qty |-> p.goods[v].qty, state |-> "back"]
                           ELSE p.goods[w]]])

PurchasesNext ==
  \/ \E u \in Users, k \in Keys, c \in Carts, lines \in Quantities : Buy(u, k, c, lines)
  \/ \E p \in purchases :
       \/ \E status \in {"paid", "failed", "cancelled"} : Settle(p, status)
       \/ \E v \in Variants : Lapse(p, v)

PurchasesSpec == PurchasesInit /\ [][PurchasesNext]_purchases
=============================================================================
