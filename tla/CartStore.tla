----------------------------- MODULE CartStore -----------------------------
(***************************************************************************)
(* What checkout relies on of the cart tables (carts and cart_items): a    *)
(* cart changes line by line, never above the cap, belongs to one session, *)
(* and is bought once, by its owner or by whoever claims it with that.     *)
(* EditCart of Checkout is Edit here.  Cart implements it.                 *)
(***************************************************************************)
EXTENDS Integers

CONSTANTS
  Carts, Users, Variants,
  MaxLineQty,  \* cart.MaxLineQty, 999, and the CHECK of migration 0004
  Guest        \* user_id NULL: not a user

VARIABLES
  owner,   \* carts.user_id
  status,  \* carts.status, "none" for no row
  lines    \* the quantity of each variant in each cart

storeVars == <<owner, status, lines>>

StoreInit ==
  /\ owner = [c \in Carts |-> Guest]
  /\ status = [c \in Carts |-> "none"]
  /\ lines = [c \in Carts |-> [v \in Variants |-> 0]]

Open(c, u) ==
  /\ status[c] = "none"
  /\ u # Guest => \A d \in Carts : ~(owner[d] = u /\ status[d] = "active")
  /\ owner' = [owner EXCEPT ![c] = u]
  /\ status' = [status EXCEPT ![c] = "active"]
  /\ UNCHANGED lines

Edit(c, v, q) ==
  /\ status[c] # "none"
  /\ lines' = [lines EXCEPT ![c][v] = q]
  /\ UNCHANGED <<owner, status>>

Buy(c, u) ==
  /\ status[c] = "active"
  /\ owner[c] \in {Guest, u}
  /\ owner' = [owner EXCEPT ![c] = u]
  /\ status' = [status EXCEPT ![c] = "converted"]
  /\ UNCHANGED lines

StoreNext ==
  \E c \in Carts :
    \/ \E u \in Users \cup {Guest} : Open(c, u)
    \/ \E v \in Variants, q \in 0..MaxLineQty : Edit(c, v, q)
    \/ \E u \in Users : Buy(c, u)

StoreSpec == StoreInit /\ [][StoreNext]_storeVars
=============================================================================
