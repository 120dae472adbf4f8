---------------------------- MODULE MCCheckout -----------------------------
(* Instances of Checkout. *)
EXTENDS Checkout, TLC

CONSTANTS u1, u2, c1, c2, k1, r1, r2, r3, v1, v2

Symmetry == Permutations(Orders)

Ask(u, c, cookie, k) == [user |-> u, cart |-> c, cookie |-> cookie, key |-> k]

(* One user, one cart: a double click and a retry. *)
RetryAttempt == r1 :> Ask(u1, c1, NoCart, k1) @@ r2 :> Ask(u1, c1, NoCart, k1)
RetryOwner == c1 :> u1
RetryLines == c1 :> (v1 :> 1 @@ v2 :> 1)
RetryStock == v1 :> 1 @@ v2 :> 1

(* Two users present the cookie of one guest cart under the same raw key, and
   one of them uses that key for a second cart too, which wants the same unit
   of stock and starts above the line cap.  Edits may add a second variant. *)
ContentionAttempt == r1 :> Ask(u1, c1, c1, k1) @@ r2 :> Ask(u2, c1, c1, k1)
                  @@ r3 :> Ask(u2, c2, NoCart, k1)
ContentionOwner == c1 :> Guest @@ c2 :> u2
ContentionLines == c1 :> (v1 :> 1 @@ v2 :> 0) @@ c2 :> (v1 :> 2 @@ v2 :> 0)
ContentionStock == v1 :> 1 @@ v2 :> 1
=============================================================================
