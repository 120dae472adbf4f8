------------------------------- MODULE MCCart -------------------------------
(* An instance of Cart: two browsers of one user and three requests.        *)
EXTENDS Cart, TLC

CONSTANTS b1, b2, u1, v1, r1, r2, r3

Symmetry == Permutations(Carts) \cup Permutations(Items)

MCAccount == [b \in Browsers |-> u1]

Ask(b, op, v, q) == [browser |-> b, op |-> op, variant |-> v, qty |-> q]

(* Two adds fill a line up to the cap, or exceed it; an update or a removal may
   take their place, from either browser. *)
MCCalls ==
  r1 :> {Ask(b1, "add", v1, 1)} @@
  r2 :> {Ask(b2, "add", v1, 1), Ask(b2, "add", v1, 2), Ask(b2, "update", NoVariant, 2)} @@
  r3 :> {Ask(b1, "remove", NoVariant, 0), Ask(b1, "view", NoVariant, 0),
         Ask(b2, "add", NoVariant, 1), Ask(b2, "update", NoVariant, 3)}
=============================================================================
