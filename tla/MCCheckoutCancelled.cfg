SYMMETRY Symmetry
SPECIFICATION CheckoutSpec
CONSTANTS
  u1 = u1
  u2 = u2
  c1 = c1
  c2 = c2
  k1 = k1
  r1 = r1
  r2 = r2
  r3 = r3
  v1 = v1
  v2 = v2
  Guest = Guest
  NoCart = NoCart
  NoKey = NoKey
  NoOrder = NoOrder
  Users = {u1}
  Carts = {c1}
  Keys = {k1}
  Requests = {r1, r2}
  Orders = {o1, o2}
  Variants = {v1, v2}
  Sweepers = {s1}
  MaxQty = 1
  SweepLimit = 1
  LineCap = 1
  MaxDeclines = 1
  MaxEdits = 0
  InitialStock <- RetryStock
  Attempt <- RetryAttempt
  CartOwner <- RetryOwner
  CartLines <- RetryLines
INVARIANT CancelledIsNeverCharged
CHECK_DEADLOCK FALSE
