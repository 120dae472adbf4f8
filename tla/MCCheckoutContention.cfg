SYMMETRY Symmetry
SPECIFICATION CheckoutSpec
CONSTANTS
  u1 = u1
  u2 = u2
  c1 = c1
  c2 = c2
  k1 = k1
  r1 = r1
  r2 = r2
  r3 = r3
  v1 = v1
  v2 = v2
  Guest = Guest
  NoCart = NoCart
  NoKey = NoKey
  NoOrder = NoOrder
  Users = {u1, u2}
  Carts = {c1, c2}
  Keys = {k1}
  Requests = {r1, r2, r3}
  Orders = {o1, o2}
  Variants = {v1, v2}
  Sweepers = {s1}
  MaxQty = 2
  SweepLimit = 1
  LineCap = 1
  MaxDeclines = 0
  MaxEdits = 1
  InitialStock <- ContentionStock
  Attempt <- ContentionAttempt
  CartOwner <- ContentionOwner
  CartLines <- ContentionLines
INVARIANTS
  CheckoutTypeOK
  CartBoughtOnce
  AnswersAgree
  ReservedAsOrdered
PROPERTIES
  ImplementsPurchases
CHECK_DEADLOCK FALSE
