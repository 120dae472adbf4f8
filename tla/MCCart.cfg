SYMMETRY Symmetry
SPECIFICATION CartServiceSpec
CONSTANTS
  b1 = b1
  b2 = b2
  u1 = u1
  v1 = v1
  r1 = r1
  r2 = r2
  r3 = r3
  Guest = Guest
  NoCart = NoCart
  NoItem = NoItem
  NoVariant = NoVariant
  NoCall = NoCall
  Carts = {c1, c2}
  Users = {u1}
  Variants = {v1}
  Items = {i1, i2}
  MaxLineQty = 2
  Browsers = {b1, b2}
  Requests = {r1, r2, r3}
  Calls <- MCCalls
  Account <- MCAccount
INVARIANTS
  CartServiceTypeOK
  OneActiveCart
  CookieIsUnowned
  AddsAccumulate
PROPERTIES
  WritesStayHome
  ImplementsStore
CHECK_DEADLOCK FALSE
