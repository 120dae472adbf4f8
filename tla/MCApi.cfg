SPECIFICATION MCSpec
CONSTANTS
  h1 = h1
  h2 = h2
  h3 = h3
  h4 = h4
  old = old
  new = new
  p1 = p1
  p2 = p2
  p3 = p3
  q1 = q1
  q2 = q2
  k1 = k1
  k2 = k2
  b1 = b1
  o1 = o1
  o2 = o2
  o3 = o3
  o4 = o4
  u1 = u1
  u2 = u2
  c1 = c1
  NoToken = NoToken
  AnyKind = AnyKind
  Absent = Absent
  Malformed = Malformed
  NoOrder = NoOrder
  SigningKeys = {old, new}
  MaxRotations = 1
  Handlers = {h1, h2, h3, h4}
  Probe = {h3}
  MaxConns = 1
  Guard <- MCGuard
  Work <- MCWork
  Bearer <- MCBearer
  Products = {p1, p2, p3}
  Variants = {q1, q2}
  Kind <- MCKind
  Name <- MCName
  CreatedAt <- MCCreatedAt
  ProductOf <- MCProductOf
  MaxPrice = 2
  MaxCatalogueEdits = 2
  Browsing = {b1}
  Wanted <- MCWanted
  IntMax = 32
  Int32Max = 16
  DefaultLimit = 1
  MaxLimit = 2
  MaxOffset = 10
  Placed = {o1, o2, o3, o4}
  Buyer <- MCBuyer
  Items <- MCItems
  Viewers = {c1}
  Viewer <- MCViewer
  Limits = {0, 2, 3}
INVARIANTS
  PartsTypeOK
  OrderlyExit
  ItemsAgreeWithTotal
  PagesShowEachOnce
  TotalCoversPage
  WalkMissesNothing
  DetailIsWhole
PROPERTIES
  PoolServesAll
  ShutdownEnds
CHECK_DEADLOCK FALSE
