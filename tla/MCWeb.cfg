SPECIFICATION MCSpec
CONSTANTS
  Changes = {m1, m2}
  Unknown = Unknown
  MaxAttempts = 2
  MaxKeys = 3
  MaxStoreOrders = 3
  MockStock = 3
  CartQty = 2
INVARIANTS
  WebTypeOK
  QuietIsServers
  OneOrderPerAttempt
PROPERTY SpinnerGivesUp
CHECK_DEADLOCK FALSE
