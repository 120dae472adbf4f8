SPECIFICATION FairTxSpec
CONSTANTS
  v1 = v1
  v2 = v2
  Nowhere = Nowhere
  NoImage = NoImage
  Orders = {o1, o2}
  Variants = {v1, v2}
  Sessions = {t1, t2}
  Sweepers = {}
  MaxQty = 1
  SweepLimit = 1
  InitialStock <- MCStock
PROPERTY TransactionsEnd
CHECK_DEADLOCK FALSE
