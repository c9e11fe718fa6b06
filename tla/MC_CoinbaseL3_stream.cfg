CONSTANTS
  o1 = o1
  o2 = o2
  o3 = o3
  OrderIds <- MCOrderIds
  Buys <- MCBuys
  InitOrders <- MCInitOrders
  Prices = {1, 2}
  MaxSize = 2
  MaxSeq = 4
  MaxDrops = 1
  MaxFails = 2
  TopN = 1
  FallbackAfter = 2
  AllowFallback = TRUE
  None = None
SPECIFICATION Spec
CHECK_DEADLOCK FALSE
INVARIANT FallbackTakesNoMessages
