CONSTANTS
  Prices <- MCPrices
  MaxQty = 1
  MaxId = 2
  MaxDrops = 0
  MaxFails = 0
  TopN = 1
  EmitFull = FALSE
  None = None
SPECIFICATION Spec
PROPERTY EveryRetryBacksOff
CHECK_DEADLOCK FALSE
