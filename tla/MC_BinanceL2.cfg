CONSTANTS
  Prices <- MCPrices
  MaxQty = 1
  MaxId = 3
  MaxDrops = 1
  MaxFails = 1
  TopN = 1
  EmitFull = FALSE
  None = None
SPECIFICATION Spec
INVARIANTS TypeOK BookMatchesVenue PublishedMatchesVenue
PROPERTY ImplementsMirror
CHECK_DEADLOCK FALSE
