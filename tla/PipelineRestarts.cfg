SPECIFICATION PipelineSpec
CONSTANTS
  binance = binance
  binance2 = binance2
  bitmex = bitmex
  bitmex2 = bitmex2
  Pipes <- MCPipes
  IdOf <- MCIdOf
  Null = Null
  Unset = Unset
  Hwm = 1
  MaxStamp = 2
  MaxStops <- MCStops
SYMMETRY MCSymmetry
INVARIANTS PricesOfOneInstant OrderWithinProcesses RedeliveryNeedsRestarts
CHECK_DEADLOCK FALSE
