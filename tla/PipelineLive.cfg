SPECIFICATION PipelineFairSpec
CONSTANTS
  binance = binance
  binance2 = binance2
  bitmex = bitmex
  bitmex2 = bitmex2
  Pipes <- MCPair
  IdOf <- MCPairId
  Null = Null
  Unset = Unset
  Hwm = 1
  MaxStamp = 3
  MaxStops <- MCPairStops
PROPERTY EveryCommonTickDelivered
CHECK_DEADLOCK FALSE
