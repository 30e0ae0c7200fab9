SPECIFICATION Spec
CONSTANTS
  Exchanges = {"BITMEX"}
  Size = 3
  Interval = 2
  Hwm = 2
  Garbage = Garbage
  Null = Null
  MaxTrades = 6
  MaxBatch = 2
  MaxNow = 6
CHECK_DEADLOCK FALSE
INVARIANT SentPriceIsATrade
