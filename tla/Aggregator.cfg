SPECIFICATION FairSpec
CONSTANTS
  Exchanges = {"BINANCE", "BITMEX"}
  Size = 3
  Interval = 2
  Hwm = 2
  Garbage = Garbage
  Null = Null
  MaxTrades = 6
  MaxBatch = 2
  MaxNow = 6
INVARIANTS TypeOK RingInv ClosingIsLatest GarbageCauses StampsOnGrid NotBeforeStamp
PROPERTIES ImplementsWindow ImplementsTickSource TicksKeepUp
CHECK_DEADLOCK FALSE
