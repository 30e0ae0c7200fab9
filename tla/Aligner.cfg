SPECIFICATION FairSpec
CONSTANTS
  binance = binance
  bitmex = bitmex
  Pipes <- MCPipes
  IdOf <- MCIdOf
  Null = Null
  Unset = Unset
  Hwm = 2
  MaxStamp = 4
INVARIANTS TypeOK UnmatchedInv PricesOfOneInstant
PROPERTIES ImplementsJoin JoinedEventually
CHECK_DEADLOCK FALSE
