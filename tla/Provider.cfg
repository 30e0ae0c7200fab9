SPECIFICATION ProviderFairSpec
CONSTANTS
  MaxFrames = 2
  MaxRefused = 0
  MaxBatch = 1
  Hwm = 1
  MaxStops = 1
INVARIANTS
  FeedInOrder
  ThrowsOnNoise
PROPERTIES
  LoopReleased
CHECK_DEADLOCK FALSE
