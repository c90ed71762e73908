CONSTANTS
  Half = 3
  Win = 3
  MinSpan = 3
  DensityDiv = 2
  Isns <- LateIsn
  Reach = 0
  MaxSkip = 0
  QueueLen = 1
  PoolSize = 2
  LowWater = 1
  CounterMod = 3
  MaxPackets = 4
  MaxStarts = 1
SPECIFICATION FairSpec
PROPERTY InstrumentLossIsNotLinkLoss
