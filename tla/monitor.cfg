CONSTANTS
  Half = 3
  Win = 3
  MinSpan = 3
  DensityDiv = 2
  Isns <- LateIsn
  Reach = 3
  MaxSkip = 1
  QueueLen = 1
  PoolSize = 2
  LowWater = 1
  CounterMod = 3
  MaxPackets = 4
  MaxStarts = 2
SPECIFICATION FairSpec
INVARIANTS
  TypeOK
  LossCounts
  InstrumentLossIsFlagged
  StopLeavesNothing
PROPERTY
  StopReturns
