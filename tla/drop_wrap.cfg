CONSTANTS
  Half = 4
  Mtu = 6
  Overhead = 4
  Stride = 2
  Draw <- MCDraw
  Mix <- MCMix
  DrawSpace = 2
  NoVector = NoVector
  Isns <- LateIsn
  Window = 2
  Thresholds <- Bursty
  Rules <- PlainRules
  Flows <- RdpOnly
  ReorderAcrossWrap = TRUE
  MaxSends = 6
  PoolSize = 2
  TxDepth = 2
SPECIFICATION Spec
INVARIANT DecisionIsPure
