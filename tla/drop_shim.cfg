CONSTANTS
  Half = 4
  Mtu = 6
  Overhead = 4
  Stride = 2
  Draw <- MCDraw
  Mix <- MCMix
  DrawSpace = 2
  NoVector = NoVector
  Isns <- LateIsn
  Window = 2
  Thresholds <- Bursty
  Rules <- AllRules
  Flows <- BothFlows
  ReorderAcrossWrap = FALSE
  MaxSends = 7
  PoolSize = 2
  TxDepth = 1
SPECIFICATION Spec
INVARIANTS
  TypeOK
  IndexIsIdentity
  LogAccounts
  BuffersConserved
  ChannelReplays
