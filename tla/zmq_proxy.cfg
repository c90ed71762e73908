CONSTANTS
  Options <- MCOptions
  HdxNode = 2
  OffsetSize = 4
  QueueLen = 2
  PowerUp = 1
  PowerDown = 1
  Delay = 1
  MaxFrames = 3
  LastArrival = 4
  MaxTime = 6
SPECIFICATION FairSpec
CHECK_DEADLOCK FALSE
INVARIANTS
  TypeOK
  FrameInOnePlace
  LogAgainstWire
  MalformedOnce
PROPERTIES
  PowerUpRespected
  StopIsTaken
  DelayedFrameLeaves
