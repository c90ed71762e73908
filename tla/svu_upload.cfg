CONSTANTS
  Byte = {0, 1}
  BlockSize = 2
  Word = 8
  None = None
  Files <- TwoFiles
  Pay = 1
  MaxIntervals = 1
  MaxRounds = 8
  Attempts = 4
  StaleFrames <- Leftover
  MaxFaults = 3
  MaxRestarts = 1
  CtrlMayDuplicate = FALSE
  DiskMayFill = FALSE
SPECIFICATION FairSpec
INVARIANTS
  VerifiedMeansSource
PROPERTIES
  ImplementsUpload
  Terminates
  Converges
