SPECIFICATION Spec
CONSTANTS
  Byte = {0, 1}
  BlockSize = 2
  Word = 16
  Files <- OneFile
  Pay = 2
  MaxIntervals = 1
  MaxRounds = 3
  Attempts = 2
  StaleFrames <- NoFrames
  MaxFaults = 0
  MaxRestarts = 0
  CtrlMayDuplicate = FALSE
  DiskMayFill = TRUE
  None = None
INVARIANT VerifiedMeansSource
