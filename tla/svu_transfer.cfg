CONSTANTS
  Byte = {0, 1}
  BlockSize = 2
  Word = 5
  None = None
  Files <- AllFiles
  Pay = 2
  MaxIntervals = 1
  MaxRounds = 3
  Attempts = 2
  StaleFrames <- Leftover
  MaxFaults = 3
  MaxRestarts = 1
  CtrlMayDuplicate = TRUE
  DiskMayFill = TRUE
SPECIFICATION Spec
INVARIANTS
  TypeOK
  NothingUnverifiedIsWritten
  ReRequestIsTheDamage
