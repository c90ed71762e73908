CONSTANTS
  Nodes = {n1, n2}
  Files = {A, B}
  Targets <- ShortTargets
  Magic = 9
  Cap = 3
  MaxPushes = 2
  MaxFaults = 1
  None = None
SPECIFICATION FairSpec
INVARIANTS
  TypeOK
  VerifiedIsStored
  NothingMisplaced
PROPERTY
  PushReturns
