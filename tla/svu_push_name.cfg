CONSTANTS
  Nodes = {n1}
  Files = {A}
  Targets <- LongTarget
  Magic = 9
  Cap = 3
  MaxPushes = 1
  MaxFaults = 0
  None = None
SPECIFICATION Spec
INVARIANT StoredUnderItsName
