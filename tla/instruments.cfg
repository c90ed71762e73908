CONSTANTS
  Senders = {s1, s2}
  Ifaces = {"can", "zmq"}
  LossOptions <- MCLossOptions
  OffsetBytes = 4
  MaxOffered = 2
  MaxStarts = 2
  MaxDepth = 1
  ModProbe = 16
  FarStarts <- MCFarStarts
  Counts = {0, 3, 9}
  LinkMaxProbes = 3
  LinkSnapTries = 2
  MaxCross = 1
  ModCount = 32
  NRemotes = 2
  FirstCounts <- MCFirstCounts
  MaxUser = 2
  MaxRounds = 2
  MaxReboots = 1
  RttSpace = 6
  TimeSpace = 4
  Ring = 2
  Isses <- LateIsses
  Pauses = {1}
  MaxFrames = 7
  UpFrames = {u1, u2}
  DownFrames = {d1}
  Echoing = {"in", "out"}
  QfifoLen = 3
  DedupLen = 2
  MaxArrivals = 4
SPECIFICATION FairSpec
CHECK_DEADLOCK FALSE
INVARIANTS
  TypeOK
  PacketConsumed
  HookChain
  FaultOnlyAfterRacedStop
  DeliveredNotNegative
  DirectionSplit
  VerdictAccounts
  NoFalseReboot
  PairsAreGenuine
  PassedOnOnce
PROPERTIES
  DropsOnHookedIface
  PollerStops
