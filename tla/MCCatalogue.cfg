SPECIFICATION Spec
CONSTANTS
  Clients = {c1, c2}
  HotShops = {s1, s2}
  QueueSize = 1
  TypeCount = 2
  Keys <- MCKeys
  SeedCount = 2
  Hash <- MCHash
  BitCount = 11
  MaxRequests = 3
  MaxFaults = 1
  MaxCrashes = 1
INVARIANTS
  TypeOK
  TypesInStep
  NoFalseNegative
PROPERTIES
  RebuildsInOrder
  HotReadsAnswered
CHECK_DEADLOCK FALSE
