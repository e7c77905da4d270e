SPECIFICATION FairSpec
CONSTANTS
  Clients = {c1, c2}
  Versions = {v1, v2}
  LockWired = TRUE
  MaxRequests = 4
  MaxFaults = 1
  MaxCrashes = 1
INVARIANTS
  TypeOK
  OneRebuild
PROPERTIES
  CacheCatchesUp
  RequestsEnd
CHECK_DEADLOCK FALSE
