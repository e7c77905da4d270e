SPECIFICATION Spec
CONSTANTS
  Clients = {c1, c2}
  Versions = {v1, v2}
  LockWired = TRUE
  MaxRequests = 2
  MaxFaults = 0
  MaxCrashes = 0
PROPERTY
  PutIsStored
CHECK_DEADLOCK FALSE
