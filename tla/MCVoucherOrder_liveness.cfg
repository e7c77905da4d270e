SPECIFICATION FairSpec
CONSTANTS
  u1 = u1
  u2 = u2
  v1 = v1
  v2 = v2
  Users = {u1}
  Vouchers <- MCVouchers
  Stock <- MCStock
  MaxRetries = 2
  ReadCount = 2
  PendingCount = 2
  Decodes = TRUE
  DeadLetterStores = TRUE
  MaxMsgs = 2
  MaxFaults = 1
  MaxCrashes = 1
PROPERTIES
  EveryMessageSettles
  LocksAreFreed
CHECK_DEADLOCK FALSE
