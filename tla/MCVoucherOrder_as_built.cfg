SPECIFICATION Spec
CONSTANTS
  u1 = u1
  u2 = u2
  v1 = v1
  v2 = v2
  Users <- MCUsers
  Vouchers <- MCVouchers
  Stock <- MCStock
  MaxRetries = 3
  ReadCount = 2
  PendingCount = 2
  Decodes = FALSE
  DeadLetterStores = FALSE
  MaxMsgs = 2
  MaxFaults = 0
  MaxCrashes = 0
INVARIANT
  GivenUpIsInDeadLetterStream
CHECK_DEADLOCK FALSE
