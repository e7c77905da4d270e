SPECIFICATION Spec
CONSTANTS
  u1 = u1
  u2 = u2
  v1 = v1
  v2 = v2
  Users <- MCUsers
  Vouchers <- MCVouchers
  Stock <- MCStock
  MaxRetries = 1
  ReadCount = 1
  PendingCount = 2
  Decodes = TRUE
  DeadLetterStores = TRUE
  MaxMsgs = 2
  MaxFaults = 2
  MaxCrashes = 1
SYMMETRY Symmetry
INVARIANTS
  TypeOK
  OneOrderPerUser
  StockConserved
  ReservedOrderFindsStock
  NothingForgotten
  MutualExclusion
PROPERTIES
  LocksKeepPromise
  SaleSpec
CHECK_DEADLOCK FALSE
