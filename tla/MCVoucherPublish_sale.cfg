SPECIFICATION FairSpec
CONSTANTS
  u1 = u1
  u2 = u2
  u3 = u3
  Users = {u1, u2, u3}
  Absent = Absent
  Stock = 1
  Retries = 3
  MaxFaults = 3
  MaxCrashes = 1
INVARIANTS
  TypeOK
  OversellBounded
  DatabaseSellsStock
  NotBeforeBegin
PROPERTY
  VoucherGoesOnSale
CHECK_DEADLOCK FALSE
