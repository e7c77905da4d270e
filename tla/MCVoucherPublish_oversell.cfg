SPECIFICATION Spec
CONSTANTS
  u1 = u1
  u2 = u2
  u3 = u3
  Users = {u1, u2}
  Absent = Absent
  Stock = 1
  Retries = 3
  MaxFaults = 1
  MaxCrashes = 0
INVARIANT
  ReservedFindsStock
CHECK_DEADLOCK FALSE
