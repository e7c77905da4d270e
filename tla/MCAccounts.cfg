SPECIFICATION Spec
CONSTANTS
  Clients = {c1, c2}
  Phones = {p1, p2}
  Lifetime = 3
  RefreshBuffer = 2
  DayLength = 1
  MonthLength = 3
  CountLimit = 16
  IdDay <- MCIdDay
  StartTime = 0
  MaxTime = 4
  MaxRequests = 3
  MaxFaults = 1
  MaxCrashes = 1
SYMMETRY Symmetry
INVARIANTS
  TypeOK
  OneAccount
  ActiveStaysLoggedIn
  SignCountIsRun
  IdsDistinct
CHECK_DEADLOCK FALSE
