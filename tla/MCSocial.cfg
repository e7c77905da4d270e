SPECIFICATION Spec
CONSTANTS
  Clients = {c1, c2}
  Users = {u1, u2}
  Fans = {u1, u2}
  PageSize = 2
  OldBlogs = 3
  PagesWork = TRUE
  StartTime = 2
  MaxTime = 3
  MaxRequests = 3
  MaxFaults = 1
  MaxCrashes = 1
SYMMETRY Symmetry
INVARIANTS
  TypeOK
  FollowsAgree
  LikesAgree
  ScrollShowsOnce
CHECK_DEADLOCK FALSE
