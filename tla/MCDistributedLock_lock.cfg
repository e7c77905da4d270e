SPECIFICATION FairSpec
CONSTANTS
  a = a
  b = b
  d = d
  None = None
  Ttl = 2
  Half = 1
  Calls = {a, b, d}
  MaxErrors = 1
INVARIANTS
  TypeOK
  MutualExclusion
  NoStrayWatchDog
PROPERTIES
  TakenOnlyByOwner
  PromiseKept
  KeyIsFreed
  WatchDogsEnd
CHECK_DEADLOCK FALSE
