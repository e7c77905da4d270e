SPECIFICATION Spec
CONSTANTS
  a = a
  b = b
  d = d
  None = None
  Ttl = 4
  Half = 2
  Calls = {a, b}
  MaxErrors = 1
INVARIANT
  WatchDogGuardsHolder
CHECK_DEADLOCK FALSE
