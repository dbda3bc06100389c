SPECIFICATION Spec
CONSTANTS
  Pumps = {p, q}
  Incoming = {"other", "exact", "chat"}
  StartAtLatest = TRUE
  Limit = 2
  EventBound = 3
  FaultBound = 1
  AbortBound = 1
  CrashBound = 0
SYMMETRY Symmetry
INVARIANTS
  TypeOK
  NothingSkipped
PROPERTIES
  InOrder
