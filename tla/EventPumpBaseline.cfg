SPECIFICATION Spec
CONSTANTS
  Pumps = {p}
  Incoming = {"exact"}
  StartAtLatest = TRUE
  Limit = 2
  EventBound = 1
  FaultBound = 0
  AbortBound = 0
  CrashBound = 1
PROPERTY AtLeastOnce
