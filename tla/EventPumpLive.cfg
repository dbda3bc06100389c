SPECIFICATION LiveSpec
CONSTANTS
  Pumps = {p}
  Incoming = {"exact", "mention"}
  StartAtLatest = TRUE
  Limit = 2
  EventBound = 3
  FaultBound = 2
  AbortBound = 1
  CrashBound = 1
INVARIANTS
  RepeatsArePaidFor
PROPERTIES
  Drains
