SPECIFICATION MCSpec
CONSTANTS
  a = a
  b = b
  k1 = k1
  s1 = s1
  public = public
  Clients = {a, b}
  Keys = {k1}
  Slots = {s1}
  Public = public
  Menu <- Menus
  FaultBound = 1
  LeakBound = 1
  ChangeBound = 1
  StopBound = 1
INVARIANTS
  TypeOK
  SingleLink
  ConnectedMeansFresh
  AdvertsSpaced
CHECK_DEADLOCK FALSE
PROPERTIES
  CachesNeverGoBack
  OkIsVerified
  Recovers
  RequestsReturn
