SPECIFICATION LiveSpec
CONSTANTS
  r1 = r1
  r2 = r2
  p1 = p1
  p2 = p2
  v1 = v1
  v2 = v2
  Requests = {r1, r2}
  Peers = {p1, p2}
  Values = {v1, v2}
  Flagged = {}
  Setups <- Various
  GlobalCooldown = 1
  PeerCooldown = 1
  ClockBound = 1
  TroubleBound = 1
  CollisionBound = 1
INVARIANTS
  TypeOK
  VerifiedMeansHeld
  TrailTellsTheTruth
  CooldownsHold
  LoginAnswersOwn
PROPERTIES
  LateWritesWereAnnounced
  RequestsAnswered
CHECK_DEADLOCK FALSE
