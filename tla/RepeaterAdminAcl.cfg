SPECIFICATION Spec
CONSTANTS
  r1 = r1
  r2 = r2
  p1 = p1
  p2 = p2
  v1 = v1
  v2 = v2
  Requests = {r1, r2}
  Peers = {p1, p2}
  Values = {v1, v2}
  Flagged = {v2}
  Setups <- AclOnly
  GlobalCooldown = 1
  PeerCooldown = 1
  ClockBound = 0
  TroubleBound = 0
  CollisionBound = 0
PROPERTY VerifiedOutcomesRecorded
CHECK_DEADLOCK FALSE
