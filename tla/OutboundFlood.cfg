SPECIFICATION Spec
CONSTANTS
  d1 = d1
  d2 = d2
  ch1 = ch1
  peer1 = peer1
  slot1 = slot1
  Direct = {d1, d2}
  Channel = {}
  Targets = {peer1}
  TargetOf <- SamePeer
  Refused = {}
  GlobalCooldown = 1
  TargetCooldown = 2
  ClockBound = 2
  RestartBound = 1
INVARIANTS
  DirectSendsNeverFlood
