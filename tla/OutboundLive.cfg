SPECIFICATION LiveSpec
CONSTANTS
  d1 = d1
  d2 = d2
  ch1 = ch1
  peer1 = peer1
  slot1 = slot1
  Direct = {d1}
  Channel = {ch1}
  Targets = {peer1, slot1}
  TargetOf <- Mixed
  Refused = {slot1}
  GlobalCooldown = 0
  TargetCooldown = 0
  ClockBound = 0
  RestartBound = 1
PROPERTIES
  RequestsAnswered
