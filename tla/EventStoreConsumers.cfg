SPECIFICATION LiveSpec
CONSTANTS
  Consumers = {c1, c2}
  Runs = {h1}
  Keys = {k1}
  RetentionDays = 1
  IdleDays = 1
  MaxMessages = 1
  BatchSize = 1
  Skew = 0
  EventBound = 3
  MessageBound = 0
  ClockBound = 2
INVARIANTS
  TypeOK
  EventsFollowBoundary
  LatestIsLastHandedOut
  CursorsWithinJournal
  GapsAreTruthful
PROPERTIES
  CursorsMonotone
  LossIsMarked
  HousekeepingEnds
