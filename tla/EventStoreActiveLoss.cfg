SPECIFICATION Spec
CONSTANTS
  Consumers = {c1}
  Runs = {h1}
  Keys = {k1}
  RetentionDays = 1
  IdleDays = 1
  MaxMessages = 2
  BatchSize = 2
  Skew = 0
  EventBound = 3
  MessageBound = 0
  ClockBound = 2
SYMMETRY Symmetry
PROPERTIES
  PrunesOnlyWhatActiveConsumersPassed
