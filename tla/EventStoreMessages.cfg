SPECIFICATION Spec
CONSTANTS
  Consumers = {}
  Runs = {h1, h2}
  Keys = {k1}
  RetentionDays = 1
  IdleDays = 1
  MaxMessages = 1
  BatchSize = 2
  Skew = 1
  EventBound = 4
  MessageBound = 3
  ClockBound = 2
SYMMETRY Symmetry
INVARIANTS
  MessagesMatchJournal
  JournalTellsLegalHistories
  ReceivedOnce
PROPERTIES
  PruneJustified
