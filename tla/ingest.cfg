SPECIFICATION FairSpec
CONSTANTS
  Clients = {a, b}
  SameKey = {a}
  Retrying = {a}
  MaxTries = 2
  BatchSize = 2
  QueueSize = 2
CHECK_DEADLOCK FALSE
INVARIANTS AckedIsDurable PublishedOnce RefusalIsCertain
PROPERTIES EveryRequestAnswered CloseReturns
