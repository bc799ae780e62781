SPECIFICATION FairSpec
CONSTANTS
  Calls = {c1, c2}
  EventIds = {e1}
  Prints = {p1, p2}
  NoPrint = NoPrint
  AckTimeout = 1
  PendingTTL = 2
  DeliveryTimeout = 3
  UncertainTTL = 4
  AcceptedTTL = 20
  MaxNow = 9
  LastStart = 6
  MaxFaults = 0
  MaxCrashes = 0
  OutcomeRace = FALSE
  AmbiguousFailure = FALSE
CHECK_DEADLOCK FALSE
INVARIANTS RefusalIsTrue PublishedOnce RecordCovered
PROPERTIES EveryCallReturns RecordBecomesAccepted
