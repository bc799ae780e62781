SPECIFICATION Spec
CONSTANTS
  Calls = {c1, c2}
  EventIds = {e1}
  Prints = {p1, p2}
  NoPrint = NoPrint
  AckTimeout = 1
  PendingTTL = 2
  DeliveryTimeout = 3
  UncertainTTL = 4
  AcceptedTTL = 3
  MaxNow = 9
  LastStart = 7
  MaxFaults = 2
  MaxCrashes = 1
  OutcomeRace = TRUE
  AmbiguousFailure = TRUE
SYMMETRY Symmetry
CHECK_DEADLOCK FALSE
INVARIANTS TypeOK NoFalse202
PROPERTIES AcceptedKept KeepsPromise
