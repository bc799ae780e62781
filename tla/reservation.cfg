SPECIFICATION FairSpec
CONSTANTS
  Calls = {r1, r2}
  InSpan = {r1}
  Stalled = {r2}
  Sessions = {s1}
  Workers = {k1, k2}
  Amounts = {1, 2}
  Costs = {0, 2}
  Funds = 2
  Cap = 1
  Lease = 3
  RefreshGap = 1
  TagTTL = 1
  MaxDelay = 1
  FailOpen = FALSE
  MaxNow = 6
  LastStart = 0
  RefreshTimes = {3}
  ResetTimes = {2}
  MaxResets = 1
CHECK_DEADLOCK FALSE
INVARIANTS HoldsAddUp HoldLastsUntilBilled 
PROPERTIES EveryHoldEnds
