SPECIFICATION Spec
CONSTANTS
  Calls = {r1}
  InSpan = {}
  Stalled = {}
  Sessions = {s1}
  Workers = {k1}
  Amounts = {1, 2}
  Costs = {1, 2}
  Funds = 2
  Cap = 2
  Lease = 3
  RefreshGap = 1
  TagTTL = 1
  MaxDelay = 1
  FailOpen = TRUE
  MaxNow = 5
  LastStart = 1
  RefreshTimes = {0, 1}
  ResetTimes = {}
  MaxResets = 0
CHECK_DEADLOCK FALSE
INVARIANT HoldsAddUp
