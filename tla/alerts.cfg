SPECIFICATION Spec
CONSTANTS
  Workers = {w1, w2}
  Nothing = Nothing
  Initial = 10
  Balances = {1, 4}
  Costs = {1, 3}
  MaxRetries = 2
  MaxWindows = 2
  MaxAlerts = 2
  MaxFaults = 2
CHECK_DEADLOCK FALSE
INVARIANT AcceptedOnce
PROPERTY EveryAlertArrives
