SPECIFICATION Spec
CONSTANTS
  Calls = {c1}
  Workers = {w1, w2}
  Foreign = {f1}
  Nobody = Nobody
  Holds = {0, 1}
  Sizes = {1}
  Reports = {1}
  Times = {2}
  MaxTokens = 2
  MaxFaults = 2
INVARIANTS UsageKept ReceiptIsTrue
PROPERTIES NotPublishedAgain UsageArrives
