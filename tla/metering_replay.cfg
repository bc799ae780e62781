CONSTANTS
  e1 = e1
  e2 = e2
  Ids <- MCIds
  Usage <- MCUsage
  Catalog <- MCCatalog
  Model = "mini-2026"
  StartsWith <- MCStartsWith
  MonthWidth = 2
  Million = 2
  Scale = 2
  DefaultInput = 2
  DefaultOutput = 2
  Width = 2
  DedupTTL = 5
  MarkerTTL = 5
  MaxAge = 1
  MaxAhead = 1
  CopiesWithin = 1
  MaxLag = 1
  Period = 1
  MaxNow = 6
  LastPublish = 2
  MaxLog = 2
  MaxCrashes = 1
  MaxReplays = 1
  MaxTroubles = 1
SPECIFICATION Spec
INVARIANTS ReplayKeepsEvent
CHECK_DEADLOCK FALSE
