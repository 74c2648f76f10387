CONSTANTS
  MetricsUsed = {"l2", "cosine"}
  Values <- MCValues
  MaxCount = 4
  MaxLevel = 1
  M = 1
  EfConstruction = 2
  EfSearch = 1
  BruteForceMax = 3
  Limits = {1, 2}
  Thresholds = {1}
SPECIFICATION FairSpec
INVARIANTS InLayers Degrees EntryOnTop LocalOptimum
PROPERTY CallsEnd
CHECK_DEADLOCK FALSE
