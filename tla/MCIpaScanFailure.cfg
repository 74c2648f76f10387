CONSTANTS
  Counts    <- MCCounts
  MinNgram  = 1
  MaxNgram  = 2
  Nodes     = {"a", "b", "d"}
  Children  = {"c1", "c2"}
  ChildOf   <- MCChildOf
  Scores    <- MCScores
  Threshold = 1
SPECIFICATION Spec
INVARIANT FailureReported
CHECK_DEADLOCK FALSE
