CONSTANT
  MaxCount = 5
  Counts  <- MCCounts
  Options <- MCOptions
  Spans   <- MCSpans
SPECIFICATION FairSpec
INVARIANT IslandsKept
PROPERTIES ImplementsTraversal Termination
CHECK_DEADLOCK FALSE
