CONSTANTS
  b1 = b1
  v1 = v1
  BatchRuns <- OneBatch
  VisualRuns <- OneVisual
  Samples <- OneSample
  Workers = 1
  MaxBoots = 2
SPECIFICATION FairSpec
CHECK_DEADLOCK FALSE
INVARIANTS NothingIsLost EndsAreTrue
PROPERTIES SchemaSpec RunsEnd
