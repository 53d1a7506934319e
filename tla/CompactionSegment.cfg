SPECIFICATION Spec
CONSTANTS
  Factor = 2
  MaxTables = 4
  MaxSize = 4
  MaxTotal = 12
  Sizes <- SmallSizes
  InitStacks <- SmallStacks
INVARIANTS SegmentIsNeeded RestoresGeometric
CONSTRAINT Bounded
CHECK_DEADLOCK FALSE
