CONSTANTS
  NumThreads = 3
  MaxItems = 5
  MaxBatches = 2
  MaxPools = 2
SPECIFICATION MCSpec
INVARIANTS
  TypeOK
  BatchComplete
  BuffersReleased
PROPERTIES
  BatchReturns
  DestroyReturns
