CONSTANTS
  RingSize = 3
  FifoDepth = 2
  MaxBytes = 6
SPECIFICATION FairSpec
INVARIANTS
  TypeOK
  AvailableMeansGot
PROPERTIES
  ImplementsQueue
  AcceptedIsEchoed
  BothTasksRun
