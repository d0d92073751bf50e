CONSTANTS
  t1 = t1
  t2 = t2
  Thread = {t1, t2}
  Nobody = Nobody
  MaxFrames = 3
  MaxCrashes = 1
SPECIFICATION Spec
INVARIANTS
  TypeOK
  OnlyTailBad
  VerifyFailsOnTailOnly
  CheckpointFirst
  AckedReadable
PROPERTIES
  ImplementsLog
  CallsReturn
CHECK_DEADLOCK FALSE
