CONSTANTS
  t1 = t1
  t2 = t2
  Thread = {t1, t2}
  Nobody = Nobody
  MaxFrames = 3
  MaxCrashes = 1
SPECIFICATION Spec
INVARIANTS
  FramesStay
CHECK_DEADLOCK FALSE
