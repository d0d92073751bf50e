CONSTANTS
  NumTemps = 4
  MaxLen = 5
  FloatTemps = {2}
  GprK = 2
  FloatK = 2
  Temp <- MCTemp
  NoTemp = NoTemp
  NoColor = NoColor
  NoReg = NoReg
  Programs <- MCPrograms
SPECIFICATION Spec
INVARIANTS
  TypeOK
  NoInterference
  SimplifiedNeverSpills
  NoSpillUnderPressure
  CoalescingNeverFires
CHECK_DEADLOCK FALSE
