CONSTANTS
  NumTemps = 3
  MaxLen = 5
  GprK = 3
  SavedK = 1
  FloatK = 2
  MaxClock = 8
  Temp <- MCTemp
  NoTemp = NoTemp
  NoColor = NoColor
  NoReg = NoReg
  Programs <- MCPrograms
SPECIFICATION ExecSpec
INVARIANTS
  ExecTypeOK
  CalleeSavedRestored
PROPERTIES
  MisreadsExplained
CHECK_DEADLOCK FALSE
