CONSTANTS
  Vreg <- MCVreg
  NoVreg = 0
  N_PHYS_REGS = 2
  CallerSaved = {1}
  Scratch = 1
  NoReg = NoReg
  MaxVregs = 5
  MaxClock = 6
  Programs <- MCPrograms
SPECIFICATION Spec
INVARIANTS
  SsaTypeOK
  IntervalsApart
  MisreadsExplained
CHECK_DEADLOCK FALSE
