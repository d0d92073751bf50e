CONSTANTS
  Vreg <- FibVreg
  NoVreg = 0
  N_PHYS_REGS = 7
  CallerSaved = {1, 2}
  Scratch = 2
  NoReg = NoReg
  MaxVregs = 512
  MaxClock = 10
  Programs <- Fibonacci
SPECIFICATION Spec
INVARIANTS
  PhiSourcesKept
CHECK_DEADLOCK FALSE
