CONSTANTS
  NoLabel = NoLabel
  NoTemp = NoTemp
  MaxBlocks = 4
  MaxPreds = 4
  MaxChildren = 4
  MaxEntries = 4
  MaxCongs = 2
  MaxCopies = 2
  MaxConsts = 1
  Label <- MCLabel
  Temp <- MCTemp
  Imm <- MCImm
  Code <- MCCode
  Programs <- MCPrograms
SPECIFICATION PipeSpec
INVARIANTS
  PipeTypeOK
  SameEffects
  AvailableOnAllPaths
  OwnBlockOnly
  NoRedundancyLeft
PROPERTIES
  PipelineEnds
CHECK_DEADLOCK FALSE
