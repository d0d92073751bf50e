CONSTANTS
  NumBlocks = 4
  NumInner = 3
  NoLabel = NoLabel
  MaxBlocks = 4
  MaxPreds = 4
  MaxChildren = 4
  Label <- MCLabel
  Programs <- MCPrograms
SPECIFICATION Spec
INVARIANTS
  TypeOK
  DefinitionsVisible
  AllDominatorsFound
  IdomIsClosest
  OrderFollowsTree
PROPERTIES
  Terminates
CHECK_DEADLOCK FALSE
