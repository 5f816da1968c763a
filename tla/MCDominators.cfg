CONSTANTS
  MaxBlocks = 4
  Blocks <- MCBlocks
  Entry = 0
  NULL = NULL
  Graphs <- MCAnalysed
SPECIFICATION Spec
INVARIANTS TypeOK IInv WalkNeverNull DominatorsCorrect FrontiersCorrect
PROPERTIES IdomOnlyClimbs Terminates
CHECK_DEADLOCK FALSE
