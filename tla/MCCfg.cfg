CONSTANTS
  MaxBlocks = 4
  MaxEdits = 1
  Blocks <- MCBlocks
  Entry = 0
  NULL = NULL
  Terminators <- MCTerminators
SPECIFICATION Spec
INVARIANTS TypeOK CfgInvariant HandsOverAnalysed FindsTheGraph BackEdgesCloseCycles OrderFits
PROPERTY AnalysisEnds
CHECK_DEADLOCK FALSE
