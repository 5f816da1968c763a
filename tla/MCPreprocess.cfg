CONSTANTS
  Sources <- MCSources
  SearchPath <- MCSearchPath
  Predefined <- MCPredefined
  MaxGroups = 2
  MaxIncludes = 3
  Evaluate <- PpEvaluate
SPECIFICATION Spec
INVARIANTS TypeOK MarksFollowCalls GroupsSelectOneBranch PreprocessesAsC
PROPERTY PreprocessingEnds
