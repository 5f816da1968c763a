CONSTANTS
  Sources <- MCDifferences
  SearchPath <- MCSearchPath
  Predefined <- MCPredefined
  MaxGroups = 2
  MaxIncludes = 3
  Evaluate <- PpEvaluate
SPECIFICATION Spec
INVARIANT PreprocessesAsC
