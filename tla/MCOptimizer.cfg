CONSTANTS
  Programs <- MCPrograms
  Inputs <- MCInputs
  Width <- MCWidth
  UnsignedTypes = {}
  HostWidth = 12
  Levels = {1, 2, 3}
  MaxRounds = 6
  MaxInline = 20
  Growth = 3
  Doublings = 7
SPECIFICATION Spec
INVARIANTS TypeOK EveryRewriteVerifies EveryRewritePreserves AnalysesCurrent RoundsSettle
PROPERTIES CompilationEnds InliningIsPaidFor
