CONSTANTS
  Programs <- TailcallPrograms
  Inputs <- TailcallInputs
  Width <- MCWidth
  UnsignedTypes = {}
  HostWidth = 12
  Levels = {1}
  MaxRounds = 6
  MaxInline = 48
  Growth = 4
  Doublings = 6
SPECIFICATION Spec
INVARIANT ValidAtRoundBoundary
