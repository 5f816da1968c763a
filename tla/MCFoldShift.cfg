CONSTANTS
  Cases <- ShiftCases
  Inputs <- MCInputs
  Width <- MCWidth
  UnsignedTypes <- MCUnsigned
  HostWidth = 5
  Doublings = 3
SPECIFICATION Spec
INVARIANT FoldingAgrees
CHECK_DEADLOCK FALSE
