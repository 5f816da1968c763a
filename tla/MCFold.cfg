CONSTANTS
  Cases <- MCCases
  Inputs <- MCInputs
  Width <- MCWidth
  UnsignedTypes <- MCUnsigned
  HostWidth = 5
  Doublings = 3
SPECIFICATION Spec
INVARIANTS TypeOK FoldingAgrees DivisionStillTraps
CHECK_DEADLOCK FALSE
