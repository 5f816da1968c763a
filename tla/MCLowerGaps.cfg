CONSTANTS
  Sources <- MCGaps
  NodesOf <- MCNodesOf
  MaxCases = 4
  Inputs <- MCInputs
  Width <- MCWidth
  UnsignedTypes = {}
  HostWidth = 22
  Doublings = 10
  Fuel = 20
SPECIFICATION Spec
INVARIANT LoweredMeansSource
