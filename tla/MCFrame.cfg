CONSTANTS
  Declarations <- MCDeclarations
  Sources <- MCFrameSources
  Inputs <- MCInputs
  Fuel = 20
  Doublings = 11
  ByteBits = 3
  StackBytes = 480
  Width <- MCWidth
  UnsignedTypes = {"uint", "uchar", "ushort", "ulong"}
  HostWidth = 24
SPECIFICATION Spec
INVARIANT LiveObjectsDisjoint
