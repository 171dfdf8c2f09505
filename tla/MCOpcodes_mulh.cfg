SPECIFICATION Spec
CONSTANTS
  LimbBits = 4
  RangeBits = 10
  Opcodes <- MulHigh
  Words <- MCWords
  MemWords <- MCMemWords
  Imms <- MCImms
  Offsets <- MCOffsets
  UpperImms <- MCUpperImms
  Pcs <- MCPcs
INVARIANT MulhProvable
CHECK_DEADLOCK FALSE
