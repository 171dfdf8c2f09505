SPECIFICATION Spec
CONSTANTS
  LimbBits = 4
  RangeBits = 10
  Opcodes <- AllOpcodes
  Words <- MCWords
  MemWords <- MCMemWords
  Imms <- MCImms
  Offsets <- MCOffsets
  UpperImms <- MCUpperImms
  Pcs <- MCPcs
INVARIANTS
  ProvableExactly
  FetchMatches
CHECK_DEADLOCK FALSE
