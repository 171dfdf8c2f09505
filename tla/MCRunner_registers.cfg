SPECIFICATION Spec
CONSTANTS
  Reg = {"x0", "a0"}
  X0 = "x0"
  Word = {"len", "halt", "t0", "t4"}
  RwWord = {"len", "halt"}
  InputSeq <- NoSeq
  OutputLen = "len"
  OutputData <- NoSeq
  Val = {0, 1, 2, 3, 4, 5}
  PC = {0, 4, 8}
  Text = {0}
  CodeWord <- LoadedCode
  Kind <- Registers
  Entry = 0
  Loaded = {"t0", "t4"}
  Halt = "halt"
  SegmentCycles = 2
  MaxCycles = 2
  MaxSegments = 3
  MaxDiff = 2
  MaxClock = 3
  NoVal = NoVal
  NoRoot = NoRoot
INVARIANTS ChainsOnCpu CycleLimit
CHECK_DEADLOCK FALSE
