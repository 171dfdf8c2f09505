SPECIFICATION Spec
CONSTANTS
  Reg = {"x0"}
  X0 = "x0"
  Word = {"in0", "len", "dat", "text"}
  RwWord = {"in0", "len", "dat"}
  InputSeq <- Input
  OutputLen = "len"
  OutputData <- Output
  Val = {0, 1}
  PC = {0}
  MaxDiff = 1
  MaxClock = 1
  NoVal = NoVal
  NoRoot = NoRoot
INVARIANT MemoryBalanceExact
CHECK_DEADLOCK FALSE
