SPECIFICATION Spec
CONSTANTS
  Reg = {"x0"}
  X0 = "x0"
  Word = {"len"}
  RwWord = {"len"}
  InputSeq <- NoSeq
  OutputLen = "len"
  OutputData <- NoSeq
  Val = {0, 1}
  PC = {0, 4}
  MaxDiff = 2
  MaxClock = 5
  NoVal = NoVal
  NoRoot = NoRoot
INVARIANTS LedgerTelescopes SpansFit StateBalance ProgramResidue
CHECK_DEADLOCK FALSE
