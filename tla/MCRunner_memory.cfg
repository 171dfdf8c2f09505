SPECIFICATION FairSpec
CONSTANTS
  Reg = {"x0"}
  X0 = "x0"
  Word = {"in0", "len", "halt", "t0"}
  RwWord = {"in0", "len", "halt"}
  InputSeq <- Input
  OutputLen = "len"
  OutputData <- NoSeq
  Val = {0, 1, 2, 3}
  PC = {0, 4}
  Text = {0}
  CodeWord <- InputCode
  Kind <- Stores
  Entry = 0
  Loaded = {"t0"}
  Halt = "halt"
  SegmentCycles = 1
  MaxCycles = 3
  MaxSegments = 5
  MaxDiff = 2
  MaxClock = 4
  NoVal = NoVal
  NoRoot = NoRoot
INVARIANTS ChainsOnRoot CommittedIsExecuted SegmentsBalance SegmentLengths
PROPERTIES RefinesMachine Termination
CHECK_DEADLOCK FALSE
