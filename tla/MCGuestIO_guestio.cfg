SPECIFICATION Spec
CONSTANTS
  HeapStart = 48
  HeapEnd = 64
  W = 128
  Layouts <- LayoutsDef
  IoStart = 16
  InputLen = 8
  StackBottom = 40
  StackTop = 44
  DataEnd = 45
  Inputs <- InputsDef
  Payloads <- PayloadsDef
  Requests <- RequestsDef
  Lengths <- LengthsDef
  MaxCalls = 3
  MaxSegments = 3
INVARIANTS AllocSound OutputDelivered WordsAnchored OutputCut ReadsGiven
CHECK_DEADLOCK FALSE
