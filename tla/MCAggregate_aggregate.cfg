SPECIFICATION MCSpec
CONSTANTS
  State = {"a", "b"}
  Program = {"p", "q"}
  MaxProofs = 5
  Lifting = 3
  ColumnLogSizes <- MCColumns
  LogBlowup = 1
  LastBound = 0
  MaxRuns = 3
  Batches <- MCBatches
  Tampered <- MCTampered
  Redraws <- MCRedraws
  TreeIdStride = 4
INVARIANTS SameVerdict RootSpans FinalVerdict ArtifactBinds
PROPERTY Verdicts
CHECK_DEADLOCK FALSE
