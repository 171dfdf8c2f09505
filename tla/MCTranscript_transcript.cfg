SPECIFICATION MCSpec
CONSTANTS
  TraceComponents <- MCTrace
  LookupComponents <- MCLookup
  Width <- MCWidth
  Fractions <- MCFractions
  Half = 4
  NRelations = 2
  NonceBound = 3
  Elements <- MCElements
  Statements <- MCStatements
  LogSizes <- MCLogSizes
  Rate = 4
  DrawTag = 7
  Base = 4
  MixedU32s <- MCMixedU32s
  MixedFelts <- MCMixedFelts
  MaxOps = 4
INVARIANTS
  DrawsBind
  AcceptedExactly
  ReplayAgrees
  SessionIsChannel
  SpongeExact
CHECK_DEADLOCK FALSE
