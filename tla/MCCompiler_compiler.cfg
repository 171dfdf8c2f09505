SPECIFICATION Spec
CONSTANTS
  P = 5
  RoundConstants <- MCConstants
  Programs <- MCPrograms
  Inputs = {1, 3}
  MaxActivations = 1
  MaxAltered = 2
INVARIANTS
  DegreesFit
  FillsWitness
  ForcesOutputs
  CompilesWhatRuns
  EmbeddedShapes
CHECK_DEADLOCK FALSE
