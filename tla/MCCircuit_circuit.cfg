SPECIFICATION Spec
CONSTANTS
  FieldP = 3
  Masks <- MCMasks
  Sums <- MCSums
  Coefficients <- MCCoefficients
  Operands <- MCOperands
  Budgets <- MCBudgets
  MaxLive = 2
INVARIANTS
  RecordsComposition
  Rerecords
  FractionsAgree
  LoweredExactly
  PushedExactly
CHECK_DEADLOCK FALSE
