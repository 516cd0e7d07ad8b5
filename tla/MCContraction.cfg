CONSTANTS
  N = 5
  V <- MCV
  Inputs <- MCInputs
SPECIFICATION Spec
INVARIANTS
  TypeOK
  RedExact
PROPERTY ImplementsTrigraph
CHECK_DEADLOCK FALSE
