CONSTANTS
  N = 7
  V <- MCV
  Inputs <- MCInputs
SPECIFICATION Spec
INVARIANTS
  QueuesCurrent
  ModulesKeptWhole
  PartsAreModules
PROPERTY Returns
CHECK_DEADLOCK FALSE
