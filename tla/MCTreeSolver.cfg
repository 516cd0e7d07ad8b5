CONSTANTS
  N = 7
  V <- MCV
  Inputs <- MCInputs
SPECIFICATION Spec
INVARIANTS
  BranchesCollapse
  TreeOptimal
