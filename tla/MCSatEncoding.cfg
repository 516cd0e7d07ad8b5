CONSTANTS
  N = 5
  V <- MCV
  Inputs <- MCInputs
  Bounds <- MCBounds
  Tried <- MCTried
SPECIFICATION Spec
INVARIANTS
  ParentPresent
  WithinBound
  UnsatisfiableIsWider
