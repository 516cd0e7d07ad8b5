CONSTANTS
  N = 6
  V <- MCV
  Inputs <- Mixed
SPECIFICATION Spec
INVARIANTS
  FindsTwinWidth
  SearchBracketed
  TrialUndone
  LastCallSucceeds
  ReturnsOptimum
PROPERTY CommitsLeast
