CONSTANTS
  N = 6
  V <- MCV
  Inputs <- MCInputs
  Files <- MCFiles
SPECIFICATION PSpec
INVARIANTS
  CountersExact
  ReadyForSolver
  PrintsFullSequence
  WidthIsMaximum
  PrintsOptimum
