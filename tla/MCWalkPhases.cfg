SPECIFICATION Spec
CONSTANTS
    Vars = {1, 2, 3, 4, 5, 6}
    Scenarios <- WalkScenarios
    ChronoLevelLimit = 1
INVARIANT WalkExportsMinimum
