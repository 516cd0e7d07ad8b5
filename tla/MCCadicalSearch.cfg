SPECIFICATION Spec
CONSTANTS
    Vars = {1, 2, 3, 4, 5, 6}
    Scenarios <- MCScenarios
    ChronoLevelLimit = 1
INVARIANTS
    WatchInvariant
    LevelsExact
    QueuePointerSound
    CollectKeepsWatches
    BrokenExact
    AssumptionsDoFail
PROPERTIES
    LearnedByPropagation
    ImplementsOracle
    CallsAnswered
