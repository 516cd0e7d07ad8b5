SPECIFICATION Spec
CONSTANTS
    Vars = {1, 2, 3, 4}
    LearnedLength = 3
    Scenarios <- MCScenarios
INVARIANTS
    ActiveOnly
    ExtensionReconstructs
PROPERTIES
    DerivedByPropagation
    ImplementsOracle
