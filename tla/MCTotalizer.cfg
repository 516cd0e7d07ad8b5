CONSTANTS
  Inputs = 5
  Calls <- MCCalls
SPECIFICATION Spec
INVARIANT CountsExact
