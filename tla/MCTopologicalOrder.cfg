CONSTANTS
  N = 4
  Vertices <- MCVertices
  Digraphs <- MCDigraphs
SPECIFICATION Spec
INVARIANTS
  Topological
  CompleteIffAcyclic
CHECK_DEADLOCK FALSE
