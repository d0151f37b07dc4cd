SPECIFICATION Spec
CONSTANTS
  a = a
  b = b
  c = c
  d = d
  None = None
  Infinity = None
  Nodes <- TwoNodes
  Edges <- PairEdges
  Count <- PairCount
  Duration <- NoLimit
  Filter <- AllPass
  MaxRuns = 2
  MaxPending = 1
  MaxDepth = 3
  MaxTime = 0
INVARIANTS
  HandlesTracked
PROPERTIES
  LifecycleSpec
CHECK_DEADLOCK FALSE
