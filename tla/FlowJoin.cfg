SPECIFICATION FairSpec
CONSTANTS
  a = a
  b = b
  c = c
  d = d
  None = None
  Infinity = None
  Nodes <- FourNodes
  Edges <- JoinEdges
  Count <- JoinCount
  Duration <- JoinDuration
  Filter <- SomeFilter
  MaxRuns = 1
  MaxPending = 1
  MaxDepth = 3
  MaxTime = 1
INVARIANTS
  ExecutionsCounted
  FinalisedQuiet
  LimitsKept
PROPERTIES
  EntryNodesEndOnce
  RunsEnd
  StoppedRunDrains
CHECK_DEADLOCK FALSE
