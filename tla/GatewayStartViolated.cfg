SPECIFICATION MCFairSpec
CONSTANTS
  c1 = c1
  c2 = c2
  s1 = s1
  s2 = s2
  f1 = f1
  n1 = n1
  n2 = n2
  Clients = {c1}
  Schemas = {s1, s2}
  Flows = {f1}
  Refusable = {}
  MaxRequests = 3
  MaxDrops = 0
  Sources = {s1}
  BatchSizes = {2}
  Suppress = 2
  Bucket = 2
  Window = 4
  HistorySize = 1
  MaxTime = 5
  MaxBatches = 2
  MaxResets = 1
  Nodes = {n1, n2}
  SavedNodes = {n1}
  MaxStatuses = 5
PROPERTIES
  StartEnds
CHECK_DEADLOCK FALSE
