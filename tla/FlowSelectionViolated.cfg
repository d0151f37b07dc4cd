SPECIFICATION CanvasSpec
CONSTANTS
  f = f
  g = g
  s = s
  FlowOrder <- TwoFlows
  StaticFlows = {f}
  OriginalFlow <- JoinedOriginal
  NodeIds <- TwoNodes
  Settings = {0, 1}
  OldEdges = 1
  None = None
  MaxClicks = 2
  MaxRemote = 0
  MaxReloads = 0
INVARIANTS
  SelectedNodeExists
CHECK_DEADLOCK FALSE
