SPECIFICATION CanvasFairSpec
CONSTANTS
  f = f
  g = g
  s = s
  FlowOrder <- TwoFlows
  StaticFlows = {f}
  OriginalFlow <- JoinedOriginal
  NodeIds <- TwoNodes
  Settings = {0, 1}
  OldEdges = 1
  None = None
  MaxClicks = 2
  MaxRemote = 1
  MaxReloads = 1
INVARIANTS
  ReloadRestores
  PanelsExclusive
  FlowsWellFormed
PROPERTIES
  EffectsSettle
  EditsKept
CHECK_DEADLOCK FALSE
