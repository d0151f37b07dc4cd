SPECIFICATION StoresSpec
CONSTANTS
  x = x
  y = y
  Handlers = {h1, h2}
  Ids = {x, y}
  BuiltIn <- OneBuiltIn
  Versions = {v}
  Invalid = Invalid
  Stock = Stock
  Absent = Absent
  Torn = Torn
  MaxOps = 2
  MaxFaults = 1
  Savers = {h1, h2}
  ItemIds = {x, y}
  StaticItems = {x}
  ItemVersions = {v}
  Original = Original
  NoItem = NoItem
  Broken = Broken
  MaxSaves = 3
  MaxSaveFaults = 1
  Threads = {t1, t2}
  Batches = {b1, b2}
  RecordFields <- TwoSchemas
  FieldLists <- AllLists
  Depth <- Depths
  Counts = {0, 3}
  BatchSize = 2
INVARIANTS
  SettledIsFresh
  BuiltInsServed
  InStepAgrees
  BatchAsAsked
CHECK_DEADLOCK FALSE
