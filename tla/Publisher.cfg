SPECIFICATION FairSpec
CONSTANTS
  c1 = c1
  c2 = c2
  queue = queue
  rpc = rpc
  topic = topic
  untyped = untyped
  NoKey = NoKey
  Calls = {c1, c2}
  Destinations <- Some
  Transport <- SomeTransport
  CacheKey <- Itself
  Target <- Itself
  Asserted = {queue, topic}
  Rpc = {rpc}
  Untyped = {untyped}
  Partition <- SomePartition
  MaxChannels = 2
  BatchSize = 2
  MaxLinks = 1
  MaxLosses = 1
INVARIANTS
  BackpressureHeld
PROPERTIES
  AssertionSpec
  BatchesEnd
CHECK_DEADLOCK FALSE
