SPECIFICATION FairSpec
CONSTANTS
  b1 = b1
  b2 = b2
  ConnectionCount = 2
  ChannelsPerConn = 1
  HighWater = 2
  Batches <- TwoBatches
  BatchSize = 2
  MaxSockets = 4
  MaxInits = 1
  MaxLost = 1
  MaxChannelErrors = 1
  MayShutDown = TRUE
INVARIANTS
  NothingSkipped
  WaitersWillWake
  OneOwnerPerIndex
  LiveConnectionsHeld
PROPERTIES
  BatchesEnd
  ReconnectsFire
CHECK_DEADLOCK FALSE
