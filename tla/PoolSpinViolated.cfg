SPECIFICATION FairSpec
CONSTANTS
  b1 = b1
  b2 = b2
  ConnectionCount = 2
  ChannelsPerConn = 1
  HighWater = 2
  Batches <- OneBatch
  BatchSize = 2
  MaxSockets = 4
  MaxInits = 1
  MaxLost = 2
  MaxChannelErrors = 0
  MayShutDown = FALSE
PROPERTIES
  ReconnectsFire
CHECK_DEADLOCK FALSE
