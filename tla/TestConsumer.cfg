SPECIFICATION FairSpec
CONSTANTS
  h1 = h1
  h2 = h2
  t1 = t1
  exchange = exchange
  queue = queue
  topic = topic
  r1 = r1
  NoHandler = NoHandler
  Handlers = {h1, h2}
  Topics = {t1}
  Counters = {h1, h2, t1, exchange, queue, topic}
  CountersOf <- MCCountersOf
  Requests = {r1}
  MaxReceipts = 2
  MaxReceived = 3
  MaxFaults = 2
INVARIANTS
  RegisteredOnce
  ReceiptsAddUp
PROPERTIES
  RefreshesServe
CHECK_DEADLOCK FALSE
