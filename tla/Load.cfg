SPECIFICATION MCSpec
CONSTANTS
  p = p
  q = q
  None = None
  Schemas <- TwoSchemas
  Frequencies <- Budgeted
  GlobalLimit = 70
  MaxInFlight = 1
  BacklogMs = 100
  ChunkSize = 3
  Deltas <- OnTimeOrLate
  MaxTests = 3
  MaxRequests = 2
  MaxBatches = 2
  MaxTime = 250
INVARIANTS
  BudgetKept
  OneRunning
  AnnouncedIsActive
  RateRespected
  InFlightBounded
PROPERTIES
  SaturationEnds
CHECK_DEADLOCK FALSE
