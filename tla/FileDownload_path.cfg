SPECIFICATION SampleSpec
CONSTANTS
  Packs = 3
  MaxRequests = 2
  MaxInFlight = 2
  QueueSize = 3
  NoPack = NoPack
CHECK_DEADLOCK FALSE
INVARIANT
  SavedAtLocalPath
