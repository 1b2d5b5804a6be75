SPECIFICATION Spec
CONSTANTS
  Packs = 2
  MaxRequests = 2
  MaxInFlight = 1
  QueueSize = 2
  NoPack = NoPack
CHECK_DEADLOCK FALSE
INVARIANT
  Answered
