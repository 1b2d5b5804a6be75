SPECIFICATION SampleSpec
CONSTANTS
  NumPackages = 1
  Topics = {t1}
  Buffers = {b1, b2, b3}
  None = None
  Wild = Wild
  Uninit = Uninit
  DataSize <- MCDataSize
  Selections <- MCSelections
  SizeLimit = 20
  Sends = 2
  Passes = 2
  MaxCalls = 2
  MaxInFlight = 2
CHECK_DEADLOCK FALSE
INVARIANT
  NoWildWrite
