SPECIFICATION SampleSpec
CONSTANTS
  NumPackages = 2
  Topics = {t1, t2}
  Buffers = {b1, b2}
  None = None
  Wild = Wild
  Uninit = Uninit
  DataSize <- MCDataSize
  Selections <- MCSelections
  SizeLimit = 20
  Sends = 2
  Passes = 2
  MaxCalls = 3
  MaxInFlight = 2
SYMMETRY MCSymmetry
CHECK_DEADLOCK FALSE
INVARIANTS
  NoIllegalCopy
  TopicsPointIntoBuffers
  DataMatchesLayout
  StartedIsSending

