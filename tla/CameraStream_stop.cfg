SPECIFICATION SampleSpec
CONSTANTS
  Retries = 2
  MaxStarts = 2
CHECK_DEADLOCK FALSE
INVARIANT
  NoCallThroughNull
