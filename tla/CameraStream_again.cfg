SPECIFICATION Spec
CONSTANTS
  Retries = 2
  MaxStarts = 2
CHECK_DEADLOCK FALSE
INVARIANT
  NoLockKept
