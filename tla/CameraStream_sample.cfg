SPECIFICATION SampleSpec
CONSTANTS
  Retries = 2
  MaxStarts = 3
CHECK_DEADLOCK FALSE
INVARIANTS
  TypeOK
  NothingLeft
PROPERTIES
  SocketHasOneUser
  CallsReturn
