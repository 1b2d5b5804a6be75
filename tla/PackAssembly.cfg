SPECIFICATION Spec
CONSTANTS
  QueueSize = 6
  MaxTotal = 8
  NoPack = NoPack
INVARIANTS
  TypeOK
  RangesApart
  BufferHoldsReceived
PROPERTY
  ImplementsLedger
