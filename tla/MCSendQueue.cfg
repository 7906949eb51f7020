SPECIFICATION Spec
CONSTANTS
  Uninit = Uninit
  MIN_ALLOC_SIZE = 2
  Chunks = {1, 3}
  MaxPushed = 7
INVARIANTS
  TypeOK
  ConsumeAssertionHolds
PROPERTY
  ImplementsFifo
