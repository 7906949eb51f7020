SPECIFICATION Spec
CONSTANTS
  Uninit = Uninit
  MIN_ALLOC_SIZE = 2
  Chunks = {0, 2}
  MaxPushed = 4
INVARIANT
  ConsumeAssertionHolds
