SPECIFICATION Spec
CONSTANTS
  Uninit = Uninit
  MIN_ALLOC_SIZE = 4
  BYTE_BASE = 2
  COUNT_LEN = 2
  Blank = Blank
  Types <- MCTypes
  MaxLength = 2
  MaxReads = 2
INVARIANTS
  RoundTrip
  NothingInvented
  HalfReadIsPart
  ReadsBounded
CHECK_DEADLOCK FALSE
