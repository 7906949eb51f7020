SPECIFICATION Spec
CONSTANTS
  Uninit = Uninit
  MIN_ALLOC_SIZE = 1
  DEFAULT_BUF_SIZE = 2
  Requests = {1, 3}
  MaxArrived = 7
INVARIANTS
  TypeOK
  Packed
  FrontReadable
  SpareBounded
PROPERTY
  ImplementsFifo
