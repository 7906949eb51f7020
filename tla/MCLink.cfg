SPECIFICATION FairSpec
CONSTANTS
  Uninit = Uninit
  MIN_ALLOC_SIZE = 2
  DEFAULT_BUF_SIZE = 8
  SIZE_LEN = 2
  NO_LEN = 1
  HEADER_LEN = 1
  UINT32_MAX = 10
  Bodies = {0, 2, 6}
  Reserves = {0}
  Requests = {1, 8}
  MaxMessages = 3
  MaxBreaks = 1
INVARIANTS
  TypeOK
  NeverThrows
  RoomForTheRest
PROPERTIES
  EventuallyDelivered
  ImplementsChannel
