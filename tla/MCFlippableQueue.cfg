SPECIFICATION FairSpec
CONSTANTS
  Producers = {p1, p2, p3}
  MaxPushes = 2
INVARIANTS
  TypeOK
  RaceFree
PROPERTIES
  ImplementsQueue
  EventuallyHandled
