SPECIFICATION FairSpec
CONSTANTS
  Inbound = {s1, s2}
  Outbound = {s3}
  ThreadNums = {2}
  MaxEvents = 2
INVARIANT SessionsSpread
PROPERTIES
  HandledInOrder
  EventuallyHandled
CHECK_DEADLOCK FALSE
