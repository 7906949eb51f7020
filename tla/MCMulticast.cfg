SPECIFICATION Spec
CONSTANTS
  Uninit = Uninit
  MIN_ALLOC_SIZE = 1
  Sessions = {s1, s2}
  Buffers = {b1, b2, b3}
  Capacity = 4
  Lengths = {2, 3}
  MaxMessages = 3
  MaxCloses = 1
SYMMETRY Symmetry
INVARIANTS
  TypeOK
  SessionsIndependent
CHECK_DEADLOCK FALSE
