SPECIFICATION Spec
CONSTANTS
  Uninit = Uninit
  Absent = Absent
  Wild = Wild
  initial_size = 8
  buffer_minalign = 8
  force_defaults = FALSE
  Tables <- MCTables
  Schemas <- MCSchemas
  Strings <- MCStrings
  Scalars <- MCScalars
  ScalarVectors <- MCScalarVectors
  Vectors <- MCVectors
  MaxObjects = 4
INVARIANTS
  TypeOK
  BytesWritten
  ObjectsReadBack
  FinishedMessageArrives
  CutMessageIsRejected
  VTablesShared
  FinishedInPlace
PROPERTY
  BytesStay
CHECK_DEADLOCK FALSE
