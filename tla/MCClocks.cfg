SPECIFICATION ClocksSpec
CONSTANTS
  Unknown = Unknown
  SECOND = 2
  PERIOD = 2
  Times <- MCTimes
  Settings <- MCSettings
  Skews <- MCSkews
  MaxSteady = 5
INVARIANT
  ComesBack
PROPERTY
  ElapsedGrows
CHECK_DEADLOCK FALSE
