SPECIFICATION Spec
CONSTANTS
  Size = 2
  SizeKnown = TRUE
  MaxConns = 2
  MaxRuns = 2
  MaxFaults = 1
  RangeIgnored = TRUE
  RenameMayFail = FALSE
  UnlinkMayFail = FALSE
  KillInFinish = FALSE
INVARIANT
  NothingMisplaced
CHECK_DEADLOCK FALSE
