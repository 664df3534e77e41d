SPECIFICATION Spec
CONSTANTS
  Size = 3
  SizeKnown = FALSE
  MaxConns = 1
  MaxRuns = 3
  MaxFaults = 2
  RangeIgnored = FALSE
  RenameMayFail = TRUE
  UnlinkMayFail = TRUE
  KillInFinish = FALSE
INVARIANT
  NothingMisplaced
CHECK_DEADLOCK FALSE
