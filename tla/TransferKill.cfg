SPECIFICATION Spec
CONSTANTS
  Size = 2
  SizeKnown = TRUE
  MaxConns = 2
  MaxRuns = 3
  MaxFaults = 0
  RangeIgnored = FALSE
  RenameMayFail = FALSE
  UnlinkMayFail = FALSE
  KillInFinish = TRUE
INVARIANT
  LogMeansUnfinished
CHECK_DEADLOCK FALSE
