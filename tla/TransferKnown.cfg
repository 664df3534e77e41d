SPECIFICATION Spec
CONSTANTS
  Size = 5
  SizeKnown = TRUE
  MaxConns = 2
  MaxRuns = 3
  MaxFaults = 2
  RangeIgnored = FALSE
  RenameMayFail = FALSE
  UnlinkMayFail = FALSE
  KillInFinish = FALSE
INVARIANTS
  TypeOK
  NothingMisplaced
  CountBehindFile
  LogBehindFile
  RangesTileFile
  CompletedMeansStored
  TargetWhole
  LogMeansUnfinished
PROPERTY
  ImplementsFetch
CHECK_DEADLOCK FALSE
