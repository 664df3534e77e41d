SPECIFICATION FairSpec
CONSTANTS
  N = 2
  Results <- Found
  MaxPings = 2
  Times = {1, 3}
  Parsed <- AsParsed
  Downloads <- SomeDownloads
  MaxFaults = 1
INVARIANTS
  TypeOK
  PingsAreOver
  EndIsClean
PROPERTIES
  StartsOnFast
  UrlChangesAtRest
  SwitchesToFound
  
CHECK_DEADLOCK FALSE
