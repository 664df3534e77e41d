SPECIFICATION FairSpec
CONSTANTS
  MaxConns = 2
  MinSearchSize = 2
  Sites <- AllSites
  MaxAttempts = 2
  MaxHops = 1
  MaxFaults = 1
  MaxLate = 1
INVARIANTS
  TypeOK
  PollNeverBlocks
  ResumeFitsLog
  DoneLeavesTarget
PROPERTIES
  InfoIsTrue
  WindowEnds
CHECK_DEADLOCK FALSE
