SPECIFICATION Spec
CONSTANTS
  MaxConns = 1
  MinSearchSize = 2
  Sites <- FtpSites
  MaxAttempts = 1
  MaxHops = 1
  MaxFaults = 0
  MaxLate = 0
INVARIANT
  AbortIsHonoured
CHECK_DEADLOCK FALSE
