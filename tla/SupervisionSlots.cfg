SPECIFICATION FairSpec
CONSTANTS
  N = 3
  Protos = {"ftp"}
  Proxied = {FALSE}
  Modes = {"passive", "active"}
  Slots = 2
  RefuseAt = "password"
  Failures <- RetriedFailures
  MaxFaults = 1
  MaxAttempts = 0
INVARIANTS
  TypeOK
  WaitIsAnswered
  JoinsOnlyEndingThreads
PROPERTY
  Ends
CHECK_DEADLOCK FALSE
