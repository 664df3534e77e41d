SPECIFICATION Spec
CONSTANTS
  N = 2
  Protos = {"ftp", "http"}
  Proxied = {TRUE, FALSE}
  Modes = {"passive", "active"}
  Slots = 1
  RefuseAt = "greeting"
  Failures <- AllFailures
  MaxFaults = 4
  MaxAttempts = 3
INVARIANTS
  EndIsClean
  ResultHasCause
PROPERTY
  CompletedIsFinal
CHECK_DEADLOCK FALSE
