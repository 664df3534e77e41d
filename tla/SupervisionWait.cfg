SPECIFICATION Spec
CONSTANTS
  N = 2
  Protos = {"ftp"}
  Proxied = {FALSE}
  Modes = {"passive"}
  Slots = 2
  RefuseAt = "password"
  Failures = {"notfound", "closed"}
  MaxFaults = 2
  MaxAttempts = 0
INVARIANT
  WaitIsAnswered
CHECK_DEADLOCK FALSE
