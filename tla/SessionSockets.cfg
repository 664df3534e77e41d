SPECIFICATION Spec
CONSTANTS
  Conn = {c1, c2}
  Nobody = Nobody
  Fd = {3, 4, 5, 6}
  Kinds = {"ftp", "info", "http", "proxy", "query"}
  MaxAttempts = 2
  Faults = {{"connect"}, {"cancel"}}
SYMMETRY ConnSymmetry
INVARIANTS
  TypeOK
  UsesOwnSockets
  LeakBound
PROPERTY
  ClosesOnlyOwn
CHECK_DEADLOCK FALSE
