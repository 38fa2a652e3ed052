SPECIFICATION Spec
CONSTANTS
  Procs = {s, p, q, r}
  Shell = s
  None = None
  MaxTables = 6
INVARIANTS TypeOK OwnMemory HurtOnlyInWindows
CHECK_DEADLOCK FALSE
