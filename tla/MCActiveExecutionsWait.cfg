SPECIFICATION Spec
CONSTANTS
  e1 = e1
  e2 = e2
  e3 = e3
  Executions <- Two
  MaxRuns = 3
  Limit = 1
  CanWait <- One
  CanStop <- One
  Timeouts = FALSE
  MaxBoots = 1
INVARIANT SingleEngine
CHECK_DEADLOCK FALSE
