SPECIFICATION Spec
CONSTANTS
  e1 = e1
  e2 = e2
  e3 = e3
  Executions <- Two
  MaxRuns = 2
  Limit = 1
  CanWait <- Nobody
  CanStop <- Nobody
  Timeouts = FALSE
  MaxBoots = 1
PROPERTIES EnqueuedAreRun
CHECK_DEADLOCK FALSE
