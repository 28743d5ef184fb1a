SPECIFICATION FairSpec
CONSTANTS
  e1 = e1
  e2 = e2
  e3 = e3
  Executions <- Two
  MaxRuns = 1
  Limit = 1
  CanWait <- Nobody
  CanStop <- Two
  Timeouts = TRUE
  MaxBoots = 0
INVARIANTS CapacityReturned WorkingEngineIsRegistered
PROPERTIES ShutdownWaitsForResults ShutdownEnds EveryExecutionSettles
CHECK_DEADLOCK FALSE
