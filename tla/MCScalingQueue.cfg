SPECIFICATION FairSpec
CONSTANTS
  e1 = e1
  e2 = e2
  w1 = w1
  w2 = w2
  None = None
  Executions <- OneExecution
  Workers <- TwoWorkers
  MaxCrashes = 2
  MaxFalseStalls = 1
CHECK_DEADLOCK FALSE
INVARIANT ToldFinalStatus
PROPERTIES RunsAtMostOnce EveryRowEnds EveryCallerIsTold
