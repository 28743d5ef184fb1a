SPECIFICATION FairSpec
CONSTANTS
  t1 = t1
  t2 = t2
  t3 = t3
  TestRuns <- TwoRuns
  CasesPerRun = 2
  RunConcurrency = 2
  EvaluationLimit = 1
INVARIANTS RowsSettled
PROPERTIES OnlyLateAbortLosesSlot CancelledCaseNeverRuns EveryRunFinishes
CHECK_DEADLOCK FALSE
