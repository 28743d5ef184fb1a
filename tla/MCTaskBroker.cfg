SPECIFICATION FairSpec
CONSTANTS
  r1 = r1
  r2 = r2
  n1 = n1
  n2 = n2
  None = None
  Requests <- TwoRequests
  Runners <- TwoRunners
  LauncherOf <- Launched
  MaxConcurrency = 1
  MaxLost = 1
  MaxOffers <- TwoRunnersOffer
  Modes <- BothModes
CHECK_DEADLOCK FALSE
INVARIANTS AwaitedTaskIsTracked OrphansOnlyAfterExpiry WithinConcurrency SettingsFindTaskWaiting
PROPERTIES EveryRequestSettles EveryTaskEnds
