SPECIFICATION FairSpec
CONSTANTS
  h1 = h1
  h2 = h2
  e1 = e1
  e2 = e2
  p1 = p1
  p2 = p2
  Hosts <- TwoHosts
  Executions <- OneExecution
  Webhooks <- OneExecution
  Polls <- OnePoll
  MaxWaits = 2
  MaxTakeovers = 1
  MaxLeaders = 1
CHECK_DEADLOCK FALSE
INVARIANT OneEngine
PROPERTIES CanceledStaysCanceled EveryWaitEnds
