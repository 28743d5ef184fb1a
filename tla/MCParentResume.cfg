SPECIFICATION ParentFairSpec
CONSTANTS
  MaxChildren = 2
  MaxParentWaits = 2
  MaxFailures = 3
  MaxParentResumeAttempts = 3
PROPERTIES ResumedWithResult EveryParentResumes
CHECK_DEADLOCK FALSE
