SPECIFICATION FairSpec
CONSTANTS
  p1 = p1
  p2 = p2
  p3 = p3
  e1 = e1
  e2 = e2
  m1 = m1
  Callers <- MCCallers
  ModeOf <- MCModeOf
  ProductionLimit = 1
  EvaluationLimit <- Unset
  LicenseLimit = 1
INVARIANTS Accounting WorkConserving
PROPERTIES OverAdmissionOnlyByRemove FirstComeFirstServed NoStarvation
