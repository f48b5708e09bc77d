CONSTANTS
  t1 = t1
  t2 = t2
  t3 = t3
  Task <- ThreeTasks
  Cancellable <- ThreeTasks
  FailureThreshold = 3
  RecoveryTimeout = 2
  HalfOpenMaxCalls = 2
  SuccessThreshold = 2
SPECIFICATION Spec
INVARIANT ProbeLimit
INVARIANT ClosedHasBudget
PROPERTY ClosesOnEvidence
