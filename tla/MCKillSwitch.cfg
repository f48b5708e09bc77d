CONSTANTS
  o1 = o1
  o2 = o2
  u1 = u1
  Task <- Mixed
  Ungated <- Background
  Cancellable <- Background
  FailureThreshold = 2
  RecoveryTimeout = 1
  HalfOpenMaxCalls = 1
  SuccessThreshold = 2
  MaxAttempts = 2
SPECIFICATION FairWiredSpec
INVARIANT BrokenHalts
INVARIANT LateCallsBounded
PROPERTY ResumeNeedsOperator
PROPERTY DeadEndIsFinal
PROPERTY RecoversOrDeadEnd
PROPERTY OpenIsRetried
