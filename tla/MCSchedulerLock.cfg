SPECIFICATION FairSpec
CONSTANTS
  Process = {p1, p2, p3}
  NoFile = NoFile
  NoProcess = NoProcess
  MaxDeaths = 2
  MaxStarts = 4
INVARIANTS FileNamesScheduler
PROPERTIES TheftTakesThree LoneStartSucceeds StartReturns
CHECK_DEADLOCK FALSE
