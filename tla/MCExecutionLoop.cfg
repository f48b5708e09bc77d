CONSTANTS
  p1 = p1
  p2 = p2
  l1 = l1
  l2 = l2
  l3 = l3
  NoProcess = NoProcess
  Process <- TwoProcesses
  Loop <- ThreeLoops
  Owner <- OwnerOfThree
  Trading <- OnlyP1
  MaxTrades = 1
  MaxSignals = 1
  MaxDay = 2
  MaxPlaced = 4
  MaxCrashes = 1
  MaxStops = 1
SPECIFICATION FairSpec
INVARIANT CountedOverrunBounded
INVARIANT NoForeignTrades
PROPERTY StopIsHonoured
PROPERTY ImplementsMutex
CHECK_DEADLOCK FALSE
