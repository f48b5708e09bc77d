CONSTANTS
  r1 = r1
  r2 = r2
  tk1 = tk1
  tk2 = tk2
  none = none
  Nobody = none
  Request <- TwoRequests
  Ticket <- OneTicket
  TickerOf <- SameTicker
  BrokerWord <- Words
  Deduplicates = FALSE
  MaxAttempts = 2
  MaxRecords = 2
  LogMax = 3
  MaxPlaced = 2
  MaxUnsaved = 1
  MaxCrashes = 1
SPECIFICATION Spec
SYMMETRY RequestSymmetry
INVARIANT TypeOK
INVARIANT LogMatchesOrders
INVARIANT WaitingRowsReachable
INVARIANT ApprovalExcludesCancel
PROPERTY ImplementsGate
