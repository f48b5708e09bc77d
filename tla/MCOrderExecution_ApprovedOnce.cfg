CONSTANTS
  r1 = r1
  r2 = r2
  tk1 = tk1
  tk2 = tk2
  none = none
  Nobody = none
  Request <- OneRequest
  Ticket <- TwoTickets
  TickerOf <- SameTicker
  BrokerWord <- Words
  Deduplicates = TRUE
  MaxAttempts = 2
  MaxRecords = 2
  LogMax = 3
  MaxPlaced = 2
  MaxUnsaved = 1
  MaxCrashes = 0
SPECIFICATION Spec
INVARIANT ApprovedOnce
