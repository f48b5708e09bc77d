SPECIFICATION Spec
CONSTANTS
  Opening <- Openings
  Closing <- Closings
  Pause <- Pauses
  LongTerm = 3
  MaxTrades = 4
CHECK_DEADLOCK FALSE
INVARIANTS TypeOK CommissionBooked HarvestFair
PROPERTY ImplementsLedger
