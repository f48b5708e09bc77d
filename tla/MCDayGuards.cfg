SPECIFICATION FairGuardSpec
CONSTANTS
  Value = {0, 80, 92, 100}
  Balance = {100, 80}
  LossLimit = 4
  Drawdown = 15
  MaxEvents = 4
INVARIANTS GuardTypeOK DrawdownStopsTurn LossStopsNextTurn
PROPERTIES LossHaltsForGood
