CONSTANTS
  a = a
  b = b
  Ticker <- TwoTickers
  Order <- Orders
  MaxShares = 2
  NoExit = NoExit
SPECIFICATION FairSpec
INVARIANT NoStopsWithoutShares
PROPERTY StopIsServed
