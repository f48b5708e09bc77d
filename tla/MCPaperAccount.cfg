SPECIFICATION Spec
CONSTANTS
  Client = {c1, c2}
  Ticker = {t1}
  Price = {2, 5}
  Quantity = {1, 3}
  Fee <- MCFee
  Capital = {7}
  Default = 7
  NoFile = NoFile
  Torn = Torn
  MaxOrders = 3
  MaxFaults = 1
INVARIANTS QuietAccountKept GoodFileKept
PROPERTIES TradeConserves OnlyCoverOverdraws
