SPECIFICATION FairTickerSpec
CONSTANTS
  Callers = {main, redis}
  Main = main
  Intervals = {1, 2}
  MaxTickers = 3
  MaxSaves = 1
  MaxReloads = 2
INVARIANTS TickersSound
PROPERTIES ReloadsReturn
CHECK_DEADLOCK FALSE
