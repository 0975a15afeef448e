SPECIFICATION Spec
CONSTANTS
  Symbols = {s1, s2}
  EntryCap = 0
  MaxOpen = 3
  TradeRisk = 0
  HeatCap = 0
  MaxDayTrades = 1
  MaxBuys = 2
INVARIANTS RoomToClose
