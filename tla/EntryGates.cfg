SPECIFICATION Spec
CONSTANTS
  Symbols = {s1, s2}
  EntryCap = 2
  MaxOpen = 2
  TradeRisk = 75
  HeatCap = 150
  MaxDayTrades = 2
  MaxBuys = 3
SYMMETRY Interchangeable
INVARIANTS TypeOK  ChurnCapped
