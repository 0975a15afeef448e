\* The parts beside the order path, one question each.
SPECIFICATION Spec
CONSTANTS
  Ticker = {"a", "b"}
  Contribution = 1
  AgentCash = 1
  MaxBooked = 1
  Funding = {"sim", "t212", "ibkr"}
  OldMoney = 1
  MaxDeposits = 1
  MaxDays = 3
  Fund = {"A", "C"}
  Twin <- TwinOf
  Group <- ThemeOf
  Stock = {"S"}
  Gilts = "G"
  CoreFunds = 1
  ExitRank = 1
  Settings <- Bears
  MaxPause = 1
  ThirtyDaysOff = 0
  Engines = {"india", "uk"}
  Allowance = 1
  BedAndBreakfast = 1
  TaxYear = 2
  MaxLot = 2
  MaxTaxTrades = 4
  TaxDays = 4
  Share = {"a", "b", "c"}
  Sector <- SectorOf
  MaxPositions = 2
  MaxPerSector = 1
  TradingDay = {1, 2, 4, 5}
  PreMarketStart = 480
  OpenTime = 555
  CloseTime = 930
  EodBuffer = 15
  TrainLead = 90
  RestartLead = 20
  StrategyLead = 10
  ClassifyEvery = 15
  ScanEvery = 60
  MaxFaults = 1
  MaxThreads = 2
  TrainingInstants = {440, 490, 560, 925}
  TrainingDays = 2
  TrainingJobs = {"train_daily", "train_eod"}
  NominationInstants = {440, 540, 600}
  NominationDays = 1
  NominationJobs = {"scanner_premarket", "scanner_intraday"}
  MaxScans = 3
  BlocklistInstants = {500, 600, 1000}
  BlocklistDays = 2
  WindowTrades = 3
  MinTrades = 2
  MinHits = 1
  StopsToBlock = 2
  MaxSales = 4
  ReadsRequired = 3
  AdxTrending = 1
  AtrVolatile = 1
  MinSlope = 1
  Adx = {0, 1}
  AtrPct = {0, 1, 2}
  Slope = {0, 1}
  MaxRestarts = 1
  Symbol = {"s"}
  Ahead = 1
  History = 3
  MinRows = 0
  FeatureDays = 4
  DaysIn <- Months
  EntryBefore = 3
  ExitBefore = 1
  FlowTrouble = 2
  SuppressAfter = 2
  StaleAfter = 2
  WarnEvery = 1
  Streams = {"none", "up", "down"}
  MaxOutages = 1
  Symbols = {"s", "t"}
  Phases <- Sessions
  DayLoss = 1
  WeekLoss = 2
  MaxNav = 2
  OvernightHold = TRUE
  Liquidate = TRUE
  MaxTrouble = 1
  Setups <- BothMarkets
  Fraction = 4
  Quote = {10, 20}
  Atr = {0, 1}
  Cash = 200
  Leverage = 1
  SizePct = 25
  StopLoss = 200
  TradeRisk = 100
  HeatCap = 150
  MaxOpen = 3
  MaxAdds = 1
  SmallNav = 150
  SmallDeploy = 90
  MaxDeploy = 50
  EdgeMultiple = 2
  FlatCost = 20
  Brokerage = 50
  BrokerageCap = 1
  MaxDecisions = 2
  MaxSyncs = 3
  Agent = {"trader", "vetting"}
  Trader = "trader"
  Grace = 2
  Suppress = 3
  MaxRestartsPerDay = 2
  HealthTrouble = 2
  StreamFaults = 3
  Price = {2, 3}
  Qty = {1, 2}
  Cost = 2
  Gap = 4
  Delay = 1
  LedgerSales = 2
  MaxCrashes = 1
  Amount <- EachWay
  MaxPnl = 1
  MaxMoney = 1
  MaxUnknown = 1
  Word = {"b", "w"}
  Base = {"b"}
  Bucket <- Scores
  LearnEvery = 2
  LearnWindow = 2
  MaxTrades = 3
  Level = {1, 2, 3}
  SellBar = 1
  StaticBar = 2
  MaxTrainings = 2
INVARIANTS
  TypeOK
  
  FifoIsShareByShare
  HarvestIsTaxFree
  OneFundPerGroup
  SectorCap
  
  
  RegimeNeedsAgreement
  RowsLostOnlyInARace
  
  NoBlindBuyLateInAnOutage
  
  
  CachedPriceIsStreamed
  NetFollowsTheRow
  AlarmMeansMisrecording
  LearntFromEnoughTrades
  BuyClearsTheBarOfItsModel
PROPERTIES
  
  SessionBlockHolds
\* Each part stops at its bounds.
CHECK_DEADLOCK FALSE
