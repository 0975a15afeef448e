------------------------------- MODULE MCFleet -------------------------------
(***************************************************************************)
(* The parts of the fleet that share no state with the trader's order      *)
(* path, model-checked together: focus says which of them a behaviour is   *)
(* about, and the slots v1, v2, ... hold its variables.  The states of the *)
(* run are the states of the parts side by side, never their product.      *)
(***************************************************************************)
EXTENDS Integers, Sequences, FiniteSets

(* The constants of the parts, under their own names where these do not    *)
(* clash; Fleet.cfg gives the values.                                      *)
CONSTANTS
  Ticker, Contribution, AgentCash, MaxBooked,               \* GrowthCycle
  Funding, OldMoney, MaxDeposits, MaxDays,                  \* UkFunding
  Fund, Twin, Group, Stock, Gilts, CoreFunds, ExitRank,     \* UkPlanner
  Settings, MaxPause, ThirtyDaysOff,
  Engines, Allowance, BedAndBreakfast, TaxYear, MaxLot,     \* TaxLots
  MaxTaxTrades, TaxDays,
  Share, Sector, MaxPositions, MaxPerSector,                \* InPlanner
  TradingDay, PreMarketStart, OpenTime, CloseTime,          \* SessionClock
  EodBuffer,
  TrainLead, RestartLead, StrategyLead, ClassifyEvery,      \* Scheduler
  ScanEvery, MaxFaults, MaxThreads,
  TrainingInstants, TrainingDays, TrainingJobs,             \* Training
  NominationInstants, NominationDays, NominationJobs,       \* Nominations
  MaxScans,
  BlocklistInstants, BlocklistDays, WindowTrades,           \* Blocklist
  MinTrades, MinHits, StopsToBlock, MaxSales,
  ReadsRequired, AdxTrending, AtrVolatile, MinSlope,        \* Regime
  Adx, AtrPct, Slope, MaxRestarts,
  Symbol, Ahead, History, MinRows, FeatureDays,             \* FeatureLog
  DaysIn, EntryBefore, ExitBefore, FlowTrouble,             \* FlowTrader
  SuppressAfter, StaleAfter, WarnEvery, Streams,            \* ScanInputs
  MaxOutages,
  Symbols, Phases, DayLoss, WeekLoss, MaxNav,               \* TradeDay
  OvernightHold, Liquidate, MaxTrouble,
  Setups, Fraction, Quote, Atr, Cash, Leverage, SizePct,    \* Sizing
  StopLoss, TradeRisk, HeatCap, MaxOpen, MaxAdds, SmallNav,
  SmallDeploy, MaxDeploy, EdgeMultiple, FlatCost,
  Brokerage, BrokerageCap, MaxDecisions, MaxSyncs,
  Agent, Trader, Grace, Suppress, MaxRestartsPerDay,        \* AgentHealth
  HealthTrouble,
  StreamFaults,                                             \* KiteStream
  Price, Qty, Cost, Gap, Delay, LedgerSales, MaxCrashes,    \* TradeLedger
  Amount, MaxPnl, MaxMoney, MaxUnknown,                     \* DayPnl
  Word, Base, Bucket, LearnEvery, LearnWindow, MaxTrades,   \* Learning
  Level, SellBar, StaticBar, MaxTrainings                   \* ModelGate

\* The strategy agent asks for at least one read, the learning engine for at
\* least one trade; quantities and prices of the ledger are numbers.
ASSUME RegimeAssumption == ReadsRequired \in Nat \ {0}
ASSUME LearningAssumption ==
  MinTrades \in Nat \ {0} /\ MaxTrades \in Nat /\ Bucket \subseteq Int /\ IsFiniteSet(Bucket)
ASSUME LedgerAssumption == Price \subseteq Int /\ Qty \subseteq Int /\ Cost \in Int

\* A share costs something; what is paid in or out is a number.
ASSUME MoneyAssumption == 0 \notin Price /\ Amount \subseteq Int
ASSUME FundingAssumption == OldMoney \in Nat /\ Funding \subseteq {"sim", "t212", "ibkr"}
ASSUME GrowthAssumption == Contribution \in Nat /\ AgentCash \in Nat

\* Two tax engines; the allowance is not negative, a year has a day.
ASSUME TaxAssumption ==
  /\ Engines \subseteq {"india", "uk"} /\ Price \subseteq Nat /\ Allowance \in Nat
  /\ MaxLot \in Nat /\ BedAndBreakfast \in Nat /\ TaxYear \in Nat \ {0} /\ TaxDays \in Nat \ {0}
ASSUME InputsAssumption == SuppressAfter \in Nat /\ Streams \subseteq {"none", "up", "down"}

\* The lines of the UK growth bot are different tickers (universe.py).
ASSUME UniverseAssumption ==
  /\ (Fund \cup {Twin[f] : f \in Fund}) \cap (Stock \cup {Gilts}) = {}
  /\ \A f, g \in Fund : Twin[f] \in {g, Twin[g]} => f = g

\* The pool of the India bot is a list (config.py).
ASSUME PoolAssumption == IsFiniteSet(Share) /\ MaxPerSector \in Nat

\* Rates and prices are numbers; a price, a stop and a unit are positive.
ASSUME SizingAssumption ==
  /\ IsFiniteSet(Symbols) /\ Setups \subseteq {"IN", "US"} \X BOOLEAN
  /\ Quote \subseteq Nat \ {0} /\ Atr \subseteq Nat /\ Fraction \in Nat \ {0}
  /\ StopLoss \in Nat \ {0} /\ TradeRisk \in Nat /\ HeatCap \in Nat
  /\ Cash \in Int /\ Leverage \in Nat /\ SizePct \in Nat

\* Phases follow one session to the morning after: days come in order, there
\* is one close, and the hours after it come next.
ASSUME SessionsAssumption ==
  /\ Phases \in Seq([name : STRING, day : Nat]) /\ Phases # << >>
  /\ \A i, j, k \in 1..Len(Phases) :
       i <= j /\ j <= k /\ Phases[i].name = "close" /\ Phases[k].name = "close" => Phases[j].name = "close"
  /\ \A i \in 2..Len(Phases) :
       /\ Phases[i - 1].day <= Phases[i].day
       /\ Phases[i].name = "after" => Phases[i - 1].name \in {"close", "after"}

\* Bounds are numbers, and those of the days are not zero; a month has a day.
ASSUME BoundsAssumption ==
  /\ MaxThreads \in Nat \ {0} /\ MaxFaults \in Nat /\ MaxRestarts \in Nat /\ MaxTrouble \in Nat
  /\ FlowTrouble \in Nat /\ HealthTrouble \in Nat /\ StreamFaults \in Nat /\ MaxCrashes \in Nat
  /\ MaxOutages \in Nat /\ MaxUnknown \in Nat /\ MaxPnl \in Nat /\ MaxMoney \in Nat
  /\ MaxTrainings \in Nat /\ LearnWindow \in Nat /\ StaleAfter \in Nat /\ WarnEvery \in Nat
  /\ Grace \in Nat /\ Suppress \in Nat /\ MaxRestartsPerDay \in Nat /\ WeekLoss \in Nat
  /\ MaxNav \in Nat /\ MaxPause \in Nat /\ ThirtyDaysOff \in Nat /\ MaxDecisions \in Nat
  /\ MaxSyncs \in Nat
  /\ FeatureDays \in Nat \ {0} /\ MaxDays \in Nat \ {0} /\ TrainingDays \in Nat \ {0}
  /\ NominationDays \in Nat \ {0} /\ BlocklistDays \in Nat \ {0} /\ MaxScans \in Nat \ {0}
  /\ LedgerSales \in Nat \ {0}

\* The clock stops at some minutes of the day; the calendar is a list of days
\* and reaches beyond the last of a run.
ASSUME ClockAssumption ==
  /\ \A I \in {TrainingInstants, NominationInstants, BlocklistInstants} :
       I # {} /\ IsFiniteSet(I) /\ I \subseteq 0..1439
  /\ TradingDay \subseteq Nat /\ IsFiniteSet(TradingDay) /\ OpenTime \in Nat
  /\ \E d \in TradingDay : d > BlocklistDays
ASSUME MonthsAssumption == DaysIn \in Seq(Nat \ {0}) /\ DaysIn # << >>

VARIABLES focus,
          v1, v2, v3, v4, v5, v6, v7, v8, v9, v10, v11, v12, v13, v14, v15,
          v16, v17, v18, v19

Unused == "unused"

Free19 == v19 = Unused
Free18 == v18 = Unused /\ Free19
Free17 == v17 = Unused /\ Free18
Free16 == v16 = Unused /\ Free17
Free15 == v15 = Unused /\ Free16
Free14 == v14 = Unused /\ Free15
Free13 == v13 = Unused /\ Free14
Free12 == v12 = Unused /\ Free13
Free11 == v11 = Unused /\ Free12
Free10 == v10 = Unused /\ Free11
Free9 == v9 = Unused /\ Free10
Free8 == v8 = Unused /\ Free9
Free7 == v7 = Unused /\ Free8
Free6 == v6 = Unused /\ Free7
Free5 == v5 = Unused /\ Free6

rest19 == <<v19>>
rest18 == <<v18, v19>>
rest17 == <<v17, v18, v19>>
rest16 == <<v16, v17, v18, v19>>
rest15 == <<v15, v16, v17, v18, v19>>
rest14 == <<v14, v15, v16, v17, v18, v19>>
rest13 == <<v13, v14, v15, v16, v17, v18, v19>>
rest12 == <<v12, v13, v14, v15, v16, v17, v18, v19>>
rest11 == <<v11, v12, v13, v14, v15, v16, v17, v18, v19>>
rest10 == <<v10, v11, v12, v13, v14, v15, v16, v17, v18, v19>>
rest9 == <<v9, v10, v11, v12, v13, v14, v15, v16, v17, v18, v19>>
rest8 == <<v8, v9, v10, v11, v12, v13, v14, v15, v16, v17, v18, v19>>
rest7 == <<v7, v8, v9, v10, v11, v12, v13, v14, v15, v16, v17, v18, v19>>
rest6 == <<v6, v7, v8, v9, v10, v11, v12, v13, v14, v15, v16, v17, v18, v19>>
rest5 == <<v5, v6, v7, v8, v9, v10, v11, v12, v13, v14, v15, v16, v17, v18, v19>>

\* One session of the trader and the morning of the next.
Phase(name, day) == [name |-> name, day |-> day]
Sessions ==
  <<Phase("pre", 1), Phase("early", 1), Phase("late", 1), Phase("close", 1),
    Phase("after", 1), Phase("pre", 2), Phase("early", 2)>>

\* Values that a .cfg cannot write down.
TwinOf == [A |-> "A2", C |-> "C"]
ThemeOf == [A |-> 1, C |-> 1]
Bears == {[action |-> "pause", stocks |-> 1], [action |-> "derisk", stocks |-> 0]}
SectorOf == [a |-> 1, b |-> 1, c |-> 2]
Months == <<5, 3, 4>>
BothMarkets == {<<"IN", TRUE>>, <<"US", FALSE>>}
EachWay == {-1, 1}
Scores == {-40, 60}

-----------------------------------------------------------------------------
GrowthCycle ==
  INSTANCE GrowthCycle WITH
    ran <- v1, ledger <- v2, fence <- v3, acct <- v4, transfers <- v5,
    run <- v6, stray <- v7, debt <- v8, crossed <- v9, mishap <- v10

OnGrowthCycle == focus = "growth_in" /\ UNCHANGED <<focus, rest11>>
InitGrowthCycle == focus = "growth_in" /\ GrowthCycle!Init /\ Free11
NextGrowthCycle ==
  \/ OnGrowthCycle /\ GrowthCycle!StartCycle
  \/ OnGrowthCycle /\ GrowthCycle!SkipCycle
  \/ OnGrowthCycle /\ GrowthCycle!FinishCycle
  \/ OnGrowthCycle /\ GrowthCycle!SettleOrder
  \/ OnGrowthCycle /\ GrowthCycle!OrderFills
  \/ OnGrowthCycle /\ GrowthCycle!StrayFills
  \/ OnGrowthCycle /\ \E o \in v6.todo : GrowthCycle!SendOrder(o)
  \/ OnGrowthCycle /\ \E o \in v6.todo : GrowthCycle!RefuseOrder(o)
  \/ OnGrowthCycle /\ \E o \in v6.todo : GrowthCycle!LoseOrder(o)
  \/ OnGrowthCycle /\ GrowthCycle!CycleFails
  \/ OnGrowthCycle /\ GrowthCycle!Restart
  \/ OnGrowthCycle /\ GrowthCycle!NextDay
  \/ OnGrowthCycle /\ GrowthCycle!Reconcile
  \/ OnGrowthCycle /\ GrowthCycle!MoneyLands
  \/ OnGrowthCycle /\ \E t \in Ticker : GrowthCycle!AgentBuys(t)
  \/ OnGrowthCycle /\ \E t \in Ticker : GrowthCycle!AgentSells(t)

-----------------------------------------------------------------------------
UkFunding ==
  INSTANCE UkFunding WITH
    funding <- v1, day <- v2, ran <- v3, flows <- v4, shares <- v5,
    marks <- v6, bank <- v7, at <- v8, purse <- v9, order <- v10,
    informed <- v11, mishap <- v12

OnUkFunding == focus = "funding_uk" /\ UNCHANGED <<focus, rest13>>
InitUkFunding == focus = "funding_uk" /\ UkFunding!Init /\ Free13
NextUkFunding ==
  \/ OnUkFunding /\ UkFunding!StartCycle
  \/ OnUkFunding /\ UkFunding!SkipCycle
  \/ OnUkFunding /\ UkFunding!RecordSimulated
  \/ OnUkFunding /\ UkFunding!MarkFunded
  \/ OnUkFunding /\ UkFunding!RecordT212
  \/ OnUkFunding /\ UkFunding!RecordIbkr
  \/ OnUkFunding /\ UkFunding!SendBuy
  \/ OnUkFunding /\ UkFunding!SendSell
  \/ OnUkFunding /\ UkFunding!Fills
  \/ OnUkFunding /\ UkFunding!Rejected
  \/ OnUkFunding /\ UkFunding!Answered
  \/ OnUkFunding /\ UkFunding!Unanswered
  \/ OnUkFunding /\ UkFunding!EndCycle
  \/ OnUkFunding /\ UkFunding!Dies
  \/ OnUkFunding /\ UkFunding!NextDay
  \/ OnUkFunding /\ UkFunding!Deposit
  \/ OnUkFunding /\ UkFunding!GoesEx
  \/ OnUkFunding /\ UkFunding!DividendPaid

-----------------------------------------------------------------------------
TaxLots ==
  INSTANCE TaxLots WITH
    Regimes <- Engines, Window <- BedAndBreakfast, Year <- TaxYear,
    MaxTrades <- MaxTaxTrades, LastDay <- TaxDays,
    regime <- v1, today <- v2, trades <- v3, harvested <- v4

OnTaxLots == focus = "tax" /\ UNCHANGED <<focus, rest5>>
InitTaxLots == focus = "tax" /\ TaxLots!Init /\ Free5
NextTaxLots ==
  \/ OnTaxLots /\ TaxLots!Buy
  \/ OnTaxLots /\ TaxLots!Sell
  \/ OnTaxLots /\ TaxLots!Harvest
  \/ OnTaxLots /\ TaxLots!NextDay

-----------------------------------------------------------------------------
UkPlanner ==
  INSTANCE UkPlanner WITH
    Window <- ThirtyDaysOff, settings <- v1, held <- v2, ago <- v3,
    paused <- v4, at <- v5, plan <- v6, failed <- v7

OnUkPlanner == focus = "planner_uk" /\ UNCHANGED <<focus, rest8>>
InitUkPlanner == focus = "planner_uk" /\ UkPlanner!Init /\ Free8
NextUkPlanner ==
  \/ OnUkPlanner /\ UkPlanner!PlanSatellite
  \/ OnUkPlanner /\ UkPlanner!PlanCore
  \/ OnUkPlanner /\ UkPlanner!Rebalance
  \/ OnUkPlanner /\ UkPlanner!Harvest
  \/ OnUkPlanner /\ UkPlanner!Invest

-----------------------------------------------------------------------------
InPlanner ==
  INSTANCE InPlanner WITH
    Positions <- MaxPositions, held <- v1, rebuy <- v2, at <- v3,
    plan <- v4, failed <- v5

OnInPlanner == focus = "planner_in" /\ UNCHANGED <<focus, rest6>>
InitInPlanner == focus = "planner_in" /\ InPlanner!Init /\ Free6
NextInPlanner ==
  \/ OnInPlanner /\ InPlanner!PlanPortfolio
  \/ OnInPlanner /\ InPlanner!Rebalance
  \/ OnInPlanner /\ InPlanner!Harvest
  \/ OnInPlanner /\ InPlanner!Invest

-----------------------------------------------------------------------------
Training ==
  INSTANCE Training WITH
    Instants <- TrainingInstants, LastDay <- TrainingDays,
    Jobs <- TrainingJobs, day <- v1, time <- v2, sched <- v3, mail <- v4,
    prev <- v5, stamp <- v6, faults <- v7, waiting <- v8, holder <- v9,
    trained <- v10, tracker <- v11, eodMark <- v12, models <- v13,
    eodRuns <- v14, unmarked <- v15

OnTraining == focus = "training" /\ UNCHANGED <<focus, rest16>>
InitTraining == focus = "training" /\ Training!Init /\ Free16
NextTraining ==
  \/ OnTraining /\ Training!OrchestratorTick /\ UNCHANGED <<v8, v9, v10, v11, v12, v13, v14, v15>>
  \/ OnTraining /\ Training!OrchestratorRestarts /\ UNCHANGED <<v8, v9, v10, v11, v12, v13, v14, v15>>
  \/ OnTraining /\ Training!MailLost /\ UNCHANGED <<v8, v9, v10, v11, v12, v13, v14, v15>>
  \/ OnTraining /\ Training!TrainerHears
  \/ OnTraining /\ Training!TrainerTick
  \/ OnTraining /\ \E k \in Training!Kind : Training!TryLock(k)
  \/ OnTraining /\ Training!TrainDaily
  \/ OnTraining /\ Training!EodSkips
  \/ OnTraining /\ Training!EodRetrains
  \/ OnTraining /\ Training!EodMarks
  \/ OnTraining /\ Training!TrainerRestarts
  \/ OnTraining /\ Training!TimePasses

-----------------------------------------------------------------------------
Nominations ==
  INSTANCE Nominations WITH
    Instants <- NominationInstants, LastDay <- NominationDays,
    Jobs <- NominationJobs, day <- v1, time <- v2, sched <- v3, mail <- v4,
    prev <- v5, stamp <- v6, faults <- v7, file <- v8, scanDay <- v9,
    scan <- v10, news <- v11, waiting <- v12, vet <- v13, vetted <- v14,
    vetDay <- v15, race <- v16

OnNominations == focus = "nominations" /\ UNCHANGED <<focus, rest17>>
InitNominations == focus = "nominations" /\ Nominations!Init /\ Free17
NextNominations ==
  \/ OnNominations /\ Nominations!OrchestratorTick /\ UNCHANGED <<v8, v9, v10, v11, v12, v13, v14, v15, v16>>
  \/ OnNominations /\ Nominations!OrchestratorRestarts /\ UNCHANGED <<v8, v9, v10, v11, v12, v13, v14, v15, v16>>
  \/ OnNominations /\ Nominations!MailLost /\ UNCHANGED <<v8, v9, v10, v11, v12, v13, v14, v15, v16>>
  \/ OnNominations /\ Nominations!ScannerHears
  \/ OnNominations /\ Nominations!ScannerTick
  \/ OnNominations /\ Nominations!ScanEnds
  \/ OnNominations /\ Nominations!Announce
  \/ OnNominations /\ Nominations!ScannerRestarts
  \/ OnNominations /\ Nominations!VettingHears
  \/ OnNominations /\ Nominations!Revet
  \/ OnNominations /\ Nominations!VettingTick
  \/ OnNominations /\ Nominations!TakeLock
  \/ OnNominations /\ Nominations!PublishVetted
  \/ OnNominations /\ Nominations!VettingRestarts
  \/ OnNominations /\ Nominations!NewsLost
  \/ OnNominations /\ Nominations!TimePasses

-----------------------------------------------------------------------------
Blocklist ==
  INSTANCE Blocklist WITH
    Instants <- BlocklistInstants, LastDay <- BlocklistDays, day <- v1,
    time <- v2, sales <- v3, entry <- v4, monitor <- v5, overlap <- v6

OnBlocklist == focus = "blocklist" /\ UNCHANGED <<focus, rest7>>
InitBlocklist == focus = "blocklist" /\ Blocklist!Init /\ Free7
NextBlocklist ==
  \/ OnBlocklist /\ Blocklist!Sell
  \/ OnBlocklist /\ Blocklist!Judge
  \/ OnBlocklist /\ Blocklist!Write
  \/ OnBlocklist /\ Blocklist!TimePasses

-----------------------------------------------------------------------------
Regime ==
  INSTANCE Regime WITH
    ready <- v1, threads <- v2, holder <- v3, current <- v4,
    candidate <- v5, count <- v6, published <- v7, faults <- v8,
    restarts <- v9, reads <- v10, agreed <- v11, claim <- v12

OnRegime == focus = "regime" /\ UNCHANGED <<focus, rest13>>
InitRegime == focus = "regime" /\ Regime!Init /\ Free13
NextRegime ==
  \/ OnRegime /\ Regime!Setup
  \/ OnRegime /\ Regime!Start
  \/ OnRegime /\ Regime!Acquire
  \/ OnRegime /\ Regime!NoData
  \/ OnRegime /\ Regime!Classify
  \/ OnRegime /\ Regime!Publish
  \/ OnRegime /\ Regime!Restart

-----------------------------------------------------------------------------
FeatureLog ==
  INSTANCE FeatureLog WITH
    LastDay <- FeatureDays, day <- v1, file <- v2, draft <- v3,
    writing <- v4, model <- v5, logged <- v6, labelled <- v7, torn <- v8

OnFeatureLog == focus = "features" /\ UNCHANGED <<focus, rest9>>
InitFeatureLog == focus = "features" /\ FeatureLog!Init /\ Free9
NextFeatureLog ==
  \/ OnFeatureLog /\ FeatureLog!TraderReads
  \/ OnFeatureLog /\ FeatureLog!TrainerReads
  \/ OnFeatureLog /\ FeatureLog!NextDay
  \/ OnFeatureLog /\ \E p \in FeatureLog!Process : FeatureLog!Truncates(p)
  \/ OnFeatureLog /\ \E p \in FeatureLog!Process : FeatureLog!Finishes(p)
  \/ OnFeatureLog /\ \E p \in FeatureLog!Process : FeatureLog!Dies(p)

-----------------------------------------------------------------------------
FlowTrader ==
  INSTANCE FlowTrader WITH
    MaxTrouble <- FlowTrouble, month <- v1, today <- v2, window <- v3,
    shares <- v4, saved <- v5, state <- v6, step <- v7, trouble <- v8,
    entries <- v9, torn <- v10

OnFlowTrader == focus = "flow" /\ UNCHANGED <<focus, rest11>>
InitFlowTrader == focus = "flow" /\ FlowTrader!Init /\ Free11
NextFlowTrader ==
  \/ OnFlowTrader /\ FlowTrader!Enter
  \/ OnFlowTrader /\ FlowTrader!RecordEntry
  \/ OnFlowTrader /\ FlowTrader!Exit
  \/ OnFlowTrader /\ FlowTrader!RecordExit
  \/ OnFlowTrader /\ FlowTrader!Restart
  \/ OnFlowTrader /\ FlowTrader!WindowOpens
  \/ OnFlowTrader /\ FlowTrader!NextDay

-----------------------------------------------------------------------------
ScanInputs ==
  INSTANCE ScanInputs WITH
    up <- v1, outages <- v2, quiet <- v3, blocked <- v4, vetted <- v5,
    nominated <- v6, directive <- v7, scan <- v8, blocklist <- v9,
    applied <- v10, targets <- v11, stream <- v12, warned <- v13,
    newModel <- v14, oldModel <- v15, missed <- v16, outage <- v17,
    returned <- v18, blind <- v19

OnScanInputs == focus = "inputs" /\ UNCHANGED focus
InitScanInputs == focus = "inputs" /\ ScanInputs!Init
NextScanInputs ==
  \/ OnScanInputs /\ ScanInputs!Period
  \/ OnScanInputs /\ ScanInputs!Outage
  \/ OnScanInputs /\ ScanInputs!Others
  \/ OnScanInputs /\ ScanInputs!StreamDies
  \/ OnScanInputs /\ ScanInputs!Retrained
  \/ OnScanInputs /\ ScanInputs!Refresh
  \/ OnScanInputs /\ ScanInputs!Choose
  \/ OnScanInputs /\ ScanInputs!Buy
  \/ OnScanInputs /\ ScanInputs!ScanEnds
  \/ OnScanInputs /\ ScanInputs!Restart

-----------------------------------------------------------------------------
TradeDay ==
  INSTANCE TradeDay WITH
    Symbol <- Symbols, phase <- v1, proc <- v2, step <- v3, nav <- v4,
    base <- v5, week <- v6, held <- v7, eodDone <- v8, mayBuy <- v9,
    halted <- v10, reports <- v11, trouble <- v12, stopped <- v13,
    afterStop <- v14, explained <- v15

OnTradeDay == focus = "session" /\ UNCHANGED <<focus, rest16>>
InitTradeDay == focus = "session" /\ TradeDay!Init /\ Free16
NextTradeDay ==
  \/ OnTradeDay /\ TradeDay!Boot
  \/ OnTradeDay /\ TradeDay!PreMarketDump
  \/ OnTradeDay /\ TradeDay!Wakes
  \/ OnTradeDay /\ TradeDay!CannotConnect
  \/ OnTradeDay /\ TradeDay!GapCheck
  \/ OnTradeDay /\ TradeDay!LoopTop
  \/ OnTradeDay /\ TradeDay!SessionEnded
  \/ OnTradeDay /\ TradeDay!LossLimit
  \/ OnTradeDay /\ TradeDay!CloseAll
  \/ OnTradeDay /\ TradeDay!NoEodDue
  \/ OnTradeDay /\ TradeDay!ChooseEntries
  \/ OnTradeDay /\ TradeDay!ScanBuys
  \/ OnTradeDay /\ TradeDay!ScanSells
  \/ OnTradeDay /\ TradeDay!ScanDone
  \/ OnTradeDay /\ TradeDay!ShutDown
  \/ OnTradeDay /\ TradeDay!LoopFails
  \/ OnTradeDay /\ TradeDay!Finish
  \/ OnTradeDay /\ TradeDay!Dies
  \/ OnTradeDay /\ TradeDay!Falls
  \/ OnTradeDay /\ TradeDay!HaltExpires
  \/ OnTradeDay /\ TradeDay!TimePasses

-----------------------------------------------------------------------------
Sizing ==
  INSTANCE Sizing WITH
    Symbol <- Symbols, Price <- Quote, MaxScans <- MaxSyncs,
    setup <- v1, price <- v2, snap <- v3, todo <- v4, adds <- v5,
    cooling <- v6, half <- v7, held <- v8, paid <- v9, cash <- v10,
    buying <- v11, decisions <- v12, scans <- v13, entries <- v14,
    heat <- v15, addHeat <- v16, unseen <- v17

OnSizing == focus = "sizing" /\ UNCHANGED <<focus, rest18>>
InitSizing == focus = "sizing" /\ Sizing!Init /\ Free18
NextSizing ==
  \/ OnSizing /\ Sizing!Sync
  \/ OnSizing /\ Sizing!PriceMoves
  \/ OnSizing /\ \E s \in Symbols : Sizing!Buy(s)
  \/ OnSizing /\ \E s \in Symbols : Sizing!PyramidAdd(s)
  \/ OnSizing /\ \E s \in Symbols : Sizing!Sell(s)
  \/ OnSizing /\ \E s \in Symbols : Sizing!SellRefused(s)
  \/ OnSizing /\ \E s \in Symbols : Sizing!Hold(s)
  \/ OnSizing /\ \E s \in Symbols : Sizing!StopExit(s)
  \/ OnSizing /\ \E s \in Symbols : Sizing!CooldownEnds(s)
  \/ OnSizing /\ \E s \in Symbols : Sizing!BuyFills(s)
  \/ OnSizing /\ \E s \in Symbols : Sizing!BuyLapses(s)

-----------------------------------------------------------------------------
AgentHealth ==
  INSTANCE AgentHealth WITH
    MaxTrouble <- HealthTrouble, proc <- v1, key <- v2, silent <- v3,
    restarts <- v4, closed <- v5, trouble <- v6, docker <- v7

OnAgentHealth == focus = "health" /\ UNCHANGED <<focus, rest8>>
InitAgentHealth == focus = "health" /\ AgentHealth!Init /\ Free8
NextAgentHealth ==
  \/ OnAgentHealth /\ AgentHealth!Supervise
  \/ OnAgentHealth /\ \E a \in Agent : AgentHealth!Beat(a)
  \/ OnAgentHealth /\ \E a \in Agent : AgentHealth!Expires(a)
  \/ OnAgentHealth /\ \E a \in Agent : AgentHealth!Fails(a)
  \/ OnAgentHealth /\ \E a \in Agent : AgentHealth!DockerRevives(a)
  \/ OnAgentHealth /\ AgentHealth!SessionCloses
  \/ OnAgentHealth /\ AgentHealth!NewDay
  \/ OnAgentHealth /\ AgentHealth!OrchestratorRestarts
  \/ OnAgentHealth /\ AgentHealth!PreopenRestart

-----------------------------------------------------------------------------
KiteStream ==
  INSTANCE KiteStream WITH
    Symbol <- Symbols, MaxFaults <- StreamFaults, file <- v1, session <- v2,
    socket <- v3, held <- v4, cached <- v5, tokens <- v6, streamed <- v7,
    work <- v8, early <- v9, faults <- v10

OnKiteStream == focus = "stream" /\ UNCHANGED <<focus, rest11>>
InitKiteStream == focus = "stream" /\ KiteStream!Init /\ Free11
NextKiteStream ==
  \/ OnKiteStream /\ KiteStream!Connect
  \/ OnKiteStream /\ KiteStream!LoginFails
  \/ OnKiteStream /\ KiteStream!NewConnector
  \/ OnKiteStream /\ KiteStream!SocketOpens
  \/ OnKiteStream /\ KiteStream!SocketDrops
  \/ OnKiteStream /\ KiteStream!TokensExpire
  \/ OnKiteStream /\ KiteStream!FollowPrice
  \/ OnKiteStream /\ KiteStream!Subscribe
  \/ OnKiteStream /\ KiteStream!SubscribeSent
  \/ OnKiteStream /\ \E s \in Symbols : KiteStream!Tick(s)
  \/ OnKiteStream /\ \E s \in Symbols : KiteStream!AskPrice(s)
  \/ OnKiteStream /\ \E s \in Symbols : KiteStream!Trade(s)

-----------------------------------------------------------------------------
TradeLedger ==
  INSTANCE TradeLedger WITH
    MaxSales <- LedgerSales, clock <- v1, fills <- v2, rows <- v3,
    column <- v4, revision <- v5, proc <- v6, plan <- v7, overlap <- v8,
    crashes <- v9

OnTradeLedger == focus = "ledger" /\ UNCHANGED <<focus, rest10>>
InitTradeLedger == focus = "ledger" /\ TradeLedger!Init /\ Free10
NextTradeLedger ==
  \/ OnTradeLedger /\ TradeLedger!SaleFills
  \/ OnTradeLedger /\ TradeLedger!Insert
  \/ OnTradeLedger /\ TradeLedger!Tick
  \/ OnTradeLedger /\ TradeLedger!Plan
  \/ OnTradeLedger /\ TradeLedger!Apply
  \/ OnTradeLedger /\ \E p \in TradeLedger!Process : TradeLedger!Open(p)
  \/ OnTradeLedger /\ \E p \in TradeLedger!Process : TradeLedger!Migrate(p)
  \/ OnTradeLedger /\ \E p \in TradeLedger!Process : TradeLedger!Crash(p)

-----------------------------------------------------------------------------
DayPnl ==
  INSTANCE DayPnl WITH
    evening <- v1, first <- v2, price <- v3, cost <- v4, overnight <- v5,
    fill <- v6, change <- v7, moved <- v8, dated <- v9, cache <- v10,
    summary <- v11, book <- v12, adopting <- v13, recorded <- v14,
    unknown <- v15, alarm <- v16, wrong <- v17, outside <- v18, torn <- v19

OnDayPnl == focus = "pnl" /\ UNCHANGED focus
InitDayPnl == focus = "pnl" /\ DayPnl!Init
NextDayPnl ==
  \/ OnDayPnl /\ DayPnl!PriceMoves
  \/ OnDayPnl /\ DayPnl!FlowMoves
  \/ OnDayPnl /\ DayPnl!BuyFills
  \/ OnDayPnl /\ DayPnl!SellFills
  \/ OnDayPnl /\ DayPnl!MoneyMoves
  \/ OnDayPnl /\ DayPnl!Summary
  \/ OnDayPnl /\ DayPnl!Positions
  \/ OnDayPnl /\ DayPnl!Restart
  \/ OnDayPnl /\ DayPnl!Close
  \/ OnDayPnl /\ DayPnl!NextDay

-----------------------------------------------------------------------------
Learning ==
  INSTANCE Learning WITH
    Every <- LearnEvery, Window <- LearnWindow, weighted <- v1,
    count <- v2, records <- v3, calibration <- v4, buy <- v5, sell <- v6,
    files <- v7, step <- v8, trades <- v9,
    faults <- v10, seen <- v11, lost <- v12

OnLearning == focus = "learning" /\ UNCHANGED <<focus, rest13>>
InitLearning == focus = "learning" /\ Learning!Init /\ Free13
NextLearning ==
  \/ OnLearning /\ Learning!TradeClosed
  \/ OnLearning /\ Learning!SaveWords
  \/ OnLearning /\ Learning!SaveRecords
  \/ OnLearning /\ Learning!SaveCalibration
  \/ OnLearning /\ Learning!Restart

-----------------------------------------------------------------------------
ModelGate ==
  INSTANCE ModelGate WITH
    modelFile <- v1, barFile <- v2, halfway <- v3, day <- v4, swing <- v5,
    bars <- v6, flag <- v7, driver <- v8, decided <- v9, verdict <- v10

OnModelGate == focus = "model" /\ UNCHANGED <<focus, rest11>>
InitModelGate == focus = "model" /\ ModelGate!Init /\ Free11
NextModelGate ==
  \/ OnModelGate /\ ModelGate!SaveModel
  \/ OnModelGate /\ ModelGate!SaveBars
  \/ OnModelGate /\ ModelGate!TrainingFails
  \/ OnModelGate /\ ModelGate!Decide
  \/ OnModelGate /\ ModelGate!Validate
  \/ OnModelGate /\ ModelGate!Reload
  \/ OnModelGate /\ ModelGate!Restart

-----------------------------------------------------------------------------
Init ==
  \/ InitGrowthCycle
  \/ InitUkFunding
  \/ InitTaxLots
  \/ InitUkPlanner
  \/ InitInPlanner
  \/ InitTraining
  \/ InitNominations
  \/ InitBlocklist
  \/ InitRegime
  \/ InitFeatureLog
  \/ InitFlowTrader
  \/ InitScanInputs
  \/ InitTradeDay
  \/ InitSizing
  \/ InitAgentHealth
  \/ InitKiteStream
  \/ InitTradeLedger
  \/ InitDayPnl
  \/ InitLearning
  \/ InitModelGate

Next ==
  \/ NextGrowthCycle \/ NextUkFunding \/ NextTaxLots \/ NextUkPlanner
  \/ NextInPlanner \/ NextTraining \/ NextNominations
  \/ NextBlocklist \/ NextRegime \/ NextFeatureLog \/ NextFlowTrader
  \/ NextScanInputs \/ NextTradeDay \/ NextSizing \/ NextAgentHealth
  \/ NextKiteStream \/ NextTradeLedger \/ NextDayPnl \/ NextLearning
  \/ NextModelGate

vars == <<focus, v1, v2, v3, v4, v5, v6, v7, v8, v9, v10,
          v11, v12, v13, v14, v15, v16, v17, v18, v19>>

Spec == Init /\ [][Next]_vars

TypeOK ==
  /\ focus = "growth_in" => GrowthCycle!TypeOK
  /\ focus = "funding_uk" => UkFunding!TypeOK
  /\ focus = "tax" => TaxLots!TypeOK
  /\ focus = "planner_uk" => UkPlanner!TypeOK
  /\ focus = "planner_in" => InPlanner!TypeOK
  /\ focus = "training" => Training!TypeOK
  /\ focus = "nominations" => Nominations!TypeOK
  /\ focus = "blocklist" => Blocklist!TypeOK
  /\ focus = "regime" => Regime!TypeOK
  /\ focus = "features" => FeatureLog!TypeOK
  /\ focus = "flow" => FlowTrader!TypeOK
  /\ focus = "inputs" => ScanInputs!TypeOK
  /\ focus = "session" => TradeDay!TypeOK
  /\ focus = "sizing" => Sizing!TypeOK
  /\ focus = "health" => AgentHealth!TypeOK
  /\ focus = "stream" => KiteStream!TypeOK
  /\ focus = "ledger" => TradeLedger!TypeOK
  /\ focus = "pnl" => DayPnl!TypeOK
  /\ focus = "learning" => Learning!TypeOK
  /\ focus = "model" => ModelGate!TypeOK

\* A share harvested for tax is bought back or still listed, never twice.
HarvestComesBack == focus = "growth_in" => GrowthCycle!HarvestComesBack

\* Once the figures of a cycle are in, the UK ledger explains the balance.
BooksExplainTheBalance == [][focus = "funding_uk" => UkFunding!BooksExplain]_vars

\* The replay of lots sells the k-th share bought as the k-th share sold.
FifoIsShareByShare == focus = "tax" => TaxLots!FifoIsShareByShare

\* A harvest leaves no tax to pay, in either country.
HarvestIsTaxFree == focus = "tax" => TaxLots!HarvestIsTaxFree

\* No two funds of one theme are held, cycle after cycle.
OneFundPerGroup == focus = "planner_uk" => UkPlanner!OneFundPerGroup

\* No sector has more shares than the cap, those held at a loss included.
SectorCap == focus = "planner_in" => InPlanner!SectorCap

\* The end-of-day retrain runs once a day, whatever is published twice.
EodRetrainedOnce == focus = "training" => Training!EodRetrainedOnce

\* The list vetting has approved comes from the scanner's latest one.
VettedIsTheLastNominated == focus = "nominations" => Nominations!VettedIsTheLastNominated

\* A symbol blocked for the session stays blocked until its end.
SessionBlockHolds == [][focus = "blocklist" => Blocklist!BlockHolds]_vars

\* A directive follows the reads of the market only when enough agree.
RegimeNeedsAgreement == focus = "regime" => Regime!RegimeNeedsAgreement

\* Rows of the feature log are lost only when both writers are at work.
RowsLostOnlyInARace == focus = "features" => FeatureLog!RowsLostOnlyInARace

\* The flow agent enters once a month, through its restarts.
FlowEntersOnce == focus = "flow" => FlowTrader!FlowEntersOnce

\* No blocked name is bought late in an outage of the bus.
NoBlindBuyLateInAnOutage == focus = "inputs" => ScanInputs!NoBlindBuyLateInAnOutage

\* What is still held after the bell has an explanation.
NothingStaysOvernightByOversight == focus = "session" => TradeDay!NothingStaysOvernightByOversight

\* Risk beyond the heat cap is that of purchases the sizing did not see.
OvershootBounded == focus = "sizing" => Sizing!OvershootBounded

\* A cached price of a connected stream is one that is streamed.
CachedPriceIsStreamed == focus = "stream" => KiteStream!CachedPriceIsStreamed

\* Every known gross figure has its net figure, at the row's price.
NetFollowsTheRow == focus = "ledger" => TradeLedger!NetFollowsTheRow

\* A reconciliation warning means a sale was recorded wrong or not at all.
AlarmMeansMisrecording == focus = "pnl" => DayPnl!AlarmMeansMisrecording

\* A learnt weight or threshold rests on enough trades, crashes included.
LearntFromEnoughTrades == focus = "learning" => Learning!LearntFromEnoughTrades

\* A purchase cleared the bar, and the bar was made with its model.
BuyClearsTheBarOfItsModel == focus = "model" => ModelGate!BuyClearsTheBarOfItsModel
==============================================================================
