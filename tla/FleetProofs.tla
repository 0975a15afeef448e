----------------------------- MODULE FleetProofs -----------------------------
(***************************************************************************)
(* Theorems about the parts of MCFleet, for every value of its constants   *)
(* and not only those of Fleet.cfg: the agents, the trader's day, and the  *)
(* books they keep of prices, trades and profits.  A behaviour is about    *)
(* one part, and the invariant of a part says nothing of the others: each  *)
(* theorem is the part's own argument, in the slots that hold the part's   *)
(* variables.                                                              *)
(***************************************************************************)
EXTENDS MCFleet, FiniteSetTheorems, WellFoundedInduction, TLAPS

(* Which part a behaviour starts in, and which takes a step; no step       *)
(* changes the part.                                                       *)
LEMMA WhoStarts ==
  /\ InitGrowthCycle => focus = "growth_in"
  /\ InitUkFunding => focus = "funding_uk"
  /\ InitTaxLots => focus = "tax"
  /\ InitUkPlanner => focus = "planner_uk"
  /\ InitInPlanner => focus = "planner_in"
  /\ InitTraining => focus = "training"
  /\ InitNominations => focus = "nominations"
  /\ InitBlocklist => focus = "blocklist"
  /\ InitRegime => focus = "regime"
  /\ InitFeatureLog => focus = "features"
  /\ InitFlowTrader => focus = "flow"
  /\ InitScanInputs => focus = "inputs"
  /\ InitTradeDay => focus = "session"
  /\ InitSizing => focus = "sizing"
  /\ InitAgentHealth => focus = "health"
  /\ InitKiteStream => focus = "stream"
  /\ InitTradeLedger => focus = "ledger"
  /\ InitDayPnl => focus = "pnl"
  /\ InitLearning => focus = "learning"
  /\ InitModelGate => focus = "model"
  BY DEF InitGrowthCycle, InitUkFunding, InitTaxLots, InitUkPlanner,
     InitInPlanner, InitTraining, InitNominations,
     InitBlocklist, InitRegime, InitFeatureLog, InitFlowTrader,
     InitScanInputs, InitTradeDay, InitSizing, InitAgentHealth,
     InitKiteStream, InitTradeLedger, InitDayPnl, InitLearning, InitModelGate

LEMMA WhoSteps ==
  /\ NextGrowthCycle => focus = "growth_in" /\ UNCHANGED focus
  /\ NextUkFunding => focus = "funding_uk" /\ UNCHANGED focus
  /\ NextTaxLots => focus = "tax" /\ UNCHANGED focus
  /\ NextUkPlanner => focus = "planner_uk" /\ UNCHANGED focus
  /\ NextInPlanner => focus = "planner_in" /\ UNCHANGED focus
  /\ NextTraining => focus = "training" /\ UNCHANGED focus
  /\ NextNominations => focus = "nominations" /\ UNCHANGED focus
  /\ NextBlocklist => focus = "blocklist" /\ UNCHANGED focus
  /\ NextRegime => focus = "regime" /\ UNCHANGED focus
  /\ NextFeatureLog => focus = "features" /\ UNCHANGED focus
  /\ NextFlowTrader => focus = "flow" /\ UNCHANGED focus
  /\ NextScanInputs => focus = "inputs" /\ UNCHANGED focus
  /\ NextTradeDay => focus = "session" /\ UNCHANGED focus
  /\ NextSizing => focus = "sizing" /\ UNCHANGED focus
  /\ NextAgentHealth => focus = "health" /\ UNCHANGED focus
  /\ NextKiteStream => focus = "stream" /\ UNCHANGED focus
  /\ NextTradeLedger => focus = "ledger" /\ UNCHANGED focus
  /\ NextDayPnl => focus = "pnl" /\ UNCHANGED focus
  /\ NextLearning => focus = "learning" /\ UNCHANGED focus
  /\ NextModelGate => focus = "model" /\ UNCHANGED focus
<1>1. NextGrowthCycle => focus = "growth_in" /\ UNCHANGED focus
  BY DEF NextGrowthCycle, OnGrowthCycle
<1>2. NextUkFunding => focus = "funding_uk" /\ UNCHANGED focus
  BY DEF NextUkFunding, OnUkFunding
<1>3. NextTaxLots => focus = "tax" /\ UNCHANGED focus
  BY DEF NextTaxLots, OnTaxLots
<1>4. NextUkPlanner => focus = "planner_uk" /\ UNCHANGED focus
  BY DEF NextUkPlanner, OnUkPlanner
<1>5. NextInPlanner => focus = "planner_in" /\ UNCHANGED focus
  BY DEF NextInPlanner, OnInPlanner
<1>6. NextTraining => focus = "training" /\ UNCHANGED focus
  BY DEF NextTraining, OnTraining
<1>7. NextNominations => focus = "nominations" /\ UNCHANGED focus
  BY DEF NextNominations, OnNominations
<1>8. NextBlocklist => focus = "blocklist" /\ UNCHANGED focus
  BY DEF NextBlocklist, OnBlocklist
<1>9. NextRegime => focus = "regime" /\ UNCHANGED focus
  BY DEF NextRegime, OnRegime
<1>10. NextFeatureLog => focus = "features" /\ UNCHANGED focus
  BY DEF NextFeatureLog, OnFeatureLog
<1>11. NextFlowTrader => focus = "flow" /\ UNCHANGED focus
  BY DEF NextFlowTrader, OnFlowTrader
<1>12. NextScanInputs => focus = "inputs" /\ UNCHANGED focus
  BY DEF NextScanInputs, OnScanInputs
<1>13. NextTradeDay => focus = "session" /\ UNCHANGED focus
  BY DEF NextTradeDay, OnTradeDay
<1>14. NextSizing => focus = "sizing" /\ UNCHANGED focus
  BY DEF NextSizing, OnSizing
<1>15. NextAgentHealth => focus = "health" /\ UNCHANGED focus
  BY DEF NextAgentHealth, OnAgentHealth
<1>16. NextKiteStream => focus = "stream" /\ UNCHANGED focus
  BY DEF NextKiteStream, OnKiteStream
<1>17. NextTradeLedger => focus = "ledger" /\ UNCHANGED focus
  BY DEF NextTradeLedger, OnTradeLedger
<1>18. NextDayPnl => focus = "pnl" /\ UNCHANGED focus
  BY DEF NextDayPnl, OnDayPnl
<1>19. NextLearning => focus = "learning" /\ UNCHANGED focus
  BY DEF NextLearning, OnLearning
<1>20. NextModelGate => focus = "model" /\ UNCHANGED focus
  BY DEF NextModelGate, OnModelGate
<1> QED BY <1>1, <1>2, <1>3, <1>4, <1>5, <1>6, <1>7, <1>8, <1>9, <1>10, <1>11,
          <1>12, <1>13, <1>14, <1>15, <1>16, <1>17, <1>18, <1>19, <1>20

LEMMA FocusStays == ASSUME [Next]_vars PROVE UNCHANGED focus
  BY WhoSteps DEF Next, vars

-----------------------------------------------------------------------------
(* Training: the end-of-day retrain, for every calendar, every table of    *)
(* jobs and any number of threads and failing bus calls.  v1 is the day,   *)
(* v9 the holder of the lock, v12 the marker, v14 the retrains of today    *)
(* and v15 whether one of them could not leave its marker.                 *)

LEMMA TrainingInit == Training!Init => Training!Accounted
  BY DEF Training!Init, Training!Accounted

(* What leaves the end of the day alone: the orchestrator, the messages    *)
(* and the daily training.                                                 *)
LEMMA ElsewhereAccounted ==
  ASSUME Training!Accounted, UNCHANGED <<v1, v12, v14, v15>>,
         v9 = "eod_done" => v9' = "eod_done"
  PROVE  Training!Accounted'
  BY DEF Training!Accounted

LEMMA BusAccounted ==
  ASSUME Training!Accounted,
         \/ Training!OrchestratorTick
         \/ Training!OrchestratorRestarts
         \/ Training!MailLost,
         UNCHANGED <<v8, v9, v10, v11, v12, v13, v14, v15>>
  PROVE  Training!Accounted'
<1>1. v1' = v1
  BY DEF Training!OrchestratorTick, Training!OrchestratorRestarts, Training!MailLost,
         Training!clock
<1> QED BY <1>1, ElsewhereAccounted

LEMMA DailyAccounted ==
  ASSUME Training!Accounted,
         \/ Training!TrainerHears \/ Training!TrainerTick \/ Training!TrainDaily
         \/ \E k \in Training!Kind : Training!TryLock(k)
  PROVE  Training!Accounted'
<1>1. CASE Training!TrainerHears
  BY <1>1, ElsewhereAccounted DEF Training!TrainerHears, Training!Hears, Training!clock
<1>2. CASE Training!TrainerTick
  BY <1>2, ElsewhereAccounted DEF Training!TrainerTick, Training!sVars
<1>3. ASSUME NEW k \in Training!Kind, Training!TryLock(k) PROVE Training!Accounted'
  BY <1>3, ElsewhereAccounted DEF Training!TryLock, Training!sVars
<1>4. CASE Training!TrainDaily
  BY <1>4, ElsewhereAccounted DEF Training!TrainDaily, Training!clock
<1> QED BY <1>1, <1>2, <1>3, <1>4

(* The marker is read under the lock: a retrain starts only if today's is  *)
(* not marked, and then there was none or its mark was lost.               *)
LEMMA EodAccounted ==
  ASSUME Training!Accounted,
         Training!EodSkips \/ Training!EodRetrains \/ Training!EodMarks
  PROVE  Training!Accounted'
<1>1. CASE Training!EodSkips
  BY <1>1, ElsewhereAccounted DEF Training!EodSkips, Training!sVars
<1>2. CASE Training!EodRetrains
  <2>1. UNCHANGED <<v1, v12, v15>> /\ v9 = "eod" /\ v12 # v1
    BY <1>2 DEF Training!EodRetrains, Training!EodRanToday, Training!sVars
  <2>2. v15 \/ v14 = 0
    BY <2>1 DEF Training!Accounted
  <2>3. \/ v14' = v14
        \/ v9' = "eod_done" /\ v14' = v14 + 1
    BY <1>2 DEF Training!EodRetrains
  <2> QED BY <2>1, <2>2, <2>3 DEF Training!Accounted
<1>3. CASE Training!EodMarks
  BY <1>3 DEF Training!EodMarks, Training!Accounted, Training!clock
<1> QED BY <1>1, <1>2, <1>3

LEMMA RestartAccounted ==
  ASSUME Training!Accounted, Training!TrainerRestarts
  PROVE  Training!Accounted'
<1>1. UNCHANGED <<v1, v12, v14>> /\ v15' = (v15 \/ v9 = "eod_done")
  BY DEF Training!TrainerRestarts, Training!sVars
<1>2. v15 \/ v9 = "eod_done" => v15'
  BY <1>1, Zenon
<1>3. CASE v15 \/ v9 = "eod_done"
  BY <1>1, <1>2, <1>3 DEF Training!Accounted
<1>4. CASE ~(v15 \/ v9 = "eod_done")
  BY <1>1, <1>4 DEF Training!Accounted
<1> QED BY <1>3, <1>4

LEMMA MidnightAccounted ==
  ASSUME Training!Accounted, Training!TimePasses
  PROVE  Training!Accounted'
<1>1. CASE v1' # v1
  BY <1>1 DEF Training!TimePasses, Training!Midnight, Training!Accounted
<1>2. CASE v1' = v1
  BY <1>2 DEF Training!TimePasses, Training!Midnight, Training!Accounted
<1> QED BY <1>1, <1>2

LEMMA TrainingStep ==
  ASSUME Training!Accounted, NextTraining
  PROVE  Training!Accounted'
  BY BusAccounted, DailyAccounted, EodAccounted, RestartAccounted, MidnightAccounted
     DEF NextTraining

(* However often the end-of-day command comes and whichever threads meet,  *)
(* trainer.py retrains once, unless the mark of a retrain was lost.        *)
THEOREM RetrainedOnce == Spec => []EodRetrainedOnce
<1> DEFINE Inv == focus = "training" => Training!Accounted
<1>1. Init => Inv
  BY WhoStarts, TrainingInit DEF Init, InitTraining
<1>2. Inv /\ [Next]_vars => Inv'
  <2> SUFFICES ASSUME Inv, [Next]_vars, focus' = "training" PROVE Training!Accounted'
    OBVIOUS
  <2>1. Training!Accounted
    BY FocusStays
  <2>2. CASE Next
    BY <2>1, <2>2, WhoSteps, TrainingStep DEF Next
  <2>3. CASE UNCHANGED vars
    BY <2>1, <2>3, ElsewhereAccounted DEF vars
  <2> QED BY <2>2, <2>3
<1>3. Inv => EodRetrainedOnce
  BY DEF Training!Accounted, EodRetrainedOnce, Training!EodRetrainedOnce
<1> QED BY <1>1, <1>2, <1>3, PTL DEF Spec

-----------------------------------------------------------------------------
(* Regime: the hysteresis of the strategy agent, for every number of reads *)
(* that must agree, all thresholds and any number of threads, faults and   *)
(* restarts.  v4, v5 and v6 are current, candidate and count, v10 the      *)
(* latest reads, v11 what they agreed on, v7 and v12 what was published    *)
(* and what was agreed then.                                               *)

(* The window of the latest reads.                                         *)

LEMMA LatestShifts ==
  ASSUME ReadsRequired \in Nat \ {0}, v10 \in Seq(Regime!RegimeName),
         Len(v10) <= ReadsRequired, NEW o \in Regime!RegimeName
  PROVE  /\ Regime!Latest(o) \in Seq(Regime!RegimeName)
         /\ Len(Regime!Latest(o)) = IF Len(v10) = ReadsRequired THEN ReadsRequired
                                                          ELSE Len(v10) + 1
         /\ Regime!Before(Regime!Latest(o), 0) = o
         /\ \A k \in 1..(Len(Regime!Latest(o)) - 1) : Regime!Before(Regime!Latest(o), k) = Regime!Before(v10, k - 1)
<1> DEFINE all == Append(v10, o)
<1>1. /\ all \in Seq(Regime!RegimeName) /\ Len(all) = Len(v10) + 1
      /\ all[Len(all)] = o /\ \A i \in 1..Len(v10) : all[i] = v10[i]
  OBVIOUS
<1>2. CASE Len(all) > ReadsRequired
  <2>1. Regime!Latest(o) = Tail(all)
    BY <1>2 DEF Regime!Latest
  <2>2. /\ Tail(all) \in Seq(Regime!RegimeName) /\ Len(Tail(all)) = Len(all) - 1
        /\ \A i \in 1..(Len(all) - 1) : Tail(all)[i] = all[i + 1]
    BY <1>1
  <2> HIDE DEF all
  <2>3. Len(v10) = ReadsRequired
    BY <1>1, <1>2
  <2> QED BY <1>1, <2>1, <2>2, <2>3 DEF Regime!Before
<1>3. CASE ~(Len(all) > ReadsRequired)
  <2>1. Regime!Latest(o) = all
    BY <1>3 DEF Regime!Latest
  <2> HIDE DEF all
  <2> QED BY <1>1, <1>3, <2>1 DEF Regime!Before
<1> QED BY <1>2, <1>3

LEMMA UnanimousFromTheEnd ==
  ASSUME ReadsRequired \in Nat \ {0}, NEW s \in Seq(Regime!RegimeName)
  PROVE  Regime!Unanimous(s) <=> /\ Len(s) = ReadsRequired
                          /\ \A k \in 0..(ReadsRequired - 1) : Regime!Before(s, k) = Regime!Before(s, 0)
<1>1. ASSUME Regime!Unanimous(s), NEW k \in 0..(ReadsRequired - 1)
      PROVE  Regime!Before(s, k) = Regime!Before(s, 0)
  BY <1>1 DEF Regime!Unanimous, Regime!Before
<1>2. ASSUME Len(s) = ReadsRequired,
             \A k \in 0..(ReadsRequired - 1) : Regime!Before(s, k) = Regime!Before(s, 0),
             NEW i \in DOMAIN s
      PROVE  s[i] = s[1]
  <2>1. Regime!Before(s, Len(s) - i) = Regime!Before(s, 0)
    BY <1>2
  <2>2. Regime!Before(s, Len(s) - 1) = Regime!Before(s, 0)
    BY <1>2
  <2> QED BY <2>1, <2>2 DEF Regime!Before
<1> QED BY <1>1, <1>2 DEF Regime!Unanimous

LEMMA RegimeInit ==
  ASSUME ReadsRequired \in Nat \ {0}, Regime!Init
  PROVE  Regime!HysteresisHolds
  BY DEF Regime!Init, Regime!HysteresisHolds, Regime!Hysteresis, Regime!Settled, Regime!RegimeNeedsAgreement, Regime!RegimeName

LEMMA ClassifiedType ==
  ASSUME NEW i PROVE Regime!Classified(i) \in Regime!RegimeName
  BY DEF Regime!Classified, Regime!RegimeName

(* One read, after which the regime changes exactly if the window agrees.  *)
LEMMA ReadHolds ==
  ASSUME ReadsRequired \in Nat \ {0}, Regime!Hysteresis, NEW o \in Regime!RegimeName,
         v4' = Regime!Update(o)[1], v5' = Regime!Update(o)[2], v6' = Regime!Update(o)[3],
         v10' = Regime!Latest(o), v11' = IF Regime!Unanimous(Regime!Latest(o)) THEN o ELSE v11
  PROVE  Regime!Hysteresis'
<1> DEFINE n == IF o = v5 THEN v6 + 1 ELSE 1
           L == Len(v10')
<1>1. /\ v10' \in Seq(Regime!RegimeName) /\ L \in Nat /\ L <= ReadsRequired
      /\ L = IF Len(v10) = ReadsRequired THEN ReadsRequired ELSE Len(v10) + 1
      /\ Regime!Before(v10', 0) = o
      /\ \A k \in 1..(L - 1) : Regime!Before(v10', k) = Regime!Before(v10, k - 1)
  BY LatestShifts DEF Regime!Hysteresis
<1>2. Regime!Unanimous(v10') <=> /\ L = ReadsRequired
                            /\ \A k \in 0..(ReadsRequired - 1) : Regime!Before(v10', k) = o
  BY <1>1, UnanimousFromTheEnd
<1>3. /\ Len(v10) \in Nat /\ Len(v10) <= ReadsRequired /\ v11 = v4
      /\ v4 \in Regime!RegimeName /\ (Regime!Pending \/ Regime!Settled)
  BY DEF Regime!Hysteresis
<1>4. v11' = IF Regime!Unanimous(v10') THEN o ELSE v4
  BY <1>3
<1>5. CASE o = v4
  <2>1. v4' = o /\ v5' = Regime!NoCandidate /\ v6' = 0
    BY <1>5 DEF Regime!Update
  <2>2. v11' = o
    BY <1>4, <1>5
  <2> QED BY <1>1, <2>1, <2>2 DEF Regime!Hysteresis, Regime!Settled
<1>6. ASSUME o # v4
      PROVE  /\ n \in Nat /\ 1 <= n /\ n <= ReadsRequired /\ n <= L
             /\ \A k \in 0..(n - 1) : Regime!Before(v10', k) = o
             /\ L > n => Regime!Before(v10', n) # o
  <2>1. CASE o = v5
    <3>1. Regime!Pending
      BY <1>3, <2>1 DEF Regime!Settled, Regime!NoCandidate, Regime!RegimeName
    <3> QED BY <1>1, <1>3, <2>1, <3>1 DEF Regime!Pending
  <2>2. CASE o # v5
    <3>1. ASSUME L > 1 PROVE Regime!Before(v10', 1) # o
      <4>1. Len(v10) > 0 /\ Regime!Before(v10', 1) = Regime!Before(v10, 0)
        BY <1>1, <1>3, <3>1
      <4>2. CASE Regime!Pending
        BY <2>2, <4>1, <4>2 DEF Regime!Pending
      <4>3. CASE Regime!Settled
        BY <1>6, <4>1, <4>3 DEF Regime!Settled
      <4> QED BY <1>3, <4>2, <4>3
    <3> QED BY <1>1, <1>3, <2>2, <3>1
  <2> QED BY <2>1, <2>2
<1>7. CASE o # v4 /\ n >= ReadsRequired
  <2>1. v4' = o /\ v5' = Regime!NoCandidate /\ v6' = 0
    BY <1>7 DEF Regime!Update
  <2>2. n = ReadsRequired /\ L = ReadsRequired
    BY <1>1, <1>6, <1>7
  <2>3. Regime!Unanimous(v10')
    BY <1>2, <1>6, <1>7, <2>2
  <2> QED BY <1>1, <1>4, <2>1, <2>3 DEF Regime!Hysteresis, Regime!Settled
<1>8. CASE o # v4 /\ ~(n >= ReadsRequired)
  <2>1. v4' = v4 /\ v5' = o /\ v6' = n
    BY <1>8 DEF Regime!Update
  <2>2. n < ReadsRequired
    BY <1>6, <1>8
  <2>3. ~Regime!Unanimous(v10')
    <3> SUFFICES ASSUME Regime!Unanimous(v10') PROVE FALSE
      OBVIOUS
    <3>1. L = ReadsRequired /\ \A k \in 0..(ReadsRequired - 1) : Regime!Before(v10', k) = o
      BY <1>2
    <3>2. n \in 0..(ReadsRequired - 1) /\ L > n
      BY <1>6, <1>8, <2>2, <3>1
    <3> QED BY <1>6, <1>8, <3>1, <3>2
  <2>4. Regime!Pending'
    BY <1>6, <1>8, <2>1, <2>2 DEF Regime!Pending
  <2> QED BY <1>1, <1>3, <1>4, <2>1, <2>3, <2>4 DEF Regime!Hysteresis
<1> QED BY <1>5, <1>7, <1>8

LEMMA ClassifyHolds ==
  ASSUME ReadsRequired \in Nat \ {0}, Regime!HysteresisHolds, Regime!Classify
  PROVE  Regime!HysteresisHolds'
<1>1. PICK o \in Regime!RegimeName :
        /\ v4' = Regime!Update(o)[1] /\ v5' = Regime!Update(o)[2] /\ v6' = Regime!Update(o)[3]
        /\ v10' = Regime!Latest(o) /\ v11' = IF Regime!Unanimous(Regime!Latest(o)) THEN o ELSE v11
        /\ UNCHANGED <<v7, v12>>
  BY ClassifiedType DEF Regime!Classify
<1> QED BY <1>1, ReadHolds DEF Regime!HysteresisHolds, Regime!RegimeNeedsAgreement

LEMMA HysteresisAlone ==
  ASSUME Regime!Hysteresis, UNCHANGED <<v4, v5, v6, v10, v11>>
  PROVE  Regime!Hysteresis'
  BY DEF Regime!Hysteresis, Regime!Pending, Regime!Settled

LEMMA PublishHolds ==
  ASSUME Regime!HysteresisHolds, Regime!Publish
  PROVE  Regime!HysteresisHolds'
<1>1. Regime!Hysteresis'
  BY HysteresisAlone DEF Regime!Publish, Regime!HysteresisHolds
<1>2. v7' = v12'
  BY DEF Regime!Publish, Regime!HysteresisHolds, Regime!Hysteresis, Regime!RegimeNeedsAgreement
<1> QED BY <1>1, <1>2 DEF Regime!HysteresisHolds, Regime!RegimeNeedsAgreement

LEMMA RegimeRestartHolds ==
  ASSUME ReadsRequired \in Nat \ {0}, Regime!HysteresisHolds, Regime!Restart
  PROVE  Regime!HysteresisHolds'
  BY DEF Regime!Restart, Regime!HysteresisHolds, Regime!Hysteresis, Regime!Settled, Regime!RegimeNeedsAgreement, Regime!RegimeName

LEMMA UnreadHolds ==
  ASSUME Regime!HysteresisHolds,
         \/ Regime!Setup \/ Regime!Start \/ Regime!Acquire \/ Regime!NoData
         \/ UNCHANGED vars
  PROVE  Regime!HysteresisHolds'
<1>1. UNCHANGED <<v4, v5, v6, v10, v11, v7, v12>>
  BY DEF Regime!Setup, Regime!Start, Regime!Acquire, Regime!NoData, vars
<1> QED BY <1>1, HysteresisAlone DEF Regime!HysteresisHolds, Regime!RegimeNeedsAgreement

LEMMA RegimeStep ==
  ASSUME ReadsRequired \in Nat \ {0}, Regime!HysteresisHolds, NextRegime
  PROVE  Regime!HysteresisHolds'
  BY ClassifyHolds, PublishHolds, RegimeRestartHolds, UnreadHolds DEF NextRegime

LEMMA DirectivesCounted == Spec => [](focus = "regime" => Regime!HysteresisHolds)
<1> DEFINE Inv == focus = "regime" => Regime!HysteresisHolds
<1>1. Init => Inv
  BY RegimeAssumption, WhoStarts, RegimeInit DEF Init, InitRegime
<1>2. Inv /\ [Next]_vars => Inv'
  <2> SUFFICES ASSUME Inv, [Next]_vars, focus' = "regime" PROVE Regime!HysteresisHolds'
    OBVIOUS
  <2>1. Regime!HysteresisHolds
    BY FocusStays
  <2>2. CASE Next
    BY <2>1, <2>2, RegimeAssumption, WhoSteps, RegimeStep DEF Next
  <2>3. CASE UNCHANGED vars
    BY <2>1, <2>3, UnreadHolds
  <2> QED BY <2>2, <2>3
<1> QED BY <1>1, <1>2, PTL DEF Spec

(* The directive on the bus is that of the regime the required number of   *)
(* reads in a row agreed on, whatever threads meet at the lock of          *)
(* strategy.py.                                                            *)
THEOREM DirectiveIsAgreed == Spec => []RegimeNeedsAgreement
<1> DEFINE Inv == focus = "regime" => Regime!HysteresisHolds
<1>1. Inv => RegimeNeedsAgreement
  BY DEF Regime!HysteresisHolds, RegimeNeedsAgreement
<1> QED BY <1>1, DirectivesCounted, PTL

-----------------------------------------------------------------------------
(* ModelGate: what a purchase owes to the model, for all levels of         *)
(* confidence, every bar and any number of trainings.  v1 and v2 are the   *)
(* files of the model and of its bars, v4 and v6 what the process holds    *)
(* of them, v9 the decision and v10 the verdict.                           *)

LEMMA ModelInit == ModelGate!Init => ModelGate!BarsHold
<1> SUFFICES ASSUME ModelGate!Init PROVE ModelGate!BarsHold
  OBVIOUS
<1>1. ModelGate!NoBars.of = 0 /\ v10.action # "BUY"
  BY DEF ModelGate!Init, ModelGate!NoBars, ModelGate!NoVerdict
<1> QED BY <1>1 DEF ModelGate!Init, ModelGate!BarsHold, ModelGate!FilesLead, ModelGate!BuyClearsTheBarOfItsModel

LEMMA BarsReadLead ==
  ASSUME ModelGate!FilesLead, NEW ok \in BOOLEAN
  PROVE  /\ ModelGate!BarsRead(ok).of \in Nat /\ ModelGate!BarsRead(ok).of <= v2.of
  BY DEF ModelGate!BarsRead, ModelGate!FilesLead

LEMMA UpToDate ==
  ASSUME ModelGate!FilesLead, NEW ok \in BOOLEAN, ok, v2.of = v1
  PROVE  ModelGate!BarsRead(ok).of = v1
<1>1. ModelGate!BarsRead(ok) = IF v2.of > v6.of THEN v2 ELSE v6
  BY Zenon DEF ModelGate!BarsRead
<1>2. CASE v2.of > v6.of
  BY <1>1, <1>2, Zenon
<1>3. CASE ~(v2.of > v6.of)
  <2>1. v6.of = v2.of
    BY <1>3 DEF ModelGate!FilesLead
  <2> QED BY <1>1, <1>3, <2>1, Zenon
<1> QED BY <1>2, <1>3

LEMMA TrainerHolds ==
  ASSUME ModelGate!BarsHold, ModelGate!SaveModel \/ ModelGate!SaveBars \/ ModelGate!TrainingFails
  PROVE  ModelGate!BarsHold'
<1>1. UNCHANGED <<v6, v10>>
  BY DEF ModelGate!SaveModel, ModelGate!SaveBars, ModelGate!TrainingFails, ModelGate!loaded
<1>2. ModelGate!FilesLead'
  <2>1. CASE ModelGate!SaveModel
    BY <2>1, <1>1 DEF ModelGate!SaveModel, ModelGate!BarsHold, ModelGate!FilesLead
  <2>2. CASE ModelGate!SaveBars
    <3>1. v2'.of = v1 /\ UNCHANGED v1
      BY <2>2 DEF ModelGate!SaveBars
    <3> QED BY <3>1, <1>1 DEF ModelGate!BarsHold, ModelGate!FilesLead
  <2>3. CASE ModelGate!TrainingFails
    BY <2>3, <1>1 DEF ModelGate!TrainingFails, ModelGate!BarsHold, ModelGate!FilesLead
  <2> QED BY <2>1, <2>2, <2>3
<1> QED BY <1>1, <1>2 DEF ModelGate!BarsHold, ModelGate!BuyClearsTheBarOfItsModel

LEMMA DecideHolds ==
  ASSUME ModelGate!BarsHold, ModelGate!Decide
  PROVE  ModelGate!BarsHold'
<1>1. PICK ok \in BOOLEAN, c \in ModelGate!Confidence(v4 # 0) :
         v6' = IF ModelGate!Driven(c) THEN ModelGate!BarsRead(ok) ELSE v6
  BY DEF ModelGate!Decide
<1>2. ModelGate!FilesLead'
  BY <1>1, BarsReadLead DEF ModelGate!Decide, ModelGate!trainer, ModelGate!BarsHold, ModelGate!FilesLead
<1>3. v10'.action = "none"
  BY DEF ModelGate!Decide, ModelGate!NoVerdict
<1> QED BY <1>2, <1>3 DEF ModelGate!BarsHold, ModelGate!BuyClearsTheBarOfItsModel

(* validate_decision asks for the confidence and the bar it lets a BUY     *)
(* stand by, and the bar is of the model in memory if its file is.         *)
LEMMA ValidateHolds ==
  ASSUME ModelGate!BarsHold, ModelGate!Validate
  PROVE  ModelGate!BarsHold'
<1> DEFINE has == IF v9 = "BUY" THEN v4 # 0 ELSE v5
           stands(c) == v9 = "HOLD" \/ ~has \/ ModelGate!Approved(v9, c, ModelGate!BarOf(v6'))
<1>1. PICK ok \in BOOLEAN, c \in ModelGate!Confidence(has) :
        /\ v6' = ModelGate!BarsRead(ok)
        /\ v10' = [action |-> IF stands(c) THEN v9 ELSE "HOLD",
                       model |-> v4, confidence |-> c, bar |-> ModelGate!BarOf(v6'),
                       paired |-> v6'.of = v4,
                       settled |-> ok /\ v4 = v1 /\ v2.of = v1]
  BY DEF ModelGate!Validate
<1>2. ModelGate!FilesLead'
  BY <1>1, BarsReadLead DEF ModelGate!Validate, ModelGate!trainer, ModelGate!BarsHold, ModelGate!FilesLead
<1>3. ASSUME v10'.action = "BUY", v10'.model # 0, v10'.settled
      PROVE  v10'.confidence >= v10'.bar /\ v10'.paired
  <2>1. v9 = "BUY" /\ v4 # 0
    BY <1>1, <1>3
  <2>2. ModelGate!Approved("BUY", c, ModelGate!BarOf(v6'))
    BY <1>1, <1>3, <2>1
  <2>3. ok /\ v4 = v1 /\ v2.of = v1
    BY <1>1, <1>3
  <2>4. v6'.of = v4
    BY <1>1, <2>3, UpToDate DEF ModelGate!BarsHold
  <2> QED BY <1>1, <2>2, <2>4 DEF ModelGate!Approved
<1> QED BY <1>2, <1>3 DEF ModelGate!BarsHold, ModelGate!BuyClearsTheBarOfItsModel

LEMMA ReloadHolds ==
  ASSUME ModelGate!BarsHold, ModelGate!Reload
  PROVE  ModelGate!BarsHold'
  BY DEF ModelGate!Reload, ModelGate!Load, ModelGate!trainer, ModelGate!BarsHold, ModelGate!FilesLead, ModelGate!BuyClearsTheBarOfItsModel

LEMMA ModelRestartHolds ==
  ASSUME ModelGate!BarsHold, ModelGate!Restart
  PROVE  ModelGate!BarsHold'
<1>1. v10'.action = "none" /\ v6'.of = 0
  BY DEF ModelGate!Restart, ModelGate!NoVerdict, ModelGate!NoBars
<1> QED BY <1>1 DEF ModelGate!Restart, ModelGate!Load, ModelGate!trainer, ModelGate!BarsHold, ModelGate!FilesLead, ModelGate!BuyClearsTheBarOfItsModel

LEMMA ModelStep ==
  ASSUME ModelGate!BarsHold, NextModelGate
  PROVE  ModelGate!BarsHold'
  BY TrainerHolds, DecideHolds, ValidateHolds, ReloadHolds, ModelRestartHolds
     DEF NextModelGate

(* Whichever path of make_decision wanted it, and whatever predictions and *)
(* reads of files failed, a purchase that validate_decision let stand      *)
(* clears the bar of its model.                                            *)
THEOREM BuysClearTheirBar == Spec => []BuyClearsTheBarOfItsModel
<1> DEFINE Inv == focus = "model" => ModelGate!BarsHold
<1>1. Init => Inv
  BY WhoStarts, ModelInit DEF Init, InitModelGate
<1>2. Inv /\ [Next]_vars => Inv'
  <2> SUFFICES ASSUME Inv, [Next]_vars, focus' = "model" PROVE ModelGate!BarsHold'
    OBVIOUS
  <2>1. ModelGate!BarsHold
    BY FocusStays
  <2>2. CASE Next
    BY <2>1, <2>2, WhoSteps, ModelStep DEF Next
  <2>3. CASE UNCHANGED vars
    BY <2>1, <2>3 DEF vars, ModelGate!BarsHold, ModelGate!FilesLead,
       ModelGate!BuyClearsTheBarOfItsModel
  <2> QED BY <2>2, <2>3
<1>3. Inv => BuyClearsTheBarOfItsModel
  BY DEF ModelGate!BarsHold, BuyClearsTheBarOfItsModel
<1> QED BY <1>1, <1>2, <1>3, PTL DEF Spec

-----------------------------------------------------------------------------
(* Blocklist: what a monitor read while no other was at work, for every    *)
(* calendar, all thresholds and any number of sales and monitors.  v4 is   *)
(* the entry, v5 the monitors at work, v6 whether two of them overlapped.  *)

LEMMA BlocklistInit == Blocklist!Init => Blocklist!ReadIsCurrent
  BY DEF Blocklist!Init, Blocklist!ReadIsCurrent

LEMMA JudgeReads ==
  ASSUME Blocklist!ReadIsCurrent, Blocklist!Judge
  PROVE  Blocklist!ReadIsCurrent'
<1> DEFINE it == [reason |-> Blocklist!Reason(Blocklist!Recent),
                  until |-> Blocklist!NextOpenTime, current |-> v4]
<1>1. v5' = v5 \cup {it} /\ v4' = v4 /\ v6' = (v6 \/ v5 # {})
  BY DEF Blocklist!Judge
<1>2. it.current = v4
  OBVIOUS
<1> HIDE DEF it
<1>3. ASSUME ~v6' PROVE v5' = {it}
  BY <1>1, <1>3, Zenon
<1> QED BY <1>1, <1>2, <1>3 DEF Blocklist!ReadIsCurrent

LEMMA WriteReads ==
  ASSUME Blocklist!ReadIsCurrent, Blocklist!Write
  PROVE  Blocklist!ReadIsCurrent'
<1>1. PICK m \in v5 : v5' = v5 \ {m} /\ v6' = (v6 /\ v5' # {})
  BY DEF Blocklist!Write
<1>2. ASSUME ~v6' PROVE v5' = {}
  <2>1. CASE v6
    BY <1>1, <1>2, <2>1, Zenon
  <2>2. CASE ~v6
    BY <1>1, <2>2 DEF Blocklist!ReadIsCurrent
  <2> QED BY <2>1, <2>2
<1> QED BY <1>2 DEF Blocklist!ReadIsCurrent

LEMMA BlocklistStep ==
  ASSUME Blocklist!ReadIsCurrent, NextBlocklist
  PROVE  Blocklist!ReadIsCurrent'
<1>1. CASE Blocklist!Sell \/ Blocklist!TimePasses
  BY <1>1 DEF Blocklist!Sell, Blocklist!TimePasses, Blocklist!ReadIsCurrent
<1> QED BY <1>1, JudgeReads, WriteReads DEF NextBlocklist

(* The only step that takes an entry away is the write of a monitor, and   *)
(* one that was alone had read the very entry it takes: it has expired.    *)
LEMMA EntryOutlivesWrites ==
  ASSUME Blocklist!ReadIsCurrent, NextBlocklist
  PROVE  Blocklist!BlockHolds
<1> SUFFICES ASSUME v4 # Blocklist!Nothing, v4.until = Blocklist!NoTime,
                    v4' = Blocklist!Nothing, ~v6
             PROVE  FALSE
  BY DEF Blocklist!BlockHolds
<1>1. Blocklist!Write
  BY DEF NextBlocklist, Blocklist!Sell, Blocklist!Judge, Blocklist!TimePasses
<1>2. PICK m \in v5 :
        LET added == m.reason # "none" /\ m.current.reason # m.reason
            written == IF m.reason = "none" THEN v4
                       ELSE [reason |-> m.reason, until |-> m.until]
        IN v4' = IF Blocklist!Expired(m.current) /\ ~added THEN Blocklist!Nothing ELSE written
  BY <1>1 DEF Blocklist!Write
<1>3. ~Blocklist!Expired(m.current)
  BY DEF Blocklist!ReadIsCurrent, Blocklist!Expired
<1>4. m.reason # "none" /\ [reason |-> m.reason, until |-> m.until] = Blocklist!Nothing
  BY <1>2, <1>3
<1>5. Blocklist!Nothing.reason = "none"
  BY DEF Blocklist!Nothing
<1>6. [reason |-> m.reason, until |-> m.until].reason = m.reason
  OBVIOUS
<1> QED BY <1>4, <1>5, <1>6

(* vetting.py takes an entry made in this session away only when two of    *)
(* its monitors were at work at once.                                      *)
THEOREM BlockedUntilTheClose == Spec => SessionBlockHolds
<1> DEFINE Inv == focus = "blocklist" => Blocklist!ReadIsCurrent
           Step == focus = "blocklist" => Blocklist!BlockHolds
<1>1. Init => Inv
  BY WhoStarts, BlocklistInit DEF Init, InitBlocklist
<1>2. Inv /\ [Next]_vars => Inv'
  <2> SUFFICES ASSUME Inv, [Next]_vars, focus' = "blocklist"
               PROVE  Blocklist!ReadIsCurrent'
    OBVIOUS
  <2>1. Blocklist!ReadIsCurrent
    BY FocusStays
  <2>2. CASE Next
    BY <2>1, <2>2, WhoSteps, BlocklistStep DEF Next
  <2>3. CASE UNCHANGED vars
    BY <2>1, <2>3 DEF vars, Blocklist!ReadIsCurrent
  <2> QED BY <2>2, <2>3
<1>3. Inv /\ [Next]_vars => [Step]_vars
  <2> SUFFICES ASSUME Inv, Next, focus = "blocklist" PROVE Blocklist!BlockHolds
    OBVIOUS
  <2> QED BY WhoSteps, EntryOutlivesWrites DEF Next
<1>4. SessionBlockHolds <=> [][Step]_vars
  BY DEF SessionBlockHolds
<1> HIDE DEF Inv, Step
<1> QED BY <1>1, <1>2, <1>3, <1>4, PTL DEF Spec

-----------------------------------------------------------------------------
(* FlowTrader: what the state file of the flow agent says, for every       *)
(* calendar of months and any number of crashes, refusals and unfilled     *)
(* orders.  v1 is the month, v4 the broker's shares, v5 and v6 the file    *)
(* and the agent's copy, v7 the step, v9 the entries, v10 what was torn.   *)

LEMMA FlowTraderInit == FlowTrader!Init => FlowTrader!FileFollowsOrders
  BY DEF FlowTrader!Init, FlowTrader!FileFollowsOrders

(* An order: the agent enters only in a month its file does not name.      *)
LEMMA OrderFollowed ==
  ASSUME FlowTrader!FileFollowsOrders, FlowTrader!Enter \/ FlowTrader!Exit
  PROVE  FlowTrader!FileFollowsOrders'
<1>1. CASE FlowTrader!Enter
  <2>1. v5.holding = 0 /\ v5.entered # v1
    BY <1>1 DEF FlowTrader!Enter, FlowTrader!Decide, FlowTrader!FileFollowsOrders
  <2> QED BY <1>1, <2>1 DEF FlowTrader!Enter, FlowTrader!FileFollowsOrders
<1>2. CASE FlowTrader!Exit
  <2>1. v5.holding = 1
    BY <1>2 DEF FlowTrader!Exit, FlowTrader!Decide, FlowTrader!FileFollowsOrders
  <2> QED BY <1>2, <2>1 DEF FlowTrader!Exit, FlowTrader!FileFollowsOrders
<1> QED BY <1>1, <1>2

LEMMA RecordFollowed ==
  ASSUME FlowTrader!FileFollowsOrders, FlowTrader!RecordEntry \/ FlowTrader!RecordExit
  PROVE  FlowTrader!FileFollowsOrders'
<1>1. CASE FlowTrader!RecordEntry
  BY <1>1 DEF FlowTrader!RecordEntry, FlowTrader!FileFollowsOrders
<1>2. CASE FlowTrader!RecordExit
  BY <1>2 DEF FlowTrader!RecordExit, FlowTrader!FileFollowsOrders
<1> QED BY <1>1, <1>2

LEMMA FlowRestartFollowed ==
  ASSUME FlowTrader!FileFollowsOrders, FlowTrader!Restart
  PROVE  FlowTrader!FileFollowsOrders'
<1>1. /\ v6' = v5 /\ v7' = "idle" /\ v10' = (v10 \/ v7 # "idle")
      /\ UNCHANGED <<v1, v4, v5, v9>>
  BY DEF FlowTrader!Restart
<1>2. v10 \/ v7 # "idle" => v10'
  BY <1>1, Zenon
<1> QED BY <1>1, <1>2 DEF FlowTrader!FileFollowsOrders

LEMMA CalendarFollowed ==
  ASSUME FlowTrader!FileFollowsOrders, FlowTrader!WindowOpens \/ FlowTrader!NextDay
  PROVE  FlowTrader!FileFollowsOrders'
  BY DEF FlowTrader!WindowOpens, FlowTrader!NextDay, FlowTrader!FileFollowsOrders

LEMMA FlowTraderStep ==
  ASSUME FlowTrader!FileFollowsOrders, NextFlowTrader
  PROVE  FlowTrader!FileFollowsOrders'
  BY OrderFollowed, RecordFollowed, FlowRestartFollowed, CalendarFollowed
     DEF NextFlowTrader

(* flow_trader.py enters once a month, and holds what its file says,       *)
(* through restarts and refusals, unless an accepted order was torn.       *)
THEOREM EntersOncePerMonth == Spec => []FlowEntersOnce
<1> DEFINE Inv == focus = "flow" => FlowTrader!FileFollowsOrders
<1>1. Init => Inv
  BY WhoStarts, FlowTraderInit DEF Init, InitFlowTrader
<1>2. Inv /\ [Next]_vars => Inv'
  <2> SUFFICES ASSUME Inv, [Next]_vars, focus' = "flow" PROVE FlowTrader!FileFollowsOrders'
    OBVIOUS
  <2>1. FlowTrader!FileFollowsOrders
    BY FocusStays
  <2>2. CASE Next
    BY <2>1, <2>2, WhoSteps, FlowTraderStep DEF Next
  <2>3. CASE UNCHANGED vars
    BY <2>1, <2>3 DEF vars, FlowTrader!FileFollowsOrders
  <2> QED BY <2>2, <2>3
<1>3. Inv => FlowEntersOnce
  BY DEF FlowTrader!FileFollowsOrders, FlowEntersOnce, FlowTrader!FlowEntersOnce
<1> QED BY <1>1, <1>2, <1>3, PTL DEF Spec

-----------------------------------------------------------------------------
(* Nominations: the way of a list from the scanner's file to the trader,   *)
(* for every calendar, any number of scans, threads and failing calls.  v8 *)
(* is the file's list, v10 the scan, v11 the announcements, v12 the        *)
(* threads at the vetting lock, v13 the replay, v14 the vetted list and    *)
(* v16 whether a request was dropped, lost or brought an old list.         *)

LEMMA NominationsInit == Nominations!Init => Nominations!ListIsFollowed
  BY DEF Nominations!Init, Nominations!ListIsFollowed

(* What only adds: nothing that was on its way is taken off it.            *)
LEMMA AddingFollows ==
  ASSUME Nominations!ListIsFollowed, UNCHANGED <<v8, v13, v14>>,
         v16 => v16',
         v10.step = "written" => v10'.step = "written",
         v11 \subseteq v11', v12 \subseteq v12'
  PROVE  Nominations!ListIsFollowed'
  BY DEF Nominations!ListIsFollowed, Nominations!Underway

LEMMA BusFollows ==
  ASSUME Nominations!ListIsFollowed,
         UNCHANGED <<v8, v9, v10, v11, v12, v13, v14, v15, v16>>
  PROVE  Nominations!ListIsFollowed'
  BY AddingFollows

LEMMA RequestFollows ==
  ASSUME Nominations!ListIsFollowed,
         Nominations!ScannerHears \/ Nominations!ScannerTick \/ Nominations!VettingTick
  PROVE  Nominations!ListIsFollowed'
<1>1. ASSUME NEW source, Nominations!StartScan(source), v10.step = "written"
      PROVE  v10'.step = "written"
  BY <1>1 DEF Nominations!StartScan
<1>2. CASE Nominations!ScannerHears
  BY <1>1, <1>2, AddingFollows DEF Nominations!ScannerHears, Nominations!vettingSide
<1>3. CASE Nominations!ScannerTick
  BY <1>1, <1>3, AddingFollows DEF Nominations!ScannerTick, Nominations!vettingSide
<1>4. CASE Nominations!VettingTick
  BY <1>4, AddingFollows DEF Nominations!VettingTick, Nominations!Brings
<1> QED BY <1>2, <1>3, <1>4

(* A new list is written before it is announced; what is not announced any *)
(* more was a race.                                                        *)
LEMMA ScanFollows ==
  ASSUME Nominations!ListIsFollowed,
         Nominations!ScanEnds \/ Nominations!Announce \/ Nominations!ScannerRestarts
  PROVE  Nominations!ListIsFollowed'
<1>1. CASE Nominations!ScanEnds
  <2>1. CASE v10' = Nominations!NoScan /\ UNCHANGED v8
    BY <1>1, <2>1, AddingFollows DEF Nominations!ScanEnds, Nominations!vettingSide
  <2>2. CASE v8' = v8 + 1 /\ v10' = [v10 EXCEPT !.step = "written"]
    BY <1>1, <2>2 DEF Nominations!ScanEnds, Nominations!ListIsFollowed, Nominations!Underway
  <2> QED BY <1>1, <2>1, <2>2 DEF Nominations!ScanEnds
<1>2. CASE Nominations!Announce
  <2>1. UNCHANGED v8
    BY <1>2 DEF Nominations!Announce
  <2>2. CASE v16'
    BY <2>1, <2>2 DEF Nominations!ListIsFollowed
  <2>3. CASE v11' = v11 \cup {<<who, v8, v10.source>> : who \in Nominations!Subscriber}
    <3>1. <<"vetting", v8, v10.source>> \in v11'
      BY <2>3 DEF Nominations!Subscriber
    <3> QED BY <2>1, <3>1 DEF Nominations!ListIsFollowed, Nominations!Underway
  <2> QED BY <1>2, <2>2, <2>3 DEF Nominations!Announce
<1>3. CASE Nominations!ScannerRestarts
  <2>1. /\ v16' = (v16 \/ v10.step = "written")
        /\ UNCHANGED <<v8, v11, v12, v13, v14>>
    BY <1>3 DEF Nominations!ScannerRestarts, Nominations!vettingSide
  <2>2. v16 \/ v10.step = "written" => v16'
    BY <2>1, Zenon
  <2> QED BY <2>1, <2>2 DEF Nominations!ListIsFollowed, Nominations!Underway
<1> QED BY <1>1, <1>2, <1>3

(* An announcement received brings the file's list to the lock: its own,   *)
(* or for the relay whatever the file holds by now.                        *)
LEMMA NewsFollows ==
  ASSUME Nominations!ListIsFollowed, Nominations!VettingHears \/ Nominations!Revet
  PROVE  Nominations!ListIsFollowed'
<1>1. PICK n \in v11, w \in v12' :
        /\ v11' = v11 \ {n} /\ v12' = v12 \cup {w}
        /\ w.list = v8 \/ (n[1] = "vetting" /\ w.list = n[2])
        /\ UNCHANGED <<v8, v10, v13, v14, v16>>
  <2>1. CASE Nominations!VettingHears
    <3>1. PICK n \in v11 :
            /\ n[1] = "vetting" /\ v11' = v11 \ {n}
            /\ v12' = v12 \cup {[list |-> n[2], source |-> n[3]]}
            /\ UNCHANGED <<v8, v10, v13, v14, v16>>
      BY <2>1 DEF Nominations!VettingHears, Nominations!Brings
    <3>2. [list |-> n[2], source |-> n[3]].list = n[2]
      OBVIOUS
    <3> QED BY <3>1, <3>2
  <2>2. CASE Nominations!Revet
    <3>1. PICK n \in v11 :
            /\ v11' = v11 \ {n}
            /\ v12' = v12 \cup {[list |-> v8, source |-> n[3]]}
            /\ UNCHANGED <<v8, v10, v13, v14, v16>>
      BY <2>2 DEF Nominations!Revet, Nominations!Brings
    <3>2. [list |-> v8, source |-> n[3]].list = v8
      OBVIOUS
    <3> QED BY <3>1, <3>2
  <2> QED BY <2>1, <2>2
<1>2. CASE w.list = v8
  BY <1>1, <1>2 DEF Nominations!ListIsFollowed, Nominations!Underway
<1>3. CASE n[1] = "vetting" /\ n[2] # v8
  BY <1>1, <1>3 DEF Nominations!ListIsFollowed, Nominations!Underway
<1> QED BY <1>1, <1>2, <1>3

(* At the lock and in the replay the list is compared with the file's.     *)
LEMMA ReplayFollows ==
  ASSUME Nominations!ListIsFollowed, Nominations!TakeLock \/ Nominations!PublishVetted
  PROVE  Nominations!ListIsFollowed'
<1>1. CASE Nominations!TakeLock
  <2>1. PICK w \in v12 :
          /\ v12' = v12 \ {w}
          /\ v13' = IF v13 = Nominations!Idle THEN w ELSE v13
          /\ v16' = (v16 \/ v13 # Nominations!Idle \/ w.list # v8)
          /\ UNCHANGED <<v8, v10, v11, v14>>
    BY <1>1 DEF Nominations!TakeLock
  <2>2. CASE v16'
    BY <2>1, <2>2 DEF Nominations!ListIsFollowed
  <2>3. CASE ~v16'
    <3>1. v13 = Nominations!Idle /\ w.list = v8
      BY <2>1, <2>3, Zenon
    <3>2. w # Nominations!Idle
      BY <3>1 DEF Nominations!Idle, Nominations!ListIsFollowed
    <3> QED BY <2>1, <3>1, <3>2 DEF Nominations!ListIsFollowed, Nominations!Underway
  <2> QED BY <2>2, <2>3
<1>2. CASE Nominations!PublishVetted
  <2>1. v14' = [day |-> v1, list |-> v13.list, source |-> v13.source] /\ UNCHANGED v8
    BY <1>2 DEF Nominations!PublishVetted, Nominations!Published
  <2>2. v14'.list = v13.list
    BY <2>1
  <2>3. v16' = (v16 \/ v13.list # v8)
    BY <1>2 DEF Nominations!PublishVetted
  <2>4. v13.list # v8 => v16'
    BY <2>3, Zenon
  <2> QED BY <2>1, <2>2, <2>4 DEF Nominations!ListIsFollowed
<1> QED BY <1>1, <1>2

LEMMA LossFollows ==
  ASSUME Nominations!ListIsFollowed, Nominations!VettingRestarts \/ Nominations!NewsLost
  PROVE  Nominations!ListIsFollowed'
  BY DEF Nominations!VettingRestarts, Nominations!NewsLost, Nominations!ListIsFollowed

LEMMA NominationsStep ==
  ASSUME Nominations!ListIsFollowed, NextNominations
  PROVE  Nominations!ListIsFollowed'
<1>1. CASE Nominations!TimePasses
  BY <1>1, BusFollows DEF Nominations!TimePasses, Nominations!mine
<1> QED BY <1>1, BusFollows, RequestFollows, ScanFollows, NewsFollows, ReplayFollows,
           LossFollows DEF NextNominations

(* When scanner.py, vetting.py and the relay of orchestrator.py have       *)
(* nothing left to do, the vetted list is the last one nominated, unless a *)
(* request was lost, dropped at a lock, or overtaken by another scan.      *)
THEOREM VettingCatchesUp == Spec => []VettedIsTheLastNominated
<1> DEFINE Inv == focus = "nominations" => Nominations!ListIsFollowed
<1>1. Init => Inv
  BY WhoStarts, NominationsInit DEF Init, InitNominations
<1>2. Inv /\ [Next]_vars => Inv'
  <2> SUFFICES ASSUME Inv, [Next]_vars, focus' = "nominations" PROVE Nominations!ListIsFollowed'
    OBVIOUS
  <2>1. Nominations!ListIsFollowed
    BY FocusStays
  <2>2. CASE Next
    BY <2>1, <2>2, WhoSteps, NominationsStep DEF Next
  <2>3. CASE UNCHANGED vars
    BY <2>1, <2>3 DEF vars, Nominations!ListIsFollowed, Nominations!Underway
  <2> QED BY <2>2, <2>3
<1>3. Inv => VettedIsTheLastNominated
  BY DEF Nominations!ListIsFollowed, Nominations!Underway, Nominations!Quiet,
     Nominations!NoScan, VettedIsTheLastNominated, Nominations!VettedIsTheLastNominated
<1> QED BY <1>1, <1>2, <1>3, PTL DEF Spec

-----------------------------------------------------------------------------
(* ScanInputs: what a scan may buy while the bus is down, for any limit    *)
(* and any number of outages.  v1 says whether Redis answers, v3 is the    *)
(* quiet of seconds_since_ok(), v8 the scan, v16 the names it could not    *)
(* read of, v17 the length of the outage, v18 whether it ended under the   *)
(* scan, and v19 whether such a name was bought late in it.                *)

LEMMA ScanInputsInit == ASSUME SuppressAfter \in Nat, ScanInputs!Init PROVE ScanInputs!OutageIsQuiet
  BY DEF ScanInputs!Init, ScanInputs!OutageIsQuiet, ScanInputs!None

(* A period adds to both counts or, while the bus is up, ends them.        *)
LEMMA PeriodQuiet ==
  ASSUME SuppressAfter \in Nat, ScanInputs!OutageIsQuiet, ScanInputs!Period
  PROVE  ScanInputs!OutageIsQuiet'
<1>1. UNCHANGED <<v1, v16, v18, v19>>
  BY DEF ScanInputs!Period
<1>2. CASE v1
  <2>1. v3' = 0 /\ v17' = 0
    BY <1>2 DEF ScanInputs!Period
  <2> QED BY <1>1, <1>2, <2>1 DEF ScanInputs!OutageIsQuiet
<1>3. CASE ~v1
  <2>1. /\ v3' = IF v3 = -1 \/ v3 = SuppressAfter + 1 THEN v3 ELSE v3 + 1
        /\ v17' = IF v17 = -1 \/ v17 = SuppressAfter + 1 THEN v17 ELSE v17 + 1
    BY <1>3 DEF ScanInputs!Period, ScanInputs!Later, ScanInputs!None
  <2>2. v3 \in {-1} \cup Nat /\ v17 \in Nat /\ (v3 # -1 => v17 <= v3)
    BY <1>3 DEF ScanInputs!OutageIsQuiet, ScanInputs!None
  <2>3. v3' \in {-1} \cup Nat /\ v17' \in Nat
    BY <2>1, <2>2
  <2>4. v3' # -1 => v17' <= v3'
    BY <2>1, <2>2
  <2> QED BY <1>1, <1>3, <2>3, <2>4 DEF ScanInputs!OutageIsQuiet, ScanInputs!None
<1> QED BY <1>2, <1>3

(* The bus goes down, or comes back under the scan.                        *)
LEMMA OutageQuiet ==
  ASSUME ScanInputs!OutageIsQuiet, ScanInputs!Outage
  PROVE  ScanInputs!OutageIsQuiet'
<1>1. v17' = 0 /\ v1' = ~v1 /\ UNCHANGED <<v3, v16, v19>>
  BY DEF ScanInputs!Outage, ScanInputs!bus
<1>2. v18' = (v18 \/ ~v1)
  BY DEF ScanInputs!Outage
<1>3. v16' # {} /\ ~v18' => ~v1'
  BY <1>1, <1>2, Zenon DEF ScanInputs!OutageIsQuiet
<1> QED BY <1>1, <1>3 DEF ScanInputs!OutageIsQuiet, ScanInputs!None

LEMMA WorldQuiet ==
  ASSUME ScanInputs!OutageIsQuiet,
         \/ ScanInputs!Others \/ ScanInputs!StreamDies \/ ScanInputs!Retrained
         \/ ScanInputs!Restart \/ ScanInputs!ScanEnds
  PROVE  ScanInputs!OutageIsQuiet'
<1>1. /\ v1' = v1 /\ v17' = v17 /\ v18' = v18 /\ v19' = v19
      /\ (v3' = v3 \/ v3' = -1) /\ (v16' = v16 \/ v16' = {})
  BY DEF ScanInputs!Others, ScanInputs!StreamDies, ScanInputs!Retrained, ScanInputs!Restart,
         ScanInputs!ScanEnds, ScanInputs!None, ScanInputs!bus, ScanInputs!models, ScanInputs!engine,
         ScanInputs!history
<1> QED BY <1>1 DEF ScanInputs!OutageIsQuiet, ScanInputs!None

(* A read that succeeds is noted; one that fails may miss names.           *)
LEMMA ReadQuiet ==
  ASSUME ScanInputs!OutageIsQuiet, ScanInputs!Refresh \/ ScanInputs!Choose
  PROVE  ScanInputs!OutageIsQuiet'
<1>1. /\ v1' = v1 /\ v17' = v17 /\ v19' = v19 /\ v3' = IF v1 THEN 0 ELSE v3
  BY DEF ScanInputs!Refresh, ScanInputs!Choose, ScanInputs!Noted, ScanInputs!bus, ScanInputs!models
<1>2. v16' # {} /\ ~v18' => ~v1'
  <2>1. CASE ScanInputs!Refresh
    BY <2>1 DEF ScanInputs!Refresh, ScanInputs!bus
  <2>2. CASE ScanInputs!Choose
    BY <2>2 DEF ScanInputs!Choose, ScanInputs!bus, ScanInputs!OutageIsQuiet
  <2> QED BY <2>1, <2>2
<1> QED BY <1>1, <1>2 DEF ScanInputs!OutageIsQuiet, ScanInputs!None

(* The gate: late in an outage the bus has been quiet for as long.         *)
LEMMA BuyQuiet ==
  ASSUME SuppressAfter \in Nat, ScanInputs!OutageIsQuiet, ScanInputs!Buy
  PROVE  ScanInputs!OutageIsQuiet'
<1>1. UNCHANGED <<v1, v3, v16, v17, v18>>
  BY DEF ScanInputs!Buy, ScanInputs!bus
<1>2. v3 = -1 \/ v3 <= SuppressAfter
  BY DEF ScanInputs!Buy, ScanInputs!StaleBus, ScanInputs!None, ScanInputs!OutageIsQuiet
<1>3. v16 # {} /\ v17 > SuppressAfter /\ v3 # -1 => v18
  BY <1>2 DEF ScanInputs!OutageIsQuiet, ScanInputs!None
<1>4. PICK s \in v11 \ v9 :
        v19' = (v19 \/ (s \in v16 /\ v17 > SuppressAfter /\ v3 # -1 /\ ~v18))
  BY DEF ScanInputs!Buy, ScanInputs!None
<1>5. ~v19
  BY DEF ScanInputs!OutageIsQuiet
<1>6. ~v19'
  BY <1>3, <1>4, <1>5, Zenon
<1> QED BY <1>1, <1>6 DEF ScanInputs!OutageIsQuiet

LEMMA ScanInputsStep ==
  ASSUME SuppressAfter \in Nat, ScanInputs!OutageIsQuiet, NextScanInputs
  PROVE  ScanInputs!OutageIsQuiet'
  BY PeriodQuiet, OutageQuiet, WorldQuiet, ReadQuiet, BuyQuiet DEF NextScanInputs

(* Late in an outage of the bus trader.py buys no name that vetting.py had *)
(* blocked or rejected, unless this process never reached the bus, or it   *)
(* came back under the scan.                                               *)
THEOREM NoBlindBuys == Spec => []NoBlindBuyLateInAnOutage
<1> DEFINE Inv == focus = "inputs" => ScanInputs!OutageIsQuiet
<1>1. Init => Inv
  BY InputsAssumption, WhoStarts, ScanInputsInit DEF Init, InitScanInputs
<1>2. Inv /\ [Next]_vars => Inv'
  <2> SUFFICES ASSUME Inv, [Next]_vars, focus' = "inputs" PROVE ScanInputs!OutageIsQuiet'
    OBVIOUS
  <2>1. ScanInputs!OutageIsQuiet
    BY FocusStays
  <2>2. CASE Next
    BY <2>1, <2>2, InputsAssumption, WhoSteps, ScanInputsStep DEF Next
  <2>3. CASE UNCHANGED vars
    BY <2>1, <2>3 DEF vars, ScanInputs!OutageIsQuiet
  <2> QED BY <2>2, <2>3
<1>3. Inv => NoBlindBuyLateInAnOutage
  BY DEF ScanInputs!OutageIsQuiet, NoBlindBuyLateInAnOutage, ScanInputs!NoBlindBuyLateInAnOutage
<1> QED BY <1>1, <1>2, <1>3, PTL DEF Spec

-----------------------------------------------------------------------------
(* TradeDay: what is held after the bell, for any symbols, limits and      *)
(* amount of trouble, in phases that follow one session.  v1 is the phase, *)
(* v2 the process, v3 its step, v7 what is held, v8 whether it has gone    *)
(* through the close, v9 whether this scan may buy, v15 what is explained. *)

LEMMA TradeDayInit == TradeDay!Init => TradeDay!ClosedIsExplained
<1>1. Len(Phases) \in Nat \ {0}
  BY SessionsAssumption
<1> QED BY <1>1 DEF TradeDay!Init, TradeDay!ClosedIsExplained

(* A process begins, or ends, with no close behind it.                     *)
LEMMA ProcessExplained ==
  ASSUME TradeDay!ClosedIsExplained,
         \/ TradeDay!Boot \/ TradeDay!Wakes \/ TradeDay!CannotConnect
         \/ TradeDay!SessionEnded \/ TradeDay!LoopFails \/ TradeDay!Finish \/ TradeDay!Dies
  PROVE  TradeDay!ClosedIsExplained'
<1>1. UNCHANGED <<v1, v7, v15>> /\ v2' # "scanning" /\ (~v8' \/ (v8' = v8 /\ v2' = "ended"))
  <2>1. CASE TradeDay!Boot
    BY <2>1 DEF TradeDay!Boot, TradeDay!history
  <2>2. CASE TradeDay!Wakes
    BY <2>2 DEF TradeDay!Wakes, TradeDay!history, TradeDay!memory, TradeDay!ClosedIsExplained
  <2>3. CASE TradeDay!SessionEnded \/ TradeDay!LoopFails
    BY <2>3 DEF TradeDay!SessionEnded, TradeDay!LoopFails, TradeDay!history, TradeDay!memory
  <2>4. CASE TradeDay!CannotConnect \/ TradeDay!Finish \/ TradeDay!Dies
    BY <2>4 DEF TradeDay!CannotConnect, TradeDay!Finish, TradeDay!Dies, TradeDay!Forget, TradeDay!history
  <2> QED BY <2>1, <2>2, <2>3, <2>4
<1>2. v8' => v2' = "ended" /\ \E i \in 1..v1 : Phases[i].name = "close"
  BY <1>1 DEF TradeDay!ClosedIsExplained
<1> QED BY <1>1, <1>2 DEF TradeDay!ClosedIsExplained, TradeDay!Name, TradeDay!IsNearClose

(* Sales outside the scan: the refused are explained, the others gone.     *)
LEMMA SalesExplained ==
  ASSUME TradeDay!ClosedIsExplained,
         TradeDay!PreMarketDump \/ TradeDay!GapCheck \/ TradeDay!ShutDown
  PROVE  TradeDay!ClosedIsExplained'
<1>1. /\ v1' = v1 /\ v8' = v8
      /\ v2' = "ended" \/ (~v8' /\ (v2' = "scanning" \/ v2' = v2))
  <2>1. CASE TradeDay!PreMarketDump
    BY <2>1 DEF TradeDay!PreMarketDump, TradeDay!memory, TradeDay!ClosedIsExplained
  <2>2. CASE TradeDay!GapCheck
    BY <2>2 DEF TradeDay!GapCheck, TradeDay!memory, TradeDay!ClosedIsExplained
  <2>3. CASE TradeDay!ShutDown
    BY <2>3 DEF TradeDay!ShutDown, TradeDay!memory
  <2> QED BY <2>1, <2>2, <2>3
<1>2. v7 \subseteq v15 => v7' \subseteq v15'
  <2>1. CASE \E wanted \in SUBSET v7 : TradeDay!Sell(wanted)
    BY <2>1 DEF TradeDay!Sell
  <2>2. CASE TradeDay!ShutDown
    BY <2>2 DEF TradeDay!ShutDown
  <2>3. \E wanted \in SUBSET v7 : TradeDay!Sell(wanted) \/ TradeDay!ShutDown
    BY DEF TradeDay!PreMarketDump, TradeDay!GapCheck
  <2> QED BY <2>1, <2>2, <2>3
<1> QED BY <1>1, <1>2 DEF TradeDay!ClosedIsExplained, TradeDay!Name, TradeDay!IsNearClose

(* The loop up to the scan.  The loss limit explains what it leaves; so    *)
(* does the close.                                                         *)
LEMMA LoopExplained ==
  ASSUME TradeDay!ClosedIsExplained,
         TradeDay!LoopTop \/ TradeDay!LossLimit \/ TradeDay!NoEodDue \/ TradeDay!ScanDone
  PROVE  TradeDay!ClosedIsExplained'
<1>1. /\ v1' = v1 /\ v8' = v8 /\ v7' = v7 /\ v2 = "scanning"
      /\ \/ v2' = v2 /\ v3' # "scan" /\ v15' = v15
         \/ v2' = "ended" /\ v15' = v7
  BY DEF TradeDay!LoopTop, TradeDay!LossLimit, TradeDay!NoEodDue, TradeDay!ScanDone, TradeDay!At,
         TradeDay!memory, TradeDay!history
<1> QED BY <1>1 DEF TradeDay!ClosedIsExplained, TradeDay!Name, TradeDay!IsNearClose

LEMMA CloseExplained ==
  ASSUME TradeDay!ClosedIsExplained, TradeDay!CloseAll
  PROVE  TradeDay!ClosedIsExplained'
<1>1. /\ v1' = v1 /\ v2' = v2 /\ v2 = "scanning" /\ v3' = "closed" /\ v15' = v7'
      /\ TradeDay!IsNearClose
  BY DEF TradeDay!CloseAll, TradeDay!At
<1>2. \E i \in 1..v1 : Phases[i].name = "close"
  BY <1>1 DEF TradeDay!ClosedIsExplained, TradeDay!IsNearClose, TradeDay!Name
<1> QED BY <1>1, <1>2 DEF TradeDay!ClosedIsExplained, TradeDay!Name, TradeDay!IsNearClose

(* At the close no scan is chosen to buy.                                  *)
LEMMA ScanExplained ==
  ASSUME TradeDay!ClosedIsExplained,
         TradeDay!ChooseEntries \/ TradeDay!ScanBuys \/ TradeDay!ScanSells
  PROVE  TradeDay!ClosedIsExplained'
<1>1. CASE TradeDay!ChooseEntries
  <2>1. UNCHANGED <<v1, v2, v7, v8, v15>>
    BY <1>1 DEF TradeDay!ChooseEntries, TradeDay!history
  <2>2. TradeDay!IsNearClose => ~v9'
    BY <1>1 DEF TradeDay!ChooseEntries, TradeDay!EntriesOpen, TradeDay!IsNearClose
  <2> QED BY <2>1, <2>2 DEF TradeDay!ClosedIsExplained, TradeDay!Name, TradeDay!IsNearClose
<1>2. CASE TradeDay!ScanBuys
  <2>1. /\ UNCHANGED <<v1, v2, v3, v8, v9, v15>> /\ v2 = "scanning" /\ v3 = "scan" /\ v9
        /\ TradeDay!IsOpen
    BY <1>2 DEF TradeDay!ScanBuys, TradeDay!memory, TradeDay!At
  <2> QED BY <2>1 DEF TradeDay!ClosedIsExplained, TradeDay!Name, TradeDay!IsNearClose, TradeDay!IsOpen
<1>3. CASE TradeDay!ScanSells
  <2>1. UNCHANGED <<v1, v2, v3, v8, v9>> /\ \E s \in v7 : v7' = v7 \ {s} /\ v15' = v15 \ {s}
    BY <1>3 DEF TradeDay!ScanSells, TradeDay!memory
  <2> QED BY <2>1 DEF TradeDay!ClosedIsExplained, TradeDay!Name, TradeDay!IsNearClose
<1> QED BY <1>1, <1>2, <1>3

(* The clock: who was not through the close when it ended says so.         *)
LEMMA ClockExplained ==
  ASSUME TradeDay!ClosedIsExplained,
         TradeDay!Falls \/ TradeDay!HaltExpires \/ TradeDay!TimePasses
  PROVE  TradeDay!ClosedIsExplained'
<1>1. CASE TradeDay!Falls \/ TradeDay!HaltExpires
  <2>1. UNCHANGED <<v1, v2, v3, v7, v8, v9, v15>>
    BY <1>1 DEF TradeDay!Falls, TradeDay!HaltExpires, TradeDay!memory, TradeDay!history
  <2> QED BY <2>1 DEF TradeDay!ClosedIsExplained, TradeDay!Name, TradeDay!IsNearClose
<1>2. CASE TradeDay!TimePasses
  <2>1. /\ v1' = v1 + 1 /\ v1 \in 1..Len(Phases) /\ v1' \in 2..Len(Phases)
        /\ UNCHANGED <<v2, v3, v7, v8, v9>>
        /\ v15' = IF Phases[v1].name = "close" /\ ~(v2 = "scanning" /\ v8) THEN v7 ELSE v15
    <3>1. Len(Phases) \in Nat
      BY SessionsAssumption
    <3> QED BY <1>2, <3>1 DEF TradeDay!TimePasses, TradeDay!memory, TradeDay!ClosedIsExplained,
              TradeDay!IsNearClose, TradeDay!Name
  <2>2. v8 => v2 \in {"scanning", "ended"} /\ \E i \in 1..v1 : Phases[i].name = "close"
    BY DEF TradeDay!ClosedIsExplained
  <2>3. v8 /\ Phases[v1'].name = "close" => Phases[v1].name = "close"
    <3> SUFFICES ASSUME v8, Phases[v1'].name = "close" PROVE Phases[v1].name = "close"
      OBVIOUS
    <3>1. PICK i \in 1..v1 : Phases[i].name = "close"
      BY <2>2
    <3>2. /\ i \in 1..Len(Phases) /\ v1 \in 1..Len(Phases) /\ v1' \in 1..Len(Phases)
          /\ i <= v1 /\ v1 <= v1'
      BY <2>1, <3>1
    <3> QED BY <3>1, <3>2, SessionsAssumption, Zenon
  <2>4. Phases[v1'].name = "close" /\ v2' = "scanning" /\ v8' =>
          v7' \subseteq v15' /\ (v3' = "scan" => ~v9')
    BY <2>1, <2>3 DEF TradeDay!ClosedIsExplained, TradeDay!Name, TradeDay!IsNearClose
  <2>5. Phases[v1'].name = "after" => v7' \subseteq v15'
    <3>1. Phases[v1'].name = "after" => Phases[v1].name \in {"close", "after"}
      BY <2>1, SessionsAssumption
    <3> QED BY <2>1, <3>1 DEF TradeDay!ClosedIsExplained, TradeDay!Name, TradeDay!IsNearClose
  <2> QED BY <2>1, <2>2, <2>4, <2>5 DEF TradeDay!ClosedIsExplained, TradeDay!Name, TradeDay!IsNearClose
<1> QED BY <1>1, <1>2

LEMMA TradeDayStep ==
  ASSUME TradeDay!ClosedIsExplained, NextTradeDay
  PROVE  TradeDay!ClosedIsExplained'
  BY ProcessExplained, SalesExplained, LoopExplained, CloseExplained, ScanExplained,
     ClockExplained DEF NextTradeDay

(* What trader.py still holds after the bell it kept, could not sell, or   *)
(* left when the loss limit stopped it or it missed the close: nothing is  *)
(* opened behind the close of everything.                                  *)
THEOREM NothingLeftByOversight == Spec => []NothingStaysOvernightByOversight
<1> DEFINE Inv == focus = "session" => TradeDay!ClosedIsExplained
<1>1. Init => Inv
  BY SessionsAssumption, WhoStarts, TradeDayInit DEF Init, InitTradeDay
<1>2. Inv /\ [Next]_vars => Inv'
  <2> SUFFICES ASSUME Inv, [Next]_vars, focus' = "session" PROVE TradeDay!ClosedIsExplained'
    OBVIOUS
  <2>1. TradeDay!ClosedIsExplained
    BY FocusStays
  <2>2. CASE Next
    BY <2>1, <2>2, SessionsAssumption, WhoSteps, TradeDayStep DEF Next
  <2>3. CASE UNCHANGED vars
    BY <2>1, <2>3 DEF vars, TradeDay!ClosedIsExplained, TradeDay!Name, TradeDay!IsNearClose
  <2> QED BY <2>2, <2>3
<1>3. Inv => NothingStaysOvernightByOversight
  BY DEF TradeDay!ClosedIsExplained, NothingStaysOvernightByOversight, TradeDay!NothingStaysOvernightByOversight
<1> QED BY <1>1, <1>2, <1>3, PTL DEF Spec

-----------------------------------------------------------------------------
(* KiteStream: what a cached price is fed by, for any symbols and any      *)
(* number of expiries, lost connections and new connectors.  v3 is the     *)
(* socket, v5 what is cached, v6 what is noted, v7 what is streamed, v8    *)
(* the call the main thread is in, v9 what was priced early.               *)

LEMMA KiteStreamInit == KiteStream!Init => KiteStream!StreamHolds
  BY DEF KiteStream!Init, KiteStream!Idle, KiteStream!StreamHolds, KiteStream!CachedIsNoted, KiteStream!NotedIsStreamed,
     KiteStream!StreamIsNoted

(* A login or an expired token leaves the stream alone.                    *)
LEMMA LoginStreams ==
  ASSUME KiteStream!StreamHolds,
         \/ KiteStream!Connect \/ KiteStream!LoginFails \/ KiteStream!TokensExpire
         \/ \E s \in Symbols : KiteStream!Trade(s)
  PROVE  KiteStream!StreamHolds'
<1>1. UNCHANGED <<v5, v6, v7, v8, v9>> /\ (v3' = v3 \/ v3' = "opening")
  BY DEF KiteStream!Connect, KiteStream!LoginFails, KiteStream!TokensExpire,
         KiteStream!Trade, KiteStream!connection
<1> QED BY <1>1 DEF KiteStream!StreamHolds, KiteStream!CachedIsNoted, KiteStream!NotedIsStreamed,
     KiteStream!StreamIsNoted

(* The connection: on_connect() subscribes to everything noted so far.     *)
LEMMA SocketStreams ==
  ASSUME KiteStream!StreamHolds,
         KiteStream!NewConnector \/ KiteStream!SocketOpens \/ KiteStream!SocketDrops
  PROVE  KiteStream!StreamHolds'
<1>1. CASE KiteStream!NewConnector
  <2>1. v8.for = "none"
    BY <1>1 DEF KiteStream!NewConnector, KiteStream!Idle
  <2> QED BY <1>1, <2>1 DEF KiteStream!NewConnector, KiteStream!Fresh,
     KiteStream!StreamHolds, KiteStream!CachedIsNoted, KiteStream!NotedIsStreamed,
     KiteStream!StreamIsNoted
<1>2. CASE KiteStream!SocketOpens
  BY <1>2 DEF KiteStream!SocketOpens, KiteStream!OnConnect,
     KiteStream!StreamHolds, KiteStream!CachedIsNoted, KiteStream!NotedIsStreamed,
     KiteStream!StreamIsNoted
<1>3. CASE KiteStream!SocketDrops
  BY <1>3 DEF KiteStream!SocketDrops,
     KiteStream!StreamHolds, KiteStream!CachedIsNoted, KiteStream!NotedIsStreamed,
     KiteStream!StreamIsNoted
<1> QED BY <1>1, <1>2, <1>3

(* A tick caches only what is streamed, hence noted.                       *)
LEMMA TickStreams ==
  ASSUME KiteStream!StreamHolds, NEW s \in Symbols, KiteStream!Tick(s)
  PROVE  KiteStream!StreamHolds'
<1>1. s \in v6 /\ v5' = v5 \cup {s} /\ UNCHANGED <<v3, v6, v7, v8, v9>>
  BY DEF KiteStream!Tick, KiteStream!connection, KiteStream!StreamHolds,
         KiteStream!StreamIsNoted
<1> QED BY <1>1 DEF KiteStream!StreamHolds, KiteStream!CachedIsNoted, KiteStream!NotedIsStreamed,
     KiteStream!StreamIsNoted

(* A price asked for is cached first and noted after, if the socket is     *)
(* open by then.                                                           *)
LEMMA PriceStreams ==
  ASSUME KiteStream!StreamHolds,
         (\E s \in Symbols : KiteStream!AskPrice(s)) \/ KiteStream!FollowPrice
  PROVE  KiteStream!StreamHolds'
<1>1. ASSUME NEW s \in Symbols, KiteStream!AskPrice(s) PROVE KiteStream!StreamHolds'
  <2>1. /\ v8.for = "none" /\ v8'.for = "price" /\ v8'.of = {s}
        /\ v5' = v5 \cup {s} /\ UNCHANGED <<v3, v6, v7, v9>>
    BY <1>1 DEF KiteStream!AskPrice, KiteStream!Idle, KiteStream!connection
  <2> QED BY <2>1 DEF KiteStream!StreamHolds, KiteStream!CachedIsNoted, KiteStream!NotedIsStreamed,
     KiteStream!StreamIsNoted
<1>2. CASE KiteStream!FollowPrice
  <2>1. v8.for = "price" /\ v8'.for = "none" /\ UNCHANGED <<v3, v5>>
    BY <1>2 DEF KiteStream!FollowPrice, KiteStream!Idle, KiteStream!connection
  <2>2. CASE v3 = "open"
    <3>1. v6' = v6 \cup v8.of /\ v7' = v7 \cup v8.of /\ v9' = v9
      BY <1>2, <2>2 DEF KiteStream!FollowPrice
    <3> QED BY <2>1, <2>2, <3>1 DEF KiteStream!StreamHolds, KiteStream!CachedIsNoted, KiteStream!NotedIsStreamed,
     KiteStream!StreamIsNoted
  <2>3. CASE v3 # "open"
    <3>1. v9' = v9 \cup v8.of /\ v6' = v6 /\ v7' = v7
      BY <1>2, <2>3 DEF KiteStream!FollowPrice
    <3> QED BY <2>1, <2>3, <3>1 DEF KiteStream!StreamHolds, KiteStream!CachedIsNoted, KiteStream!NotedIsStreamed,
     KiteStream!StreamIsNoted
  <2> QED BY <2>2, <2>3
<1> QED BY <1>1, <1>2

(* A batch is noted before its prices are cached and before it is sent.    *)
LEMMA BatchStreams ==
  ASSUME KiteStream!StreamHolds, KiteStream!Subscribe \/ KiteStream!SubscribeSent
  PROVE  KiteStream!StreamHolds'
<1>1. CASE KiteStream!Subscribe
  <2>1. PICK batch, priced :
          /\ priced \subseteq batch
          /\ v6' = v6 \cup batch /\ v5' = v5 \cup priced
          /\ v8'.for = "subscribe" /\ v8'.of = batch
    BY <1>1 DEF KiteStream!Subscribe, KiteStream!Noted
  <2>2. v8.for = "none" /\ UNCHANGED <<v3, v7, v9>>
    BY <1>1 DEF KiteStream!Subscribe, KiteStream!Idle, KiteStream!connection
  <2> QED BY <2>1, <2>2 DEF KiteStream!StreamHolds, KiteStream!CachedIsNoted, KiteStream!NotedIsStreamed,
     KiteStream!StreamIsNoted
<1>2. CASE KiteStream!SubscribeSent
  <2>1. v8.for = "subscribe" /\ v8'.for = "none" /\ UNCHANGED <<v3, v5, v6, v9>>
    BY <1>2 DEF KiteStream!SubscribeSent, KiteStream!Idle, KiteStream!connection
  <2>2. v7' = IF v3 = "open" THEN v7 \cup v8.of ELSE v7
    BY <1>2 DEF KiteStream!SubscribeSent
  <2> QED BY <2>1, <2>2 DEF KiteStream!StreamHolds, KiteStream!CachedIsNoted, KiteStream!NotedIsStreamed,
     KiteStream!StreamIsNoted
<1> QED BY <1>1, <1>2

LEMMA KiteStreamStep ==
  ASSUME KiteStream!StreamHolds, NextKiteStream
  PROVE  KiteStream!StreamHolds'
  BY LoginStreams, SocketStreams, TickStreams, PriceStreams, BatchStreams
     DEF NextKiteStream

(* While the websocket of zerodha_connector.py is open, every cached price *)
(* is one that is streamed, but for those get_current_price cached before  *)
(* it was.                                                                 *)
THEOREM CachedPricesAreFed == Spec => []CachedPriceIsStreamed
<1> DEFINE Inv == focus = "stream" => KiteStream!StreamHolds
<1>1. Init => Inv
  BY WhoStarts, KiteStreamInit DEF Init, InitKiteStream
<1>2. Inv /\ [Next]_vars => Inv'
  <2> SUFFICES ASSUME Inv, [Next]_vars, focus' = "stream" PROVE KiteStream!StreamHolds'
    OBVIOUS
  <2>1. KiteStream!StreamHolds
    BY FocusStays
  <2>2. CASE Next
    BY <2>1, <2>2, WhoSteps, KiteStreamStep DEF Next
  <2>3. CASE UNCHANGED vars
    BY <2>1, <2>3 DEF vars, KiteStream!StreamHolds, KiteStream!CachedIsNoted, KiteStream!NotedIsStreamed,
       KiteStream!StreamIsNoted
  <2> QED BY <2>2, <2>3
<1>3. Inv => CachedPriceIsStreamed
  BY DEF KiteStream!StreamHolds, KiteStream!CachedIsNoted, KiteStream!NotedIsStreamed,
     KiteStream!StreamIsNoted, KiteStream!Idle, CachedPriceIsStreamed,
     KiteStream!CachedPriceIsStreamed
<1> QED BY <1>1, <1>2, <1>3, PTL DEF Spec

-----------------------------------------------------------------------------
(* Learning: how many trades a learnt word rests on, for any words, any    *)
(* number of trades, failed saves and restarts.  v1 and v2 are the weighted *)
(* words and their counts, v7 the three files, v8 the save that is due, v9 *)
(* the trades, v11 what was seen of a word and v12 the saves lost.         *)

LEMMA LearningInit ==
  ASSUME MinTrades \in Nat \ {0}, MaxTrades \in Nat, Learning!Init
  PROVE  Learning!LearningHolds
<1>1. /\ v1 = {} /\ v2 = [w \in Word |-> 0] /\ v11 = v2
      /\ v7.weighted = {} /\ v7.count = v2
      /\ DOMAIN v7 = {"weighted", "count", "records", "calibration"}
      /\ v8 = "idle" /\ v9 = 0 /\ v12 = 0
  BY DEF Learning!Init, Learning!Nothing
<1> QED BY <1>1 DEF Learning!LearningHolds, Learning!CountsFollow, Learning!WeightsFollow,
     Learning!Due, Learning!Least

(* A trade counts each word once, in memory and in what was seen, and the  *)
(* save of the words is due.                                               *)
LEMMA TradeLearns ==
  ASSUME MinTrades \in Nat \ {0}, MaxTrades \in Nat, Learning!LearningHolds, Learning!TradeClosed
  PROVE  Learning!LearningHolds'
<1>1. PICK words \in SUBSET Word :
        LET one == [w \in Word |-> IF w \in words THEN 1 ELSE 0]
        IN /\ v2' = [w \in Word |-> v2[w] + one[w]]
           /\ v11' = [w \in Word |-> v11[w] + one[w]]
           /\ v1' = v1 \cup Learning!Ripe(words, v2')
  BY DEF Learning!TradeClosed
<1>2. /\ v8 = "idle" /\ v8' = "words" /\ v9 < MaxTrades /\ v9' = v9 + 1
      /\ UNCHANGED <<v7, v12>>
  BY DEF Learning!TradeClosed
<1>3. {v2', v11', v7'.count} \subseteq [Word -> Nat] /\ v9' \in 0..MaxTrades
  BY <1>1, <1>2 DEF Learning!LearningHolds, Learning!CountsFollow
<1>4. ASSUME NEW w \in Word
      PROVE  /\ v2[w] \in Nat /\ v11[w] \in Nat /\ v7.count[w] \in Nat
             /\ v2[w] <= v11[w] /\ v11[w] <= v2[w] + v12
             /\ v7.count[w] <= v11[w] /\ v11[w] <= v7.count[w] + v12 /\ v11[w] <= v9
  BY <1>2 DEF Learning!LearningHolds, Learning!CountsFollow, Learning!WeightsFollow,
     Learning!Due, Learning!Least
<1>5. ASSUME NEW w \in Word
      PROVE  \/ w \in words /\ v2'[w] = v2[w] + 1 /\ v11'[w] = v11[w] + 1
             \/ w \notin words /\ v2'[w] = v2[w] /\ v11'[w] = v11[w]
  BY <1>1, <1>4
<1>6. Learning!CountsFollow'
  BY <1>2, <1>3, <1>4, <1>5 DEF Learning!LearningHolds, Learning!CountsFollow, Learning!WeightsFollow,
     Learning!Due, Learning!Least
<1>7. ASSUME NEW w \in Word
      PROVE  /\ w \in v1' \cup v7'.weighted => v11'[w] >= Learning!Least(w)
             /\ v2'[w] >= Learning!Least(w) => w \in v1'
             /\ v7'.count[w] >= Learning!Least(w) => w \in v7'.weighted
  <2>1. /\ w \in v1 \cup v7.weighted => v11[w] >= Learning!Least(w)
        /\ v2[w] >= Learning!Least(w) => w \in v1
        /\ v7.count[w] >= Learning!Least(w) => w \in v7.weighted
    BY DEF Learning!LearningHolds, Learning!WeightsFollow
  <2>2. w \in Learning!Ripe(words, v2') <=> w \in words /\ (w \in Base \/ v2'[w] >= MinTrades)
    BY DEF Learning!Ripe
  <2>3. Learning!Least(w) = (IF w \in Base THEN 1 ELSE MinTrades)
    BY DEF Learning!Least
  <2> QED BY <1>1, <1>2, <1>4, <1>5, <2>1, <2>2, <2>3
<1> QED BY <1>2, <1>6, <1>7 DEF Learning!LearningHolds, Learning!WeightsFollow

LEMMA SaveLearns ==
  ASSUME MinTrades \in Nat \ {0}, MaxTrades \in Nat, Learning!LearningHolds,
         Learning!SaveWords \/ Learning!SaveRecords \/ Learning!SaveCalibration
  PROVE  Learning!LearningHolds'
<1>1. UNCHANGED <<v1, v2, v9, v11>>
  BY DEF Learning!SaveWords, Learning!SaveRecords, Learning!SaveCalibration, Learning!memory
<1>2. CASE Learning!SaveWords
  <2>1. v8 = "words" /\ v8' = "records"
    BY <1>2 DEF Learning!SaveWords
  <2>2. CASE v7' = [v7 EXCEPT !.weighted = v1, !.count = v2] /\ v12' = v12
    <3>1. v7'.weighted = v1 /\ v7'.count = v2 /\ DOMAIN v7' = DOMAIN v7
      BY <2>2 DEF Learning!LearningHolds
    <3> QED BY <1>1, <2>1, <2>2, <3>1 DEF Learning!LearningHolds, Learning!CountsFollow, Learning!WeightsFollow,
     Learning!Due, Learning!Least
  <2>3. CASE v7' = v7 /\ v12' = v12 + 1
    BY <1>1, <2>1, <2>3 DEF Learning!LearningHolds, Learning!CountsFollow, Learning!WeightsFollow,
     Learning!Due, Learning!Least
  <2> QED BY <1>2, <2>2, <2>3 DEF Learning!SaveWords
<1>3. CASE Learning!SaveRecords \/ Learning!SaveCalibration
  <2>1. /\ v8 # "words" /\ v8' # "words" /\ v12' = v12
        /\ v7'.weighted = v7.weighted /\ v7'.count = v7.count /\ DOMAIN v7' = DOMAIN v7
    BY <1>3 DEF Learning!SaveRecords, Learning!SaveCalibration, Learning!LearningHolds
  <2> QED BY <1>1, <2>1 DEF Learning!LearningHolds, Learning!CountsFollow, Learning!WeightsFollow,
     Learning!Due, Learning!Least
<1> QED BY <1>2, <1>3

(* The next process has the counts of the file, or, when it could not be   *)
(* read, none: then every trade counts as lost.                            *)
LEMMA RestartLearns ==
  ASSUME MinTrades \in Nat \ {0}, MaxTrades \in Nat, Learning!LearningHolds, Learning!Restart
  PROVE  Learning!LearningHolds'
<1>1. v8' = "idle" /\ UNCHANGED <<v7, v9, v11>>
  BY DEF Learning!Restart
<1>2. CASE v1' = {} /\ v2' = [w \in Word |-> 0] /\ v12' = MaxTrades
  BY <1>1, <1>2 DEF Learning!LearningHolds, Learning!CountsFollow, Learning!WeightsFollow,
     Learning!Due, Learning!Least
<1>3. CASE v1' = v7.weighted /\ v2' = v7.count /\ v12' = v12 + Learning!Due
  BY <1>1, <1>3 DEF Learning!LearningHolds, Learning!CountsFollow, Learning!WeightsFollow,
     Learning!Due, Learning!Least
<1>4. \/ v1' = {} /\ v2' = [w \in Word |-> 0] /\ v12' = MaxTrades
      \/ v1' = v7.weighted /\ v2' = v7.count /\ v12' = v12 + Learning!Due
  <2>1. PICK unread \in SUBSET {"words", "records", "calibration"} :
          LET words == IF "words" \in unread THEN Learning!Nothing ELSE Learning!LoadedWords
          IN /\ v1' = words.weighted /\ v2' = words.count
             /\ v12' = IF "words" \in unread THEN MaxTrades ELSE v12 + Learning!Due
    BY DEF Learning!Restart
  <2>2. CASE "words" \in unread
    <3>1. v1' = Learning!Nothing.weighted /\ v2' = Learning!Nothing.count
      BY <2>1, <2>2
    <3>2. v12' = MaxTrades
      BY <2>1, <2>2
    <3> QED BY <3>1, <3>2 DEF Learning!Nothing
  <2>3. CASE "words" \notin unread
    <3>1. v1' = v7.weighted /\ v2' = v7.count
      BY <2>1, <2>3 DEF Learning!LoadedWords
    <3>2. v12' = v12 + Learning!Due
      BY <2>1, <2>3
    <3> QED BY <3>1, <3>2
  <2> QED BY <2>2, <2>3
<1> QED BY <1>2, <1>3, <1>4

LEMMA LearningStep ==
  ASSUME MinTrades \in Nat \ {0}, MaxTrades \in Nat, Learning!LearningHolds, NextLearning
  PROVE  Learning!LearningHolds'
  BY TradeLearns, SaveLearns, RestartLearns DEF NextLearning

LEMMA LearningKept == Spec => [](focus = "learning" => Learning!LearningHolds)
<1> DEFINE Inv == focus = "learning" => Learning!LearningHolds
<1>1. Init => Inv
  BY LearningAssumption, WhoStarts, LearningInit DEF Init, InitLearning
<1>2. Inv /\ [Next]_vars => Inv'
  <2> SUFFICES ASSUME Inv, [Next]_vars, focus' = "learning" PROVE Learning!LearningHolds'
    OBVIOUS
  <2>1. Learning!LearningHolds
    BY FocusStays
  <2>2. CASE Next
    BY <2>1, <2>2, LearningAssumption, WhoSteps, LearningStep DEF Next
  <2>3. CASE UNCHANGED vars
    BY <2>1, <2>3 DEF vars, Learning!LearningHolds, Learning!CountsFollow, Learning!WeightsFollow,
       Learning!Due, Learning!Least
  <2> QED BY <2>2, <2>3
<1> QED BY <1>1, <1>2, PTL DEF Spec

(* A word that learning_engine.py gives a weight was in enough trades, and *)
(* one that was in enough has a weight, but for those lost with a save or  *)
(* a file.                                                                 *)
THEOREM LearntFromTrades == Spec => []LearntFromEnoughTrades
<1> DEFINE Inv == focus = "learning" => Learning!LearningHolds
<1>1. Inv => LearntFromEnoughTrades
  <2> SUFFICES ASSUME Learning!LearningHolds, NEW w \in Word
               PROVE  /\ w \in v1 => v11[w] >= Learning!Least(w)
                      /\ v11[w] >= Learning!Least(w) + v12 => w \in v1
    BY DEF LearntFromEnoughTrades, Learning!LearntFromEnoughTrades
  <2>1. Learning!Least(w) \in Nat
    BY LearningAssumption DEF Learning!Least
  <2> QED BY <2>1 DEF Learning!LearningHolds, Learning!CountsFollow, Learning!WeightsFollow
<1> QED BY <1>1, LearningKept, PTL

-----------------------------------------------------------------------------
(* TradeLedger: the net figure beside the gross one, for any prices and    *)
(* quantities, any number of sales and crashes.  v2 are the fills, v3 the  *)
(* rows, v5 whether the figures are migrated, v6 where each process is,    *)
(* v7 the backfill's plan, v8 whether a correction came between a          *)
(* migration's read and its write.                                         *)

(* A known gross figure has a net one, an unknown one has none.            *)
LEMMA NetFigure ==
  ASSUME NEW pnl \in Seq(Int), NEW notional \in Int
  PROVE  /\ TradeLedger!NetPnl(pnl, notional) \in TradeLedger!Figure
         /\ TradeLedger!NetPnl(pnl, notional) = TradeLedger!NoNet <=> pnl = TradeLedger!Unknown
<1>1. <<"billed", pnl, notional>> # << >>
  OBVIOUS
<1> QED BY <1>1 DEF TradeLedger!NetPnl, TradeLedger!Net, TradeLedger!NoNet, TradeLedger!Unknown, TradeLedger!Figure

LEMMA TradeLedgerInit ==
  ASSUME Price \subseteq Int, Qty \subseteq Int, Cost \in Int, TradeLedger!Init
  PROVE  TradeLedger!LedgerHolds
<1>1. PICK q \in Qty, p \in Price, quote \in Price :
        /\ v2 = <<[qty |-> q, price |-> p, at |-> 0]>>
        /\ v3 = <<TradeLedger!Row(1, quote, <<(quote - Cost) * v2[1].qty>>,
                    IF v4 THEN TradeLedger!Net("older", <<(quote - Cost) * v2[1].qty>>, v2[1].qty * quote)
                    ELSE TradeLedger!NoNet)>>
  BY DEF TradeLedger!Init
<1> DEFINE pnl == <<(quote - Cost) * q>>
           net == IF v4 THEN <<"older", pnl, q * quote>> ELSE << >>
           row == [of |-> 1, qty |-> q, price |-> quote, pnl |-> pnl, net |-> net, at |-> 0]
<1>2. v1 = 0 /\ v2[1].qty = q
  BY <1>1 DEF TradeLedger!Init
<1>3. v3 = <<row>>
  BY <1>1, <1>2 DEF TradeLedger!Row, TradeLedger!Net, TradeLedger!NoNet
<1>4. q \in Int /\ quote \in Int /\ q * quote \in Int /\ pnl \in Seq(Int) /\ pnl # << >>
  OBVIOUS
<1>5. net \in TradeLedger!Figure
  BY <1>4 DEF TradeLedger!NoNet, TradeLedger!Figure
<1>6. row \in TradeLedger!LedgerRow /\ row.pnl # << >>
  <2> HIDE DEF pnl, net
  <2> QED BY <1>4, <1>5 DEF TradeLedger!LedgerRow
<1> HIDE DEF row
<1>7. v3 \in Seq(TradeLedger!LedgerRow) /\ \A i \in DOMAIN v3 : v3[i].pnl # << >>
  BY <1>3, <1>6
<1>8. v2 \in Seq(TradeLedger!Fill)
  BY <1>1 DEF TradeLedger!Fill
<1>9. \A r \in TradeLedger!Process : v6[r] = TradeLedger!Down
  BY DEF TradeLedger!Init
<1>10. TradeLedger!Down.at = "down" /\ TradeLedger!Up.at = "up" /\ DOMAIN TradeLedger!Down.nets = {}
  BY DEF TradeLedger!Down, TradeLedger!Up
<1>11. TradeLedger!UpIsMigrated
  BY <1>9, <1>10 DEF TradeLedger!UpIsMigrated
<1> QED BY <1>2, <1>7, <1>8, <1>9, <1>10, <1>11 DEF TradeLedger!Init, TradeLedger!LedgerHolds, TradeLedger!LedgerTypeOK,
        TradeLedger!UnknownHasNoNet, TradeLedger!Unknown

-----------------------------------------------------------------------------
(* The steps that leave the rows and the processes as they are.            *)
LEMMA RowsAlone ==
  ASSUME TradeLedger!LedgerHolds, UNCHANGED <<v3, v5, v6, v8>>, v1' \in Nat,
         v2' \in Seq(TradeLedger!Fill), \A c \in v7' : c.fill \in DOMAIN v2'
  PROVE  TradeLedger!LedgerHolds'
  BY DEF TradeLedger!LedgerHolds, TradeLedger!LedgerTypeOK, TradeLedger!UnknownHasNoNet, TradeLedger!UpIsMigrated,
         TradeLedger!MigrationIsCurrent, TradeLedger!RightRow, TradeLedger!NetOf, TradeLedger!NetPnl

LEMMA SaleAlone ==
  ASSUME TradeLedger!LedgerHolds, TradeLedger!SaleFills \/ TradeLedger!Tick \/ TradeLedger!Plan
  PROVE  TradeLedger!LedgerHolds'
<1>1. v1 \in Nat /\ v2 \in Seq(TradeLedger!Fill)
  BY DEF TradeLedger!LedgerHolds, TradeLedger!LedgerTypeOK
<1>2. UNCHANGED <<v3, v5, v6, v8>>
  BY DEF TradeLedger!SaleFills, TradeLedger!Tick, TradeLedger!Plan
<1>3. v1' \in Nat
  BY <1>1 DEF TradeLedger!SaleFills, TradeLedger!Tick, TradeLedger!Plan
<1>4. v2' \in Seq(TradeLedger!Fill)
  <2>1. CASE TradeLedger!SaleFills
    <3>1. PICK q \in Qty, p \in Price : v2' = Append(v2, [qty |-> q, price |-> p, at |-> v1])
      BY <2>1 DEF TradeLedger!SaleFills, TradeLedger!Sale
    <3>2. [qty |-> q, price |-> p, at |-> v1] \in TradeLedger!Fill
      BY <1>1 DEF TradeLedger!Fill
    <3> QED BY <1>1, <3>1, <3>2
  <2>2. CASE TradeLedger!Tick \/ TradeLedger!Plan
    BY <1>1, <2>2 DEF TradeLedger!Tick, TradeLedger!Plan
  <2> QED BY <2>1, <2>2
<1>5. \A c \in v7' : c.fill \in DOMAIN v2'
  <2>1. CASE TradeLedger!SaleFills
    <3>1. v7' = v7 /\ \E r : v2' = Append(v2, r)
      BY <2>1 DEF TradeLedger!SaleFills, TradeLedger!Sale
    <3> QED BY <1>1, <3>1 DEF TradeLedger!LedgerHolds, TradeLedger!LedgerTypeOK
  <2>2. CASE TradeLedger!Tick
    BY <2>2 DEF TradeLedger!Tick, TradeLedger!LedgerHolds, TradeLedger!LedgerTypeOK
  <2>3. CASE TradeLedger!Plan
    BY <2>3 DEF TradeLedger!Plan
  <2> QED BY <2>1, <2>2, <2>3
<1> QED BY <1>2, <1>3, <1>4, <1>5, RowsAlone

(* A sale is recorded with its figure.                                     *)
LEMMA InsertRight ==
  ASSUME Price \subseteq Int, Qty \subseteq Int, Cost \in Int, TradeLedger!LedgerHolds, TradeLedger!Insert
  PROVE  TradeLedger!LedgerHolds'
<1>1. /\ v1 \in Nat /\ v3 \in Seq(TradeLedger!LedgerRow)
      /\ v2 \in Seq(TradeLedger!Fill)
  BY DEF TradeLedger!LedgerHolds, TradeLedger!LedgerTypeOK
<1>2. UNCHANGED <<v1, v2, v5, v6, v7, v8>>
  BY DEF TradeLedger!Insert
<1>3. PICK row \in TradeLedger!LedgerRow : v3' = Append(v3, row) /\ row.net = TradeLedger!NetOf(row)
  <2>1. PICK f \in DOMAIN v2, q \in Qty, price \in Int, pnl \in Seq(Int) :
          v3' = Append(v3, [TradeLedger!Row(f, price, pnl, TradeLedger!NetPnl(pnl, q * price)) EXCEPT !.qty = q])
    <3>1. PICK f \in TradeLedger!Unrecorded, known \in BOOLEAN, q \in Qty :
            LET price == IF known THEN v2[f].price ELSE Cost
                pnl == IF known THEN <<(v2[f].price - Cost) * q>> ELSE TradeLedger!Unknown
            IN v3' = Append(v3, [TradeLedger!Row(f, price, pnl, TradeLedger!NetPnl(pnl, q * price)) EXCEPT !.qty = q])
      BY DEF TradeLedger!Insert
    <3>2. f \in DOMAIN v2 /\ q \in Int
      BY DEF TradeLedger!Unrecorded
    <3>3. v2[f] \in TradeLedger!Fill
      BY <1>1, <3>2
    <3>4. v2[f].price \in Int
      BY <3>3 DEF TradeLedger!Fill
    <3> DEFINE price == IF known THEN v2[f].price ELSE Cost
               pnl == IF known THEN <<(v2[f].price - Cost) * q>> ELSE TradeLedger!Unknown
    <3>5. price \in Int /\ pnl \in Seq(Int)
      BY <3>2, <3>4 DEF TradeLedger!Unknown
    <3> QED BY <3>1, <3>2, <3>5
  <2> DEFINE net == TradeLedger!NetPnl(pnl, q * price)
             row == [of |-> f, qty |-> q, price |-> price, pnl |-> pnl, net |-> net, at |-> v1]
  <2>2. [TradeLedger!Row(f, price, pnl, net) EXCEPT !.qty = q] = row
    BY DEF TradeLedger!Row
  <2>3. q \in Int /\ q * price \in Int /\ f \in Nat
    BY <1>1
  <2>4. net \in TradeLedger!Figure
    BY <2>3, NetFigure
  <2>5. row \in TradeLedger!LedgerRow
    <3> HIDE DEF net
    <3> QED BY <1>1, <2>3, <2>4 DEF TradeLedger!LedgerRow
  <2>6. row.net = TradeLedger!NetOf(row)
    BY DEF TradeLedger!NetOf
  <2> QED BY <2>1, <2>2, <2>5, <2>6
<1>4. /\ v3' \in Seq(TradeLedger!LedgerRow) /\ DOMAIN v3 \subseteq DOMAIN v3'
      /\ \A i \in DOMAIN v3' : (i \in DOMAIN v3 /\ v3'[i] = v3[i])
                             \/ (i = Len(v3) + 1 /\ v3'[i] = row)
  BY <1>1, <1>3
<1>5. row.pnl = TradeLedger!Unknown => row.net = TradeLedger!NoNet
  BY <1>3 DEF TradeLedger!NetOf, TradeLedger!NetPnl
<1>6. ASSUME ~v8 PROVE TradeLedger!UnknownHasNoNet'
  BY <1>4, <1>5, <1>6 DEF TradeLedger!LedgerHolds, TradeLedger!UnknownHasNoNet
<1>7. ASSUME ~v8, v5 PROVE \A i \in DOMAIN v3' : TradeLedger!RightRow(i)'
  BY <1>3, <1>4, <1>7 DEF TradeLedger!LedgerHolds, TradeLedger!RightRow
<1>8. ASSUME ~v8, NEW p \in TradeLedger!Process, v6[p].at = "migrating"
      PROVE  TradeLedger!MigrationIsCurrent(p)'
  <2>1. TradeLedger!MigrationIsCurrent(p)
    BY <1>8 DEF TradeLedger!LedgerHolds
  <2>2. Len(v3) + 1 \notin DOMAIN v6[p].nets
    BY <1>1 DEF TradeLedger!LedgerHolds, TradeLedger!LedgerTypeOK
  <2> QED BY <1>2, <1>3, <1>4, <2>1, <2>2 DEF TradeLedger!MigrationIsCurrent, TradeLedger!RightRow
<1> QED BY <1>1, <1>2, <1>4, <1>6, <1>7, <1>8 DEF TradeLedger!LedgerHolds, TradeLedger!LedgerTypeOK, TradeLedger!UpIsMigrated

-----------------------------------------------------------------------------
(* Opening the database reads every row there is.                          *)
LEMMA OpenRight ==
  ASSUME TradeLedger!LedgerHolds, NEW p \in TradeLedger!Process, TradeLedger!Open(p)
  PROVE  TradeLedger!LedgerHolds'
<1> DEFINE nets == [i \in DOMAIN v3 |-> TradeLedger!NetPnl(v3[i].pnl, v3[i].qty * v3[i].price)]
<1>1. UNCHANGED <<v1, v2, v3, v5, v7, v8>> /\ DOMAIN v6 = TradeLedger!Process
  BY DEF TradeLedger!Open, TradeLedger!LedgerHolds, TradeLedger!LedgerTypeOK
<1>2. v6' = [v6 EXCEPT ![p] = IF v5 THEN TradeLedger!Up ELSE [at |-> "migrating", nets |-> nets]]
  BY DEF TradeLedger!Open, TradeLedger!Current
<1>3. DOMAIN v6' = TradeLedger!Process /\ \A q \in TradeLedger!Process : q # p => v6'[q] = v6[q]
  BY <1>1, <1>2
<1>4. CASE v5
  <2>1. v6'[p] = TradeLedger!Up
    BY <1>1, <1>2, <1>4
  <2>2. v6'[p].at = "up" /\ DOMAIN v6'[p].nets = {}
    BY <2>1 DEF TradeLedger!Up
  <2> QED BY <1>1, <1>3, <1>4, <2>2 DEF TradeLedger!LedgerHolds, TradeLedger!LedgerTypeOK, TradeLedger!UnknownHasNoNet,
          TradeLedger!UpIsMigrated, TradeLedger!MigrationIsCurrent, TradeLedger!RightRow, TradeLedger!NetOf, TradeLedger!NetPnl
<1>5. CASE ~v5
  <2>1. v6'[p] = [at |-> "migrating", nets |-> nets]
    BY <1>1, <1>2, <1>5
  <2>2. v6'[p].at = "migrating" /\ v6'[p].nets = nets /\ v6'[p] # TradeLedger!Up
    BY <2>1 DEF TradeLedger!Up
  <2>3. DOMAIN nets = DOMAIN v3 /\ \A i \in DOMAIN v3 : nets[i] = TradeLedger!NetOf(v3[i])
    BY DEF TradeLedger!NetOf
  <2> HIDE DEF nets
  <2>4. TradeLedger!MigrationIsCurrent(p)'
    BY <1>1, <2>2, <2>3 DEF TradeLedger!MigrationIsCurrent, TradeLedger!NetOf, TradeLedger!NetPnl
  <2>5. ASSUME NEW i \in DOMAIN v3 PROVE nets[i] \in TradeLedger!Figure
    <3>1. v3[i] \in TradeLedger!LedgerRow
      BY DEF TradeLedger!LedgerHolds, TradeLedger!LedgerTypeOK
    <3>2. v3[i].pnl \in Seq(Int) /\ v3[i].qty * v3[i].price \in Int
      BY <3>1 DEF TradeLedger!LedgerRow
    <3> QED BY <2>3, <3>2, NetFigure DEF TradeLedger!NetOf
  <2>6. ASSUME NEW q \in TradeLedger!Process, q # p, TradeLedger!MigrationIsCurrent(q)
        PROVE  TradeLedger!MigrationIsCurrent(q)'
    BY <1>1, <1>3, <2>6 DEF TradeLedger!MigrationIsCurrent, TradeLedger!RightRow, TradeLedger!NetOf, TradeLedger!NetPnl
  <2> QED BY <1>1, <1>3, <1>5, <2>2, <2>3, <2>4, <2>5, <2>6 DEF TradeLedger!LedgerHolds, TradeLedger!LedgerTypeOK,
          TradeLedger!UnknownHasNoNet, TradeLedger!UpIsMigrated, TradeLedger!RightRow, TradeLedger!NetOf, TradeLedger!NetPnl
<1> QED BY <1>4, <1>5

(* Its transaction leaves every row with its figure.                       *)
LEMMA MigrateRight ==
  ASSUME TradeLedger!LedgerHolds, NEW p \in TradeLedger!Process, TradeLedger!Migrate(p)
  PROVE  TradeLedger!LedgerHolds'
<1> DEFINE Written(i) == i \in DOMAIN v6[p].nets /\ v6[p].nets[i] # TradeLedger!NoNet
<1>1. /\ UNCHANGED <<v1, v2, v7, v8>> /\ v5' /\ v6[p].at = "migrating"
      /\ v6' = [v6 EXCEPT ![p] = TradeLedger!Up]
      /\ v3' = [i \in DOMAIN v3 |->
                 IF Written(i) THEN [v3[i] EXCEPT !.net = v6[p].nets[i]] ELSE v3[i]]
  BY DEF TradeLedger!Migrate
<1>2. /\ v3 \in Seq(TradeLedger!LedgerRow) /\ TradeLedger!LedgerTypeOK
      /\ ~v8 => /\ TradeLedger!UnknownHasNoNet
                /\ \A q \in TradeLedger!Process : v6[q].at = "migrating" => TradeLedger!MigrationIsCurrent(q)
  BY DEF TradeLedger!LedgerHolds, TradeLedger!LedgerTypeOK
<1>3. ASSUME NEW i \in DOMAIN v3
      PROVE  /\ v3'[i] \in TradeLedger!LedgerRow
             /\ v3'[i].pnl = v3[i].pnl /\ TradeLedger!NetOf(v3'[i]) = TradeLedger!NetOf(v3[i])
             /\ v3'[i].net = IF Written(i) THEN v6[p].nets[i] ELSE v3[i].net
  <2>1. v3[i] \in TradeLedger!LedgerRow
    BY <1>2
  <2>2. CASE Written(i)
    <3>1. v3'[i] = [v3[i] EXCEPT !.net = v6[p].nets[i]]
      BY <1>1, <2>2
    <3>2. v6[p].nets[i] \in TradeLedger!Figure
      BY <1>2, <2>2 DEF TradeLedger!LedgerTypeOK
    <3> QED BY <2>1, <2>2, <3>1, <3>2 DEF TradeLedger!LedgerRow, TradeLedger!NetOf
  <2>3. CASE ~Written(i)
    BY <1>1, <2>1, <2>3
  <2> QED BY <2>2, <2>3
<1>4. DOMAIN v3' = DOMAIN v3 /\ v3' \in Seq(TradeLedger!LedgerRow)
  <2>1. DOMAIN v3 = 1..Len(v3) /\ Len(v3) \in Nat
    BY <1>2
  <2>2. v3' = [i \in 1..Len(v3) |-> v3'[i]]
    BY <1>1, <2>1
  <2> QED BY <1>3, <2>1, <2>2
<1>5. DOMAIN v6' = TradeLedger!Process /\ v6'[p] = TradeLedger!Up /\ \A q \in TradeLedger!Process : q # p => v6'[q] = v6[q]
  BY <1>1, <1>2 DEF TradeLedger!LedgerTypeOK
<1>6. TradeLedger!Up.at = "up" /\ DOMAIN TradeLedger!Up.nets = {}
  BY DEF TradeLedger!Up
<1>7. TradeLedger!LedgerTypeOK' /\ TradeLedger!UpIsMigrated'
  BY <1>1, <1>2, <1>4, <1>5, <1>6 DEF TradeLedger!LedgerTypeOK, TradeLedger!UpIsMigrated
<1>8. ASSUME ~v8, NEW i \in DOMAIN v3
      PROVE  TradeLedger!RightRow(i)' /\ (v3'[i].pnl = TradeLedger!Unknown => v3'[i].net = TradeLedger!NoNet)
  <2>1. TradeLedger!MigrationIsCurrent(p) /\ (v3[i].pnl = TradeLedger!Unknown => v3[i].net = TradeLedger!NoNet)
    BY <1>1, <1>2, <1>8 DEF TradeLedger!UnknownHasNoNet
  <2>2. v3[i] \in TradeLedger!LedgerRow
    BY <1>2
  <2>3. v3[i].pnl \in Seq(Int) /\ v3[i].qty * v3[i].price \in Int
    BY <2>2 DEF TradeLedger!LedgerRow
  <2>4. TradeLedger!NetOf(v3[i]) = TradeLedger!NoNet <=> v3[i].pnl = TradeLedger!Unknown
    BY <2>3, NetFigure DEF TradeLedger!NetOf
  <2> QED BY <1>3, <2>1, <2>4 DEF TradeLedger!MigrationIsCurrent, TradeLedger!RightRow
<1>9. ASSUME ~v8, NEW q \in TradeLedger!Process, q # p, TradeLedger!MigrationIsCurrent(q)
      PROVE  TradeLedger!MigrationIsCurrent(q)'
  BY <1>3, <1>4, <1>5, <1>8, <1>9 DEF TradeLedger!MigrationIsCurrent
<1> QED BY <1>1, <1>2, <1>4, <1>5, <1>6, <1>7, <1>8, <1>9 DEF TradeLedger!LedgerHolds, TradeLedger!UnknownHasNoNet

LEMMA CrashRight ==
  ASSUME TradeLedger!LedgerHolds, NEW p \in TradeLedger!Process, TradeLedger!Crash(p)
  PROVE  TradeLedger!LedgerHolds'
<1>1. /\ UNCHANGED <<v1, v2, v3, v5, v8>> /\ DOMAIN v6 = TradeLedger!Process
      /\ v6' = [v6 EXCEPT ![p] = TradeLedger!Down] /\ v7' \subseteq v7
  BY DEF TradeLedger!Crash, TradeLedger!LedgerHolds, TradeLedger!LedgerTypeOK
<1>2. DOMAIN v6' = TradeLedger!Process /\ v6'[p] = TradeLedger!Down /\ \A q \in TradeLedger!Process : q # p => v6'[q] = v6[q]
  BY <1>1
<1>3. TradeLedger!Down.at = "down" /\ DOMAIN TradeLedger!Down.nets = {} /\ TradeLedger!Down # TradeLedger!Up
  BY DEF TradeLedger!Down, TradeLedger!Up
<1> QED BY <1>1, <1>2, <1>3 DEF TradeLedger!LedgerHolds, TradeLedger!LedgerTypeOK, TradeLedger!UnknownHasNoNet,
        TradeLedger!UpIsMigrated, TradeLedger!MigrationIsCurrent, TradeLedger!RightRow, TradeLedger!NetOf, TradeLedger!NetPnl

(* A correction recomputes the figure with the price; one that comes while *)
(* a migration has read and not written is the overlap.                    *)
LEMMA ApplyRight ==
  ASSUME Price \subseteq Int, Qty \subseteq Int, Cost \in Int, TradeLedger!LedgerHolds, TradeLedger!Apply
  PROVE  TradeLedger!LedgerHolds'
<1>1. PICK c \in v7 :
        /\ v7' = v7 \ {c} /\ UNCHANGED <<v1, v2, v5, v6>>
        /\ v3' = [v3 EXCEPT ![c.row] = TradeLedger!Updated(v3[c.row], v2[c.fill].price)]
        /\ v8' = (v8 \/ \E p \in TradeLedger!Process : v6[p].at = "migrating")
  BY DEF TradeLedger!Apply
<1>2. v3 \in Seq(TradeLedger!LedgerRow) /\ v2 \in Seq(TradeLedger!Fill) /\ TradeLedger!LedgerTypeOK
  BY DEF TradeLedger!LedgerHolds, TradeLedger!LedgerTypeOK
<1>3. v2[c.fill].price \in Int
  <2>1. v2[c.fill] \in TradeLedger!Fill
    BY <1>2 DEF TradeLedger!LedgerTypeOK
  <2> QED BY <2>1 DEF TradeLedger!Fill
<1> DEFINE row == v3[c.row]
           price == v2[c.fill].price
           pnl == <<(price - Cost) * row.qty>>
<1>4. ASSUME c.row \in DOMAIN v3
      PROVE  /\ TradeLedger!Updated(row, price) \in TradeLedger!LedgerRow
             /\ TradeLedger!Updated(row, price).pnl # TradeLedger!Unknown
             /\ TradeLedger!Updated(row, price).net = TradeLedger!NetOf(TradeLedger!Updated(row, price))
  <2>1. row \in TradeLedger!LedgerRow
    BY <1>2, <1>4
  <2>2. /\ row.qty \in Int /\ price \in Int /\ row.qty * price \in Int
        /\ pnl \in Seq(Int) /\ pnl # << >>
    <3>1. row.qty \in Int /\ price \in Int
      <4> HIDE DEF row
      <4> QED BY <1>3, <2>1 DEF TradeLedger!LedgerRow
    <3>2. ASSUME NEW x \in Int PROVE <<x>> \in Seq(Int) /\ <<x>> # << >>
      OBVIOUS
    <3> HIDE DEF row, price
    <3>3. (price - Cost) * row.qty \in Int /\ row.qty * price \in Int
      BY <3>1
    <3> QED BY <3>1, <3>2, <3>3
  <2> DEFINE net == TradeLedger!NetPnl(pnl, row.qty * price)
  <2>3. TradeLedger!Updated(row, price) = [row EXCEPT !.price = price, !.pnl = pnl, !.net = net]
    BY DEF TradeLedger!Updated
  <2>4. net \in TradeLedger!Figure
    BY <2>2, NetFigure
  <2>5. row.of \in Nat /\ row.at \in Nat
    BY <2>1 DEF TradeLedger!LedgerRow
  <2>6. TradeLedger!Updated(row, price)
          = [of |-> row.of, qty |-> row.qty, price |-> price, pnl |-> pnl, net |-> net,
             at |-> row.at]
    <3> HIDE DEF net, pnl, price, row
    <3> QED BY <2>1, <2>3 DEF TradeLedger!LedgerRow
  <2> HIDE DEF net, pnl, price, row
  <2>7. /\ TradeLedger!Updated(row, price) \in TradeLedger!LedgerRow
        /\ TradeLedger!Updated(row, price).pnl = pnl /\ TradeLedger!Updated(row, price).net = net
        /\ TradeLedger!Updated(row, price).qty = row.qty /\ TradeLedger!Updated(row, price).price = price
    BY <2>2, <2>4, <2>5, <2>6 DEF TradeLedger!LedgerRow
  <2> QED BY <2>2, <2>7 DEF TradeLedger!NetOf, TradeLedger!Unknown, net
<1>5. /\ DOMAIN v3' = DOMAIN v3 /\ v3' \in Seq(TradeLedger!LedgerRow)
      /\ \A i \in DOMAIN v3 :
           \/ v3'[i] = v3[i]
           \/ v3'[i].pnl # TradeLedger!Unknown /\ v3'[i].net = TradeLedger!NetOf(v3'[i])
  <2> DEFINE new == TradeLedger!Updated(row, price)
  <2>1. v3' = [v3 EXCEPT ![c.row] = new]
    BY <1>1
  <2>2. c.row \in DOMAIN v3 =>
          new \in TradeLedger!LedgerRow /\ new.pnl # TradeLedger!Unknown /\ new.net = TradeLedger!NetOf(new)
    BY <1>4
  <2> HIDE DEF new
  <2>3. /\ DOMAIN v3' = DOMAIN v3 /\ DOMAIN v3 = 1..Len(v3) /\ Len(v3) \in Nat
        /\ \A i \in DOMAIN v3 : v3'[i] = IF i = c.row THEN new ELSE v3[i]
    BY <1>2, <2>1
  <2>4. \A i \in DOMAIN v3 : v3'[i] \in TradeLedger!LedgerRow
    BY <1>2, <2>2, <2>3
  <2>5. v3' = [i \in 1..Len(v3) |-> v3'[i]]
    BY <2>1, <2>3
  <2>6. v3' \in Seq(TradeLedger!LedgerRow)
    BY <2>3, <2>4, <2>5
  <2> QED BY <2>2, <2>3, <2>6
<1>6. TradeLedger!LedgerTypeOK' /\ TradeLedger!UpIsMigrated'
  BY <1>1, <1>2, <1>5 DEF TradeLedger!LedgerHolds, TradeLedger!LedgerTypeOK, TradeLedger!UpIsMigrated
<1>7. ASSUME ~v8'
      PROVE  ~v8 /\ \A p \in TradeLedger!Process : v6'[p].at # "migrating"
  BY <1>1, <1>7, Zenon
<1>8. ASSUME ~v8'
      PROVE  TradeLedger!UnknownHasNoNet' /\ (v5' => \A i \in DOMAIN v3' : TradeLedger!RightRow(i)')
  BY <1>1, <1>5, <1>7, <1>8 DEF TradeLedger!LedgerHolds, TradeLedger!UnknownHasNoNet, TradeLedger!RightRow
<1> QED BY <1>6, <1>7, <1>8 DEF TradeLedger!LedgerHolds

LEMMA TradeLedgerStep ==
  ASSUME Price \subseteq Int, Qty \subseteq Int, Cost \in Int, TradeLedger!LedgerHolds, NextTradeLedger
  PROVE  TradeLedger!LedgerHolds'
  BY SaleAlone, InsertRight, OpenRight, MigrateRight, CrashRight, ApplyRight
     DEF NextTradeLedger

LEMMA LedgerKept == Spec => [](focus = "ledger" => TradeLedger!LedgerHolds)
<1> DEFINE Inv == focus = "ledger" => TradeLedger!LedgerHolds
<1>1. Init => Inv
  BY LedgerAssumption, WhoStarts, TradeLedgerInit DEF Init, InitTradeLedger
<1>2. Inv /\ [Next]_vars => Inv'
  <2> SUFFICES ASSUME Inv, [Next]_vars, focus' = "ledger" PROVE TradeLedger!LedgerHolds'
    OBVIOUS
  <2>1. TradeLedger!LedgerHolds
    BY FocusStays
  <2>2. CASE Next
    BY <2>1, <2>2, LedgerAssumption, WhoSteps, TradeLedgerStep DEF Next
  <2>3. CASE UNCHANGED vars
    BY <2>1, <2>3 DEF vars, TradeLedger!LedgerHolds, TradeLedger!LedgerTypeOK, TradeLedger!UnknownHasNoNet, TradeLedger!UpIsMigrated,
       TradeLedger!MigrationIsCurrent, TradeLedger!RightRow, TradeLedger!NetOf, TradeLedger!NetPnl
  <2> QED BY <2>2, <2>3
<1> QED BY <1>1, <1>2, PTL DEF Spec

(* Once a process has the database of db.py open, the net figure beside a  *)
(* gross one is that of the row as it is, through crashes, two migrations  *)
(* at once and corrections by backfill_pnl.py, unless one of these came    *)
(* between a migration's read and its write.                               *)
THEOREM NetFiguresFollow == Spec => []NetFollowsTheRow
<1> DEFINE Inv == focus = "ledger" => TradeLedger!LedgerHolds
<1>1. Inv => NetFollowsTheRow
  BY DEF TradeLedger!LedgerHolds, TradeLedger!UpIsMigrated, TradeLedger!RightRow,
     TradeLedger!NetOf, NetFollowsTheRow, TradeLedger!NetFollowsTheRow
<1> QED BY <1>1, LedgerKept, PTL

-----------------------------------------------------------------------------
(* DayPnl: what the comparison of the day's profit with the trade log      *)
(* means, for any prices and sums and any number of moves, faults and new  *)
(* processes.  v1 is the evening, v3 the price, v4 and v6 what the share   *)
(* held cost and the last one sold for, v7 the change of equity, v10 the   *)
(* transfers looked up, v11 what the running sync was told, v12 the book,  *)
(* v14 and v15 the rows of today, v16 the warning, v17 to v19 its excuses. *)

LEMMA DayPnlInit == DayPnl!Init => DayPnl!DayIsAccounted
  BY MoneyAssumption, LedgerAssumption
     DEF DayPnl!Init, DayPnl!DayIsAccounted, DayPnl!Figures, DayPnl!EveningIsQuiet, DayPnl!TransfersAreDated,
         DayPnl!SummaryIsCurrent, DayPnl!GainsAreRecorded, DayPnl!Gained, DayPnl!Holds, DayPnl!Pending,
         DayPnl!Idle, DayPnl!None, DayPnl!AlarmMeansMisrecording

LEMMA FiguresAreIntegers ==
  ASSUME DayPnl!Figures
  PROVE  /\ v3 \in Int /\ v4 \in Int /\ v6 \in Int /\ v12 \in Int
         /\ v7 \in Int /\ v8 \in Int /\ v9 \in Int /\ v14 \in Int
         /\ DayPnl!Gained \in Int
<1>1. /\ v3 \in Price /\ v4 \in Price \cup {0} /\ v6 \in Price \cup {0} /\ v12 \in Price \cup {0}
      /\ v7 \in Int /\ v8 \in Int /\ v9 \in Int /\ v14 \in Int
  BY DEF DayPnl!Figures, DayPnl!None
<1>2. v3 \in Int /\ v4 \in Int /\ v6 \in Int /\ v12 \in Int
  BY <1>1, LedgerAssumption
<1> QED BY <1>1, <1>2 DEF DayPnl!Gained

(* The market moves what is held; the hidden symbol and money from outside *)
(* are excuses.                                                            *)
LEMMA PriceAccounted ==
  ASSUME DayPnl!DayIsAccounted, DayPnl!PriceMoves
  PROVE  DayPnl!DayIsAccounted'
<1>1. PICK p \in Price \ {v3} :
        /\ v3' = p /\ v7' = IF DayPnl!Holds THEN v7 + p - v3 ELSE v7
        /\ v19' = (v19 \/ (v11 # DayPnl!Idle /\ DayPnl!Holds))
  BY DEF DayPnl!PriceMoves
<1>2. /\ ~v1 /\ UNCHANGED <<v1, v2, v4, v5, v6, v8, v9, v10, v11, v12, v13, v14, v15, v16, v17, v18>>
      /\ v7' \in Int
  BY DEF DayPnl!PriceMoves, DayPnl!Session, DayPnl!tracker
<1>3. ~v19' => ~v19 /\ (v11 = DayPnl!Idle \/ ~DayPnl!Holds)
  BY <1>1, Zenon
<1>4. DayPnl!Figures' /\ DayPnl!EveningIsQuiet' /\ DayPnl!TransfersAreDated'
  BY <1>1, <1>2 DEF DayPnl!DayIsAccounted, DayPnl!Figures, DayPnl!EveningIsQuiet, DayPnl!TransfersAreDated, DayPnl!Holds
<1>5. DayPnl!SummaryIsCurrent'
  BY <1>1, <1>2, <1>3 DEF DayPnl!DayIsAccounted, DayPnl!SummaryIsCurrent, DayPnl!Idle
<1>6. DayPnl!GainsAreRecorded'
  <2>1. DayPnl!Gained' = IF DayPnl!Holds THEN DayPnl!Gained + p - v3 ELSE DayPnl!Gained
    <3>1. v3 \in Int /\ p \in Int /\ v4 \in Int
      BY LedgerAssumption, FiguresAreIntegers DEF DayPnl!DayIsAccounted
    <3> QED BY <1>1, <1>2, <3>1 DEF DayPnl!Gained, DayPnl!Holds, DayPnl!Pending
  <2>2. v7 \in Int /\ v14 \in Int /\ v3 \in Int /\ p \in Int /\ DayPnl!Gained \in Int
    BY LedgerAssumption, FiguresAreIntegers DEF DayPnl!DayIsAccounted
  <2> QED BY <1>1, <1>2, <2>1, <2>2 DEF DayPnl!DayIsAccounted, DayPnl!GainsAreRecorded
<1>7. DayPnl!AlarmMeansMisrecording'
  BY <1>2, <1>3 DEF DayPnl!DayIsAccounted, DayPnl!AlarmMeansMisrecording
<1> QED BY <1>4, <1>5, <1>6, <1>7 DEF DayPnl!DayIsAccounted

LEMMA FlowAccounted ==
  ASSUME DayPnl!DayIsAccounted, DayPnl!FlowMoves
  PROVE  DayPnl!DayIsAccounted'
<1>1. /\ ~v1 /\ v18' = TRUE /\ v7' \in Int
      /\ UNCHANGED <<v1, v3, v4, v5, v6, v8, v9, v11, v12, v13, v14, v15>>
  BY DEF DayPnl!FlowMoves, DayPnl!Session, DayPnl!tracker
<1> QED BY <1>1 DEF DayPnl!DayIsAccounted, DayPnl!Figures, DayPnl!EveningIsQuiet, DayPnl!TransfersAreDated,
          DayPnl!SummaryIsCurrent, DayPnl!GainsAreRecorded, DayPnl!AlarmMeansMisrecording, DayPnl!Holds

LEMMA MoneyAccounted ==
  ASSUME DayPnl!DayIsAccounted, DayPnl!MoneyMoves
  PROVE  DayPnl!DayIsAccounted'
<1>1. PICK a \in Amount :
        v8' = v8 + a /\ v9' = v9 + a /\ v8' \in Int /\ v9' \in Int
  BY DEF DayPnl!MoneyMoves
<1>2. /\ UNCHANGED <<v1, v2, v3, v4, v5, v6, v7, v10, v11, v12, v13, v14, v15, v16, v17, v19>>
      /\ v18' = (v18 \/ v10 # << >> \/ v11 # DayPnl!Idle)
  BY DEF DayPnl!MoneyMoves, DayPnl!tracker
<1>3. ~v18' => ~v18 /\ v10 = << >> /\ v11 = DayPnl!Idle
  BY <1>2, Zenon
<1>4. DayPnl!TransfersAreDated'
  BY <1>1, <1>2, <1>3 DEF DayPnl!DayIsAccounted, DayPnl!TransfersAreDated
<1>5. DayPnl!Figures' /\ DayPnl!EveningIsQuiet' /\ DayPnl!SummaryIsCurrent' /\ DayPnl!AlarmMeansMisrecording'
  BY <1>1, <1>2, <1>3 DEF DayPnl!DayIsAccounted, DayPnl!Figures, DayPnl!EveningIsQuiet, DayPnl!SummaryIsCurrent,
     DayPnl!AlarmMeansMisrecording, DayPnl!Holds
<1>6. DayPnl!GainsAreRecorded'
  BY <1>2, <1>3 DEF DayPnl!DayIsAccounted, DayPnl!GainsAreRecorded, DayPnl!Gained, DayPnl!Holds, DayPnl!Pending
<1> QED BY <1>4, <1>5, <1>6 DEF DayPnl!DayIsAccounted

(* A purchase gains nothing yet; a sale gains what its share had gained,   *)
(* and is pending if the book knew of the share.                           *)
LEMMA BuyAccounted ==
  ASSUME DayPnl!DayIsAccounted, DayPnl!BuyFills
  PROVE  DayPnl!DayIsAccounted'
<1>1. /\ ~v1 /\ ~DayPnl!Holds /\ v4' = v3 /\ v5' = FALSE /\ v17' = (v17 \/ DayPnl!Pending)
      /\ UNCHANGED <<v1, v2, v3, v6, v7, v8, v9, v10, v11, v12, v13, v14, v15, v16, v18, v19>>
  BY DEF DayPnl!BuyFills, DayPnl!Session, DayPnl!tracker
<1>2. ~v17' => ~v17 /\ ~DayPnl!Pending
  BY <1>1, Zenon
<1>3. v3 \in Price /\ v3 # 0 /\ v3 \in Int
  BY MoneyAssumption, LedgerAssumption DEF DayPnl!DayIsAccounted, DayPnl!Figures
<1>4. DayPnl!Holds' /\ ~v5
  BY <1>1, <1>3 DEF DayPnl!Holds, DayPnl!None, DayPnl!DayIsAccounted, DayPnl!Figures
<1>5. DayPnl!Figures' /\ DayPnl!EveningIsQuiet' /\ DayPnl!TransfersAreDated' /\ DayPnl!SummaryIsCurrent'
  BY <1>1, <1>3, <1>4 DEF DayPnl!DayIsAccounted, DayPnl!Figures, DayPnl!EveningIsQuiet, DayPnl!TransfersAreDated,
     DayPnl!SummaryIsCurrent
<1>6. DayPnl!GainsAreRecorded'
  <2>1. ~v17' => DayPnl!Gained = 0 /\ DayPnl!Gained' = 0
    BY <1>1, <1>2, <1>3, <1>4 DEF DayPnl!Gained
  <2> QED BY <1>1, <1>2, <1>4, <2>1 DEF DayPnl!DayIsAccounted, DayPnl!GainsAreRecorded
<1>7. DayPnl!AlarmMeansMisrecording'
  BY <1>1, <1>2 DEF DayPnl!DayIsAccounted, DayPnl!AlarmMeansMisrecording
<1> QED BY <1>5, <1>6, <1>7 DEF DayPnl!DayIsAccounted

LEMMA SaleAccounted ==
  ASSUME DayPnl!DayIsAccounted, DayPnl!SellFills
  PROVE  DayPnl!DayIsAccounted'
<1>1. /\ ~v1 /\ DayPnl!Holds /\ v4' = DayPnl!None /\ v5' = FALSE /\ v6' = v3
      /\ v18' = (v18 \/ v5) /\ v17' = (v17 \/ v12 # v4 \/ v13)
      /\ UNCHANGED <<v1, v2, v3, v7, v8, v9, v10, v11, v12, v13, v14, v15, v16, v19>>
  BY DEF DayPnl!SellFills, DayPnl!Session, DayPnl!tracker
<1>2. (~v18' => ~v18 /\ ~v5) /\ (~v17' => ~v17 /\ v12 = v4 /\ ~v13)
  BY <1>1, Zenon
<1>3. DayPnl!Figures' /\ DayPnl!EveningIsQuiet' /\ DayPnl!TransfersAreDated' /\ DayPnl!SummaryIsCurrent'
  BY <1>1, <1>2 DEF DayPnl!DayIsAccounted, DayPnl!Figures, DayPnl!EveningIsQuiet, DayPnl!TransfersAreDated,
     DayPnl!SummaryIsCurrent
<1>4. ~v17' => DayPnl!Gained' = DayPnl!Gained
  BY <1>1, <1>2 DEF DayPnl!Gained, DayPnl!Holds, DayPnl!Pending
<1>5. DayPnl!GainsAreRecorded'
  BY <1>1, <1>2, <1>4 DEF DayPnl!DayIsAccounted, DayPnl!GainsAreRecorded
<1>6. DayPnl!AlarmMeansMisrecording'
  BY <1>1, <1>2 DEF DayPnl!DayIsAccounted, DayPnl!AlarmMeansMisrecording
<1> QED BY <1>3, <1>5, <1>6 DEF DayPnl!DayIsAccounted

(* What a sync is told: without the money of today, if the lookup worked.  *)
LEMMA SummaryAccounted ==
  ASSUME DayPnl!DayIsAccounted, DayPnl!Summary
  PROVE  DayPnl!DayIsAccounted'
<1>1. /\ ~v1 /\ v16' = FALSE
      /\ UNCHANGED <<v1, v2, v3, v4, v5, v6, v7, v8, v9, v12, v13, v14, v15, v17, v18>>
  BY DEF DayPnl!Summary, DayPnl!Session, DayPnl!account
<1>2. v7 \in Int /\ v8 \in Int /\ v9 \in Int
  BY DEF DayPnl!DayIsAccounted, DayPnl!Figures
<1>3. ~v18 => v8 = v9 /\ (v10 # << >> => v10 = <<v9>>)
  BY <1>1 DEF DayPnl!DayIsAccounted, DayPnl!TransfersAreDated
<1>4. /\ ~v18 /\ v10' # << >> => v10' = <<v9>>
      /\ ~v18 /\ ~v19' /\ ~v2 /\ v11'.at = "known" => v11'.pnl = v7
  <2>1. CASE v11' = DayPnl!Empty /\ v10' = v10
    BY <1>3, <2>1 DEF DayPnl!Empty
  <2>2. ASSUME NEW found \in BOOLEAN,
               v10' = DayPnl!Lookup(found), v19' = (v10 = << >> /\ ~found),
               v11' = [at |-> "known",
                       pnl |-> (IF v2 THEN 0 ELSE v7 + v8) - (IF DayPnl!Lookup(found) = << >> THEN 0 ELSE DayPnl!Lookup(found)[1])]
        PROVE  /\ ~v18 /\ v10' # << >> => v10' = <<v9>>
               /\ ~v18 /\ ~v19' /\ ~v2 /\ v11'.at = "known" => v11'.pnl = v7
    <3>1. ~v18 => DayPnl!Lookup(found) \in {<< >>, <<v9>>}
      BY <1>3 DEF DayPnl!Lookup
    <3>2. ~v18 /\ ~v19' => DayPnl!Lookup(found) = <<v9>>
      <4>1. ~v19' => v10 # << >> \/ found
        BY <2>2, Zenon
      <4> QED BY <1>3, <4>1 DEF DayPnl!Lookup
    <3>3. ~v18 /\ ~v19' /\ ~v2 => v11'.pnl = (v7 + v8) - v9
      <4>1. <<v9>> # << >> /\ <<v9>>[1] = v9
        OBVIOUS
      <4> QED BY <2>2, <3>2, <4>1
    <3> QED BY <1>2, <1>3, <2>2, <3>1, <3>3
  <2> QED BY <2>1, <2>2 DEF DayPnl!Summary
<1>5. DayPnl!EveningIsQuiet' /\ DayPnl!TransfersAreDated' /\ DayPnl!SummaryIsCurrent' /\ DayPnl!AlarmMeansMisrecording'
  BY <1>1, <1>3, <1>4 DEF DayPnl!EveningIsQuiet, DayPnl!TransfersAreDated, DayPnl!SummaryIsCurrent, DayPnl!AlarmMeansMisrecording
<1>6. DayPnl!Figures' /\ DayPnl!GainsAreRecorded'
  BY <1>1 DEF DayPnl!DayIsAccounted, DayPnl!Figures, DayPnl!GainsAreRecorded, DayPnl!Gained, DayPnl!Holds, DayPnl!Pending
<1> QED BY <1>5, <1>6 DEF DayPnl!DayIsAccounted

(* The comparison: a sale that is recorded moves its gain into the log, so *)
(* that flat, and with no excuse, the log has what the summary told.       *)
LEMMA RecordAccounted ==
  ASSUME DayPnl!DayIsAccounted, v12' = v4, v4' = v4, v3' = v3, v6' = v6,
         IF ~v13 /\ DayPnl!Pending THEN DayPnl!RecordSale ELSE UNCHANGED <<v14, v15, v17>>
  PROVE  /\ {v14'} \subseteq Int /\ v15' \in Nat
         /\ ~v17' => ~v17
         /\ ~v17' /\ v15' = 0 => v15 = 0 /\ v14' + DayPnl!Gained' = v14 + DayPnl!Gained
<1>1. /\ v3 \in Int /\ v4 \in Int /\ v6 \in Int /\ v12 \in Int /\ v14 \in Int /\ DayPnl!Gained \in Int
      /\ v15 \in Nat
  BY FiguresAreIntegers DEF DayPnl!DayIsAccounted, DayPnl!Figures
<1>2. CASE ~v13 /\ DayPnl!Pending
  <2>1. DayPnl!Gained = v6 - v12 /\ DayPnl!Gained' = 0
    BY <1>2 DEF DayPnl!Gained, DayPnl!Holds, DayPnl!Pending
  <2>2. CASE v15' = v15 + 1 /\ UNCHANGED <<v14, v17>>
    BY <1>1, <2>2
  <2>3. CASE v15' = v15 /\ \E p \in Price : /\ v14' = v14 + p - v12 /\ v14' \in -MaxPnl..MaxPnl
                                            /\ v17' = (v17 \/ p # v6)
    <3>1. PICK p \in Price : v14' = v14 + p - v12 /\ v14' \in -MaxPnl..MaxPnl /\ v17' = (v17 \/ p # v6)
      BY <2>3
    <3>2. ~v17' => ~v17 /\ p = v6
      BY <3>1, Zenon
    <3> QED BY <1>1, <2>1, <2>3, <3>1, <3>2
  <2> QED BY <1>2, <2>2, <2>3 DEF DayPnl!RecordSale
<1>3. CASE v13 \/ ~DayPnl!Pending
  <2>1. ~DayPnl!Pending
    BY <1>3 DEF DayPnl!DayIsAccounted, DayPnl!Figures, DayPnl!Pending
  <2>2. DayPnl!Gained' = DayPnl!Gained /\ UNCHANGED <<v14, v15, v17>>
    BY <1>3, <2>1 DEF DayPnl!Gained, DayPnl!Holds, DayPnl!Pending
  <2> QED BY <1>1, <2>2
<1> QED BY <1>2, <1>3

LEMMA PositionsAccounted ==
  ASSUME DayPnl!DayIsAccounted, DayPnl!Positions
  PROVE  DayPnl!DayIsAccounted'
<1>1. /\ v11 # DayPnl!Idle /\ v11' = DayPnl!Idle /\ ~v1
      /\ UNCHANGED <<v1, v2, v3, v4, v5, v6, v7, v8, v9, v10, v18>>
      /\ v16' = DayPnl!Warns(v11, v14', v15')
  BY DEF DayPnl!Positions, DayPnl!account, DayPnl!DayIsAccounted, DayPnl!EveningIsQuiet
<1>2. DayPnl!EveningIsQuiet' /\ DayPnl!TransfersAreDated' /\ DayPnl!SummaryIsCurrent'
  BY <1>1 DEF DayPnl!DayIsAccounted, DayPnl!EveningIsQuiet, DayPnl!TransfersAreDated, DayPnl!SummaryIsCurrent, DayPnl!Idle
<1>3. CASE /\ v12' = v4 /\ v13' = FALSE /\ v19' = v19
           /\ IF ~v13 /\ DayPnl!Pending THEN DayPnl!RecordSale ELSE UNCHANGED <<v14, v15, v17>>
  <2>1. /\ v14' \in Int /\ v15' \in Nat
        /\ ~v17' => ~v17
        /\ ~v17' /\ v15' = 0 => v15 = 0 /\ v14' + DayPnl!Gained' = v14 + DayPnl!Gained
    BY <1>1, <1>3, RecordAccounted
  <2>2. DayPnl!Figures'
    BY <1>1, <1>3, <2>1 DEF DayPnl!DayIsAccounted, DayPnl!Figures, DayPnl!Holds
  <2>3. DayPnl!GainsAreRecorded'
    <3>1. v7 \in Int /\ v14 \in Int /\ DayPnl!Gained \in Int
      BY FiguresAreIntegers DEF DayPnl!DayIsAccounted
    <3>2. DayPnl!GainsAreRecorded
      BY DEF DayPnl!DayIsAccounted
    <3> QED BY <1>1, <2>1, <3>1, <3>2 DEF DayPnl!GainsAreRecorded
  <2>4. DayPnl!AlarmMeansMisrecording'
    <3> SUFFICES ASSUME v16', v15' = 0, ~v17', ~v18', ~v19', ~v2'
                 PROVE  FALSE
      BY <2>1 DEF DayPnl!AlarmMeansMisrecording
    <3>1. v11.at = "known" /\ v12' = 0 /\ v14' # v11.pnl
      <4>1. DayPnl!Warns(v11, v14', v15')
        BY <1>1, Zenon
      <4> QED BY <4>1 DEF DayPnl!Warns, DayPnl!None
    <3>2. v11.pnl = v7
      BY <1>1, <1>3, <3>1 DEF DayPnl!DayIsAccounted, DayPnl!SummaryIsCurrent
    <3>3. ~DayPnl!Holds' /\ ~v5' /\ DayPnl!Gained' = 0
      BY <1>1, <1>3, <2>2, <3>1 DEF DayPnl!Holds, DayPnl!Pending, DayPnl!Gained, DayPnl!None, DayPnl!Figures
    <3>4. v7' = v14' + 0
      BY <1>1, <2>3, <3>3 DEF DayPnl!GainsAreRecorded
    <3>5. v7' = v14'
      <4>1. v14' \in Int
        BY <2>1
      <4>2. \A x \in Int : x + 0 = x
        OBVIOUS
      <4> QED BY <3>4, <4>1, <4>2, Zenon
    <3>6. v7' = v7
      BY <1>1
    <3> QED BY <3>1, <3>2, <3>5, <3>6, Zenon
  <2> QED BY <1>2, <2>2, <2>3, <2>4 DEF DayPnl!DayIsAccounted
<1>4. CASE v19' = TRUE /\ UNCHANGED <<v12, v13, v14, v15, v17>>
  <2>1. DayPnl!Figures' /\ DayPnl!GainsAreRecorded' /\ DayPnl!AlarmMeansMisrecording'
    BY <1>1, <1>4 DEF DayPnl!DayIsAccounted, DayPnl!Figures, DayPnl!GainsAreRecorded, DayPnl!AlarmMeansMisrecording,
       DayPnl!Gained, DayPnl!Holds, DayPnl!Pending
  <2> QED BY <1>2, <2>1 DEF DayPnl!DayIsAccounted
<1> QED BY <1>3, <1>4 DEF DayPnl!Positions

(* A new process forgets the book; the night forgets the rest.             *)
LEMMA NewProcessAccounted ==
  ASSUME DayPnl!DayIsAccounted, DayPnl!Restart
  PROVE  DayPnl!DayIsAccounted'
<1>1. /\ v10' = << >> /\ v11' = DayPnl!Idle /\ v12' = DayPnl!None /\ v13' = TRUE /\ v16' = FALSE
      /\ v17' = (v17 \/ DayPnl!Pending)
      /\ UNCHANGED <<v1, v2, v3, v4, v5, v6, v7, v8, v9, v14, v15, v18, v19>>
  BY DEF DayPnl!Restart, DayPnl!account
<1>2. ~v17' => ~v17 /\ ~DayPnl!Pending
  BY <1>1, Zenon
<1>3. DayPnl!Figures' /\ DayPnl!EveningIsQuiet' /\ DayPnl!TransfersAreDated' /\ DayPnl!SummaryIsCurrent'
      /\ DayPnl!AlarmMeansMisrecording'
  BY <1>1 DEF DayPnl!DayIsAccounted, DayPnl!Figures, DayPnl!EveningIsQuiet, DayPnl!TransfersAreDated, DayPnl!SummaryIsCurrent,
     DayPnl!AlarmMeansMisrecording, DayPnl!Idle, DayPnl!Holds
<1>4. ~v17' => DayPnl!Gained' = DayPnl!Gained
  BY <1>1, <1>2 DEF DayPnl!Gained, DayPnl!Holds, DayPnl!Pending
<1>5. DayPnl!GainsAreRecorded'
  BY <1>1, <1>2, <1>4 DEF DayPnl!DayIsAccounted, DayPnl!GainsAreRecorded
<1> QED BY <1>3, <1>5 DEF DayPnl!DayIsAccounted

LEMMA NightAccounted ==
  ASSUME DayPnl!DayIsAccounted, DayPnl!Close \/ DayPnl!NextDay
  PROVE  DayPnl!DayIsAccounted'
<1>1. CASE DayPnl!Close
  <2>1. /\ v11 = DayPnl!Idle /\ v1' = TRUE /\ v7' = 0 /\ v8' = 0 /\ v16' = FALSE
        /\ UNCHANGED <<v3, v4, v5, v6, v9, v10, v11, v12, v13, v14, v15, v17, v18, v19>>
    BY <1>1 DEF DayPnl!Close, DayPnl!history
  <2> QED BY <2>1 DEF DayPnl!DayIsAccounted, DayPnl!Figures, DayPnl!EveningIsQuiet, DayPnl!TransfersAreDated,
             DayPnl!SummaryIsCurrent, DayPnl!GainsAreRecorded, DayPnl!AlarmMeansMisrecording, DayPnl!Idle, DayPnl!Holds
<1>2. CASE DayPnl!NextDay
  <2>1. /\ v1 /\ v1' = FALSE /\ v5' = DayPnl!Holds /\ v9' = 0 /\ v10' = << >> /\ v14' = 0 /\ v15' = 0
        /\ v17' = DayPnl!Pending /\ v18' = (v8 # 0)
        /\ UNCHANGED <<v2, v3, v4, v6, v7, v8, v11, v12, v13, v16, v19>>
    BY <1>2 DEF DayPnl!NextDay
  <2>2. v7 = 0 /\ v11 = DayPnl!Idle /\ ~v16
    BY <2>1 DEF DayPnl!DayIsAccounted, DayPnl!EveningIsQuiet
  <2>3. (~v17' => ~DayPnl!Pending) /\ (~v18' => v8 = 0) /\ (v5' <=> DayPnl!Holds)
    BY <2>1, Zenon
  <2>4. DayPnl!Figures' /\ DayPnl!EveningIsQuiet' /\ DayPnl!TransfersAreDated' /\ DayPnl!SummaryIsCurrent'
        /\ DayPnl!AlarmMeansMisrecording'
    BY <2>1, <2>2, <2>3 DEF DayPnl!DayIsAccounted, DayPnl!Figures, DayPnl!EveningIsQuiet, DayPnl!TransfersAreDated,
       DayPnl!SummaryIsCurrent, DayPnl!AlarmMeansMisrecording, DayPnl!Idle, DayPnl!Holds
  <2>5. ~v17' /\ ~v5' => DayPnl!Gained' = 0
    BY <2>1, <2>3 DEF DayPnl!Gained, DayPnl!Holds, DayPnl!Pending
  <2>6. DayPnl!GainsAreRecorded'
    BY <2>1, <2>2, <2>5 DEF DayPnl!GainsAreRecorded
  <2> QED BY <2>4, <2>6 DEF DayPnl!DayIsAccounted
<1> QED BY <1>1, <1>2

LEMMA DayPnlStep ==
  ASSUME DayPnl!DayIsAccounted, NextDayPnl
  PROVE  DayPnl!DayIsAccounted'
  BY PriceAccounted, FlowAccounted, MoneyAccounted, BuyAccounted, SaleAccounted,
     SummaryAccounted, PositionsAccounted, NewProcessAccounted, NightAccounted DEF NextDayPnl

LEMMA DaysAccounted == Spec => [](focus = "pnl" => DayPnl!DayIsAccounted)
<1> DEFINE Inv == focus = "pnl" => DayPnl!DayIsAccounted
<1>1. Init => Inv
  BY WhoStarts, DayPnlInit DEF Init, InitDayPnl
<1>2. Inv /\ [Next]_vars => Inv'
  <2> SUFFICES ASSUME Inv, [Next]_vars, focus' = "pnl" PROVE DayPnl!DayIsAccounted'
    OBVIOUS
  <2>1. DayPnl!DayIsAccounted
    BY FocusStays
  <2>2. CASE Next
    BY <2>1, <2>2, WhoSteps, DayPnlStep DEF Next
  <2>3. CASE UNCHANGED vars
    BY <2>1, <2>3 DEF vars, DayPnl!DayIsAccounted, DayPnl!Figures, DayPnl!EveningIsQuiet,
       DayPnl!TransfersAreDated, DayPnl!SummaryIsCurrent, DayPnl!GainsAreRecorded, DayPnl!Gained,
       DayPnl!Holds, DayPnl!Pending, DayPnl!AlarmMeansMisrecording
  <2> QED BY <2>2, <2>3
<1> QED BY <1>1, <1>2, PTL DEF Spec

(* When portfolio_tracker.py warns that account and trade log differ, a    *)
(* sale of today has no price, a wrong one or no row, unless the change of *)
(* equity was not today's trading or the sync itself was torn.             *)
THEOREM AlarmsAreMisrecordings == Spec => []AlarmMeansMisrecording
<1> DEFINE Inv == focus = "pnl" => DayPnl!DayIsAccounted
<1>1. Inv => AlarmMeansMisrecording
  BY DEF DayPnl!DayIsAccounted, AlarmMeansMisrecording, DayPnl!AlarmMeansMisrecording
<1> QED BY <1>1, DaysAccounted, PTL

-----------------------------------------------------------------------------
(* The swing model's training file (FeatureLog).  Rows are only added with *)
(* a new key, and labelling a row leaves its key, so a log stays a log.    *)

LEMMA SameFinite == \A S : FeatureLog!IsFiniteSet(S) <=> IsFiniteSet(S)
  BY DEF FeatureLog!IsFiniteSet, IsFiniteSet

LEMMA SameCardinality == \A S : FeatureLog!Cardinality(S) = Cardinality(S)
  BY Zenon DEF FeatureLog!Cardinality, Cardinality

LEMMA LogIs ==
  \A S : FeatureLog!IsLog(S) <=> /\ IsFiniteSet(S) /\ S \subseteq FeatureLog!LoggedRow
                                 /\ \A r, s \in S : FeatureLog!Key(r) = FeatureLog!Key(s) => r = s
  BY SameFinite, Zenon DEF FeatureLog!IsLog, FeatureLog!KeysAreUnique

LEMMA AddRow ==
  ASSUME NEW S, FeatureLog!IsLog(S), NEW r \in FeatureLog!LoggedRow,
         FeatureLog!Key(r) \notin FeatureLog!Keys(S), r.target = "none"
  PROVE  /\ FeatureLog!IsLog(S \cup {r})
         /\ FeatureLog!Keys(S) \subseteq FeatureLog!Keys(S \cup {r})
         /\ FeatureLog!Known(S \cup {r}) = FeatureLog!Known(S)
<1>1. IsFiniteSet(S \cup {r})
  BY FS_AddElement, LogIs
<1>2. \A u, w \in S \cup {r} : FeatureLog!Key(u) = FeatureLog!Key(w) => u = w
  BY LogIs, Zenon DEF FeatureLog!Keys
<1>3. FeatureLog!Known(S \cup {r}) = FeatureLog!Known(S)
  BY DEF FeatureLog!Known
<1>4. S \cup {r} \subseteq FeatureLog!LoggedRow
  BY LogIs
<1>5. FeatureLog!IsLog(S \cup {r})
  BY <1>1, <1>2, <1>4, LogIs
<1> QED BY <1>3, <1>5 DEF FeatureLog!Keys

(* Of the process: no row yet, so the log is the one row.                  *)
LEMMA FirstRow ==
  ASSUME NEW r \in FeatureLog!LoggedRow
  PROVE  FeatureLog!IsLog({r})
<1>1. IsFiniteSet({r})
  BY FS_Singleton
<1> QED BY <1>1, LogIs

LEMMA LabelledRow ==
  ASSUME NEW r \in FeatureLog!LoggedRow
  PROVE  /\ FeatureLog!Label(r) \in FeatureLog!LoggedRow
         /\ FeatureLog!Key(FeatureLog!Label(r)) = FeatureLog!Key(r)
         /\ FeatureLog!Label(r).target = "known"
  BY DEF FeatureLog!Label, FeatureLog!LoggedRow, FeatureLog!Key

LEMMA LabelRows ==
  ASSUME NEW S, FeatureLog!IsLog(S), NEW T \in SUBSET S
  PROVE  LET U == (S \ T) \cup {FeatureLog!Label(r) : r \in T}
         IN /\ FeatureLog!IsLog(U)
            /\ FeatureLog!Keys(S) \subseteq FeatureLog!Keys(U)
            /\ FeatureLog!Keys(FeatureLog!Known(S)) \subseteq FeatureLog!Keys(FeatureLog!Known(U))
<1> DEFINE L == {FeatureLog!Label(r) : r \in T}
           U == (S \ T) \cup L
<1>1. \A r \in S : /\ r \in FeatureLog!LoggedRow /\ FeatureLog!Label(r) \in FeatureLog!LoggedRow
                   /\ FeatureLog!Key(FeatureLog!Label(r)) = FeatureLog!Key(r)
                   /\ FeatureLog!Label(r).target = "known"
  BY LabelledRow, LogIs
<1>2. IsFiniteSet(U)
  <2> DEFINE f == [r \in T |-> FeatureLog!Label(r)]
  <2>1. IsFiniteSet(T) /\ IsFiniteSet(S \ T)
    BY FS_Subset, LogIs
  <2>2. f \in Surjection(T, L)
    BY Zenon DEF Surjection
  <2>3. IsFiniteSet(L)
    BY <2>1, <2>2, FS_Surjection
  <2> QED BY <2>1, <2>3, FS_Union
<1>3. \A u \in U : \E r \in S : /\ FeatureLog!Key(u) = FeatureLog!Key(r)
                                /\ u = IF r \in T THEN FeatureLog!Label(r) ELSE r
  BY <1>1
<1>4. \A u, w \in U : FeatureLog!Key(u) = FeatureLog!Key(w) => u = w
  <2> SUFFICES ASSUME NEW u \in U, NEW w \in U, FeatureLog!Key(u) = FeatureLog!Key(w)
               PROVE  u = w
    OBVIOUS
  <2>1. PICK r \in S : FeatureLog!Key(u) = FeatureLog!Key(r) /\ u = IF r \in T THEN FeatureLog!Label(r) ELSE r
    BY <1>3
  <2>2. PICK s \in S : FeatureLog!Key(w) = FeatureLog!Key(s) /\ w = IF s \in T THEN FeatureLog!Label(s) ELSE s
    BY <1>3
  <2>3. r = s
    BY <2>1, <2>2, LogIs
  <2> QED BY <2>1, <2>2, <2>3
<1>5. \A r \in S : LET u == IF r \in T THEN FeatureLog!Label(r) ELSE r
                   IN  /\ u \in U /\ FeatureLog!Key(u) = FeatureLog!Key(r)
                       /\ r.target = "known" => u.target = "known"
  BY <1>1
<1>6. FeatureLog!Keys(S) \subseteq FeatureLog!Keys(U)
  BY <1>5, Zenon DEF FeatureLog!Keys
<1>7. FeatureLog!Keys(FeatureLog!Known(S)) \subseteq FeatureLog!Keys(FeatureLog!Known(U))
  BY <1>5, Zenon DEF FeatureLog!Keys, FeatureLog!Known
<1>8. U \subseteq FeatureLog!LoggedRow
  BY <1>1
<1>9. FeatureLog!IsLog(U)
  BY <1>2, <1>4, <1>8, LogIs
<1> QED BY <1>6, <1>7, <1>9

(* A log has as many keys as rows.                                         *)
LEMMA OneKeyPerRow ==
  ASSUME NEW S, FeatureLog!IsLog(S)
  PROVE  Cardinality(FeatureLog!Keys(S)) = Cardinality(S)
<1> DEFINE f == [r \in S |-> FeatureLog!Key(r)]
<1>1. f \in Injection(S, FeatureLog!Keys(S))
  BY LogIs, Zenon DEF Injection, IsInjective, FeatureLog!Keys
<1>2. f \in Surjection(S, FeatureLog!Keys(S))
  BY Zenon DEF Surjection, FeatureLog!Keys
<1> HIDE DEF f
<1> QED BY <1>1, <1>2, FS_Surjection, LogIs

(* The invariant of the file: who works alone writes back all it found.    *)
LEMMA FeatureLogInit == FeatureLog!Init => FeatureLog!WriterIsAlone
<1> SUFFICES ASSUME FeatureLog!Init PROVE FeatureLog!WriterIsAlone
  OBVIOUS
<1>1. FeatureLog!IsLog({}) /\ FeatureLog!Keys({}) = {} /\ FeatureLog!Known({}) = {}
  BY FS_EmptySet, LogIs DEF FeatureLog!Keys, FeatureLog!Known
<1> QED BY <1>1 DEF FeatureLog!Init, FeatureLog!WriterIsAlone, FeatureLog!Missing, FeatureLog!Nothing, FeatureLog!Process

(* What a process sets out to write.                                       *)
LEMMA BeginsAlone ==
  ASSUME FeatureLog!WriterIsAlone, NEW p \in FeatureLog!Process, NEW S,
         v3[p] = FeatureLog!Nothing, FeatureLog!Begins(p, S),
         UNCHANGED <<v1, v2, v4, v5, v6, v7>>,
         ~v8 /\ v4 = {} => FeatureLog!IsLog(S) /\ v6 \subseteq FeatureLog!Keys(S)
                             /\ v7 \subseteq FeatureLog!Keys(FeatureLog!Known(S))
  PROVE  FeatureLog!WriterIsAlone'
<1>1. /\ v3' = [v3 EXCEPT ![p] = [rows |-> S, at |-> "work"]]
      /\ ~v8' => ~v8 /\ \A q \in FeatureLog!Process \ {p} : v3[q] = FeatureLog!Nothing
  BY Zenon DEF FeatureLog!Begins
<1>2. DOMAIN v3 = FeatureLog!Process /\ DOMAIN v3' = FeatureLog!Process /\ v3'[p].rows = S
  BY <1>1 DEF FeatureLog!WriterIsAlone
<1>3. \A q \in FeatureLog!Process \ {p} : v3'[q] = v3[q]
  BY <1>1, <1>2
<1>4. ASSUME ~v8'
      PROVE  /\ \E q \in FeatureLog!Process : v3'[q] = FeatureLog!Nothing
             /\ v4 = {} /\ ~v8
             /\ \A q \in FeatureLog!Process : v3'[q] # FeatureLog!Nothing => q = p
  <2>1. \E q \in FeatureLog!Process : q # p
    BY DEF FeatureLog!Process
  <2> QED BY <1>1, <1>3, <1>4, <2>1 DEF FeatureLog!WriterIsAlone
<1> QED BY <1>1, <1>2, <1>4 DEF FeatureLog!WriterIsAlone

LEMMA ReadersAlone ==
  ASSUME FeatureLog!WriterIsAlone, FeatureLog!TraderReads \/ FeatureLog!TrainerReads
  PROVE  FeatureLog!WriterIsAlone'
<1>1. "trader" \in FeatureLog!Process /\ "trainer" \in FeatureLog!Process
  BY DEF FeatureLog!Process
<1>2. ~v8 /\ v4 = {} =>
        /\ FeatureLog!IsLog(v2.rows) /\ FeatureLog!Keys(v2.rows) = v6
        /\ FeatureLog!Keys(FeatureLog!Known(v2.rows)) = v7
        /\ \A S \in FeatureLog!Readable : S = v2.rows
  BY DEF FeatureLog!WriterIsAlone, FeatureLog!Readable
<1>3. CASE FeatureLog!TraderReads
  <2>1. PICK s \in Symbol :
          LET row == [day |-> v1, symbol |-> s, target |-> "none"]
          IN /\ v3["trader"] = FeatureLog!Nothing
             /\ \/ v2 = FeatureLog!Missing /\ FeatureLog!Begins("trader", {row})
                \/ \E S \in FeatureLog!Readable :
                     /\ FeatureLog!Key(row) \notin FeatureLog!Keys(S)
                     /\ FeatureLog!Begins("trader", S \cup {row})
             /\ UNCHANGED <<v1, v2, v4, v5, v6, v7>>
    BY <1>3 DEF FeatureLog!TraderReads
  <2> DEFINE row == [day |-> v1, symbol |-> s, target |-> "none"]
  <2>2. row \in FeatureLog!LoggedRow /\ row.target = "none"
    BY DEF FeatureLog!LoggedRow, FeatureLog!WriterIsAlone
  <2>3. CASE v2 = FeatureLog!Missing /\ FeatureLog!Begins("trader", {row})
    <3>1. v2.rows = {}
      BY <2>3 DEF FeatureLog!Missing
    <3>2. FeatureLog!IsLog({row})
      BY <2>2, FirstRow
    <3>3. ~v8 /\ v4 = {} => v6 = {} /\ v7 = {}
      BY <1>2, <3>1 DEF FeatureLog!Keys, FeatureLog!Known
    <3> HIDE DEF row
    <3> QED BY <1>1, <2>1, <2>3, <3>2, <3>3, BeginsAlone
  <2>4. ASSUME NEW S \in FeatureLog!Readable, FeatureLog!Key(row) \notin FeatureLog!Keys(S),
               FeatureLog!Begins("trader", S \cup {row})
        PROVE  FeatureLog!WriterIsAlone'
    <3> HIDE DEF row
    <3>1. ASSUME ~v8, v4 = {}
          PROVE  /\ FeatureLog!IsLog(S \cup {row}) /\ v6 \subseteq FeatureLog!Keys(S \cup {row})
                 /\ v7 \subseteq FeatureLog!Keys(FeatureLog!Known(S \cup {row}))
      BY <1>2, <2>2, <2>4, <3>1, AddRow
    <3> QED BY <1>1, <2>1, <2>4, <3>1, BeginsAlone
  <2> QED BY <2>1, <2>3, <2>4
<1>4. CASE FeatureLog!TrainerReads
  <2>1. PICK S \in FeatureLog!Readable, priced \in SUBSET Symbol :
          LET T == {r \in S : r.target = "none" /\ FeatureLog!Labelable(r) /\ r.symbol \in priced}
          IN FeatureLog!Begins("trainer", (S \ T) \cup {FeatureLog!Label(r) : r \in T})
    BY <1>4 DEF FeatureLog!TrainerReads
  <2> DEFINE T == {r \in S : r.target = "none" /\ FeatureLog!Labelable(r) /\ r.symbol \in priced}
             U == (S \ T) \cup {FeatureLog!Label(r) : r \in T}
  <2>2. v3["trainer"] = FeatureLog!Nothing /\ UNCHANGED <<v1, v2, v4, v5, v6, v7>> /\ FeatureLog!Begins("trainer", U)
    BY <1>4, <2>1 DEF FeatureLog!TrainerReads
  <2>3. T \in SUBSET S
    OBVIOUS
  <2>4. ASSUME ~v8, v4 = {}
        PROVE  FeatureLog!IsLog(U) /\ v6 \subseteq FeatureLog!Keys(U) /\ v7 \subseteq FeatureLog!Keys(FeatureLog!Known(U))
    <3>1. /\ FeatureLog!IsLog(S) /\ FeatureLog!Keys(S) = v6 /\ FeatureLog!Keys(FeatureLog!Known(S)) = v7
      BY <1>2, <2>4
    <3> HIDE DEF T
    <3>2. /\ FeatureLog!IsLog(U) /\ FeatureLog!Keys(S) \subseteq FeatureLog!Keys(U)
          /\ FeatureLog!Keys(FeatureLog!Known(S)) \subseteq FeatureLog!Keys(FeatureLog!Known(U))
      BY <2>3, <3>1, LabelRows
    <3> QED BY <3>1, <3>2
  <2> HIDE DEF U
  <2> QED BY <1>1, <2>2, <2>4, BeginsAlone
<1> QED BY <1>3, <1>4

LEMMA WritersAlone ==
  ASSUME FeatureLog!WriterIsAlone, NEW p \in FeatureLog!Process,
         FeatureLog!Truncates(p) \/ FeatureLog!Finishes(p) \/ FeatureLog!Dies(p)
  PROVE  FeatureLog!WriterIsAlone'
<1>1. CASE FeatureLog!Truncates(p)
  <2>1. /\ v3[p] # FeatureLog!Nothing /\ v4' = v4 \cup {p} /\ v2' = [rows |-> {}, at |-> "there"]
        /\ UNCHANGED <<v1, v3, v5, v6, v7, v8>>
    BY <1>1 DEF FeatureLog!Truncates
  <2> QED BY <2>1 DEF FeatureLog!WriterIsAlone
<1>2. CASE FeatureLog!Finishes(p)
  <2>1. /\ p \in v4 /\ v4' = v4 \ {p} /\ v2' = [v2 EXCEPT !.rows = v3[p].rows]
        /\ v3' = [v3 EXCEPT ![p] = FeatureLog!Nothing]
        /\ v6' = v6 \cup FeatureLog!Keys(v3[p].rows)
        /\ v7' = v7 \cup FeatureLog!Keys(FeatureLog!Known(v3[p].rows))
        /\ UNCHANGED <<v1, v8>>
    BY <1>2 DEF FeatureLog!Finishes, FeatureLog!Written, FeatureLog!Known
  <2>2. v2'.rows = v3[p].rows /\ DOMAIN v2' = {"rows", "at"} /\ DOMAIN v3' = FeatureLog!Process
    BY <2>1 DEF FeatureLog!WriterIsAlone
  <2>3. ASSUME ~v8
        PROVE  /\ FeatureLog!IsLog(v3[p].rows) /\ v6' = FeatureLog!Keys(v3[p].rows)
               /\ v7' = FeatureLog!Keys(FeatureLog!Known(v3[p].rows))
               /\ \A q \in FeatureLog!Process : v3'[q] = FeatureLog!Nothing
    BY <2>1, <2>3 DEF FeatureLog!WriterIsAlone, FeatureLog!Process
  <2> QED BY <2>1, <2>2, <2>3 DEF FeatureLog!WriterIsAlone, FeatureLog!Process
<1>3. CASE FeatureLog!Dies(p)
  <2>1. /\ v3[p] # FeatureLog!Nothing /\ v3' = [v3 EXCEPT ![p] = FeatureLog!Nothing] /\ v4' = v4 \ {p}
        /\ v2' = v2 \/ \E S \in SUBSET v3[p].rows : v2' = [v2 EXCEPT !.rows = S]
        /\ p \in v4 => v8' = TRUE
        /\ p \notin v4 => v2' = v2 /\ v8' = v8
        /\ UNCHANGED <<v1, v6, v7>>
    BY <1>3 DEF FeatureLog!Dies
  <2>2. DOMAIN v2' = {"rows", "at"} /\ DOMAIN v3' = FeatureLog!Process /\ v3'[p] = FeatureLog!Nothing
        /\ \A q \in FeatureLog!Process \ {p} : v3'[q] = v3[q]
    BY <2>1 DEF FeatureLog!WriterIsAlone
  <2> QED BY <2>1, <2>2 DEF FeatureLog!WriterIsAlone, FeatureLog!Process
<1> QED BY <1>1, <1>2, <1>3

LEMMA FeatureLogStep ==
  ASSUME FeatureLog!WriterIsAlone, NextFeatureLog
  PROVE  FeatureLog!WriterIsAlone'
<1>1. CASE FeatureLog!NextDay
  <2>1. v1' = v1 + 1 /\ UNCHANGED <<v2, v3, v4, v5, v6, v7, v8>>
    BY <1>1 DEF FeatureLog!NextDay
  <2> QED BY <2>1 DEF FeatureLog!WriterIsAlone
<1> QED BY <1>1, ReadersAlone, WritersAlone DEF NextFeatureLog

LEMMA WriterKept == Spec => [](focus = "features" => FeatureLog!WriterIsAlone)
<1> DEFINE Inv == focus = "features" => FeatureLog!WriterIsAlone
<1>1. Init => Inv
  BY WhoStarts, FeatureLogInit DEF Init, InitFeatureLog
<1>2. Inv /\ [Next]_vars => Inv'
  <2> SUFFICES ASSUME Inv, [Next]_vars, focus' = "features" PROVE FeatureLog!WriterIsAlone'
    OBVIOUS
  <2>1. FeatureLog!WriterIsAlone
    BY FocusStays
  <2>2. CASE Next
    BY <2>1, <2>2, WhoSteps, FeatureLogStep DEF Next
  <2>3. CASE UNCHANGED vars
    BY <2>1, <2>3 DEF vars, FeatureLog!WriterIsAlone
  <2> QED BY <2>2, <2>3
<1> QED BY <1>1, <1>2, PTL DEF Spec

(* Rows and labels of the training file survive, and no day of a symbol is *)
(* twice in it, unless trader and trainer were at work at once or one died *)
(* while it wrote.                                                         *)
THEOREM LogKeepsItsRows == Spec => []RowsLostOnlyInARace
<1> DEFINE Inv == focus = "features" => FeatureLog!WriterIsAlone
<1>1. Inv => RowsLostOnlyInARace
  <2> SUFFICES ASSUME Inv, focus = "features", v4 = {}, ~v8
               PROVE  /\ FeatureLog!Keys(v2.rows) = v6
                      /\ FeatureLog!Keys(FeatureLog!Known(v2.rows)) = v7
                      /\ Cardinality(FeatureLog!Keys(v2.rows)) = Cardinality(v2.rows)
    BY SameCardinality, Zenon DEF RowsLostOnlyInARace, FeatureLog!RowsLostOnlyInARace, FeatureLog!Known
  <2> QED BY OneKeyPerRow DEF FeatureLog!WriterIsAlone
<1> QED BY <1>1, WriterKept, PTL

-----------------------------------------------------------------------------
(* Finite sets of numbers.                                                 *)

\* The last of finitely many numbers, by the well-founded order of subsets.
LEMMA LastOf ==
  ASSUME NEW F \in SUBSET Int, F # {}, IsFiniteSet(F)
  PROVE  \E n \in F : \A m \in F : m <= n
<1> DEFINE After(n) == {m \in F : n < m}
           T == {After(n) : n \in F}
           R == StrictSubsetOrdering(F)
<1>1. T \subseteq FiniteSubsetsOf(F) /\ T # {}
  <2>1. T \subseteq SUBSET F /\ T # {}
    OBVIOUS
  <2> HIDE DEF T
  <2> QED BY <2>1, FS_FiniteSubsetsOfFinite
<1>2. IsWellFoundedOn(R, FiniteSubsetsOf(F))
  BY FS_StrictSubsetOrderingWellFounded
<1>3. ASSUME NEW n \in F, NEW m \in F, n < m PROVE <<After(m), After(n)>> \in R
  <2>9. n \in Int /\ m \in Int /\ \A k \in F : k \in Int
    OBVIOUS
  <2>1. After(m) \subseteq After(n) /\ m \in After(n) /\ m \notin After(m)
    <3>1. \A k \in F : m < k => n < k
      BY <1>3, <2>9
    <3>2. m \in After(n) /\ m \notin After(m)
      BY <1>3, <2>9
    <3> QED BY <3>1, <3>2
  <2> HIDE DEF After
  <2>2. After(m) \in SUBSET F /\ After(n) \in SUBSET F
    BY DEF After
  <2>3. After(m) # After(n)
    BY <2>1
  <2> QED BY <2>1, <2>2, <2>3 DEF StrictSubsetOrdering
<1> HIDE DEF R
<1>4. \E S \in T : \A U \in T : <<U, S>> \notin R
  <2> HIDE DEF T
  <2> QED BY <1>1, <1>2, WFMin
<1>5. PICK n \in F : \A m \in F : <<After(m), After(n)>> \notin R
  BY <1>4
<1>6. \A m \in F : ~(n < m)
  BY <1>3, <1>5
<1> QED BY <1>6

\* What one function makes of a finite set is no larger.
LEMMA ImageIsNoLarger ==
  ASSUME NEW S, IsFiniteSet(S), NEW f
  PROVE  /\ IsFiniteSet({f[x] : x \in S})
         /\ Cardinality({f[x] : x \in S}) <= Cardinality(S)
<1> DEFINE T == {f[x] : x \in S}
           h == [x \in S |-> f[x]]
<1>1. h \in Surjection(S, T)
  BY DEF Surjection
<1> HIDE DEF T, h
<1>2. IsFiniteSet(T) /\ Cardinality(T) <= Cardinality(S)
  BY <1>1, FS_Surjection
<1> QED BY <1>2 DEF T

LEMMA LeastOf ==
  ASSUME NEW F \in SUBSET Int, F # {}, IsFiniteSet(F)
  PROVE  \E n \in F : \A m \in F : n <= m
<1> DEFINE neg == [x \in F |-> 0 - x]
           G == {neg[x] : x \in F}
<1>1. IsFiniteSet(G)
  BY ImageIsNoLarger
<1>2. G \in SUBSET Int /\ G # {}
  <2>1. \A x \in F : neg[x] \in Int
    OBVIOUS
  <2> HIDE DEF neg
  <2> QED BY <2>1
<1>3. PICK m \in G : \A k \in G : k <= m
  <2> HIDE DEF G
  <2> QED BY <1>1, <1>2, LastOf
<1>4. PICK n \in F : m = 0 - n
  BY <1>3
<1>5. ASSUME NEW k \in F PROVE n <= k
  <2>1. 0 - k \in G
    OBVIOUS
  <2>2. 0 - k <= 0 - n
    BY <1>3, <1>4, <2>1
  <2> QED BY <2>2
<1> QED BY <1>4, <1>5

-----------------------------------------------------------------------------
(* The types of the parts: what their variables are, for all values of the *)
(* constants.  First the model gate, the flow trader, the inputs of a scan *)
(* and the regime.                                                         *)

LEMMA MonthsAreCounted ==
  /\ Len(DaysIn) \in Nat \ {0}
  /\ \A m \in 1..Len(DaysIn) : DaysIn[m] \in Nat \ {0}
  BY MonthsAssumption

LEMMA HoldingCleared ==
  ASSUME NEW N, NEW r \in [holding : 0..1, entered : N]
  PROVE  [r EXCEPT !.holding = 0] \in [holding : 0..1, entered : N]
  OBVIOUS

(* A training that is half way has replaced the model's file.              *)
ModelTyped == ModelGate!TypeOK /\ (v3 => v1 # 0)

LEMMA ModelTypesInit == ModelGate!Init => ModelTyped
<1>. SUFFICES ASSUME ModelGate!Init PROVE ModelTyped
  OBVIOUS
<1>. USE BoundsAssumption DEF ModelGate!Init, ModelGate!Bar, ModelGate!NoBars,
       ModelGate!NoVerdict, ModelGate!Action
<1>1. v1 \in 0..MaxTrainings
  OBVIOUS
<1>2. {v2, v6} \subseteq ModelGate!Bar
  OBVIOUS
<1>3. {v3, v5, v7, v8} \subseteq BOOLEAN
  OBVIOUS
<1>4. v4 \in 0..v1
  OBVIOUS
<1>5. v9 \in ModelGate!Action \cup {"none"}
  OBVIOUS
<1>6. v10.action \in ModelGate!Action \cup {"none"}
  OBVIOUS
<1>7. v3 => v1 # 0
  OBVIOUS
<1> QED BY <1>1, <1>2, <1>3, <1>4, <1>5, <1>6, <1>7 DEF ModelTyped, ModelGate!TypeOK

LEMMA ModelTypes ==
  ASSUME ModelTyped, NextModelGate
  PROVE  ModelTyped'
<1>. USE BoundsAssumption DEF ModelTyped, ModelGate!TypeOK, ModelGate!Bar,
       ModelGate!NoBars, ModelGate!Action
<1>1. CASE ModelGate!SaveModel
  <2>. USE <1>1 DEF ModelGate!SaveModel, ModelGate!loaded
  <2>1. (v1 \in 0..MaxTrainings)'
    OBVIOUS
  <2>2. ({v2, v6} \subseteq ModelGate!Bar)'
    OBVIOUS
  <2>3. ({v3, v5, v7, v8} \subseteq BOOLEAN)'
    OBVIOUS
  <2>4. (v4 \in 0..v1)'
    OBVIOUS
  <2>5. (v9 \in ModelGate!Action \cup {"none"})'
    OBVIOUS
  <2>6. (v10.action \in ModelGate!Action \cup {"none"})'
    OBVIOUS
  <2>7. (v3 => v1 # 0)'
    OBVIOUS
  <2> QED BY <2>1, <2>2, <2>3, <2>4, <2>5, <2>6, <2>7
<1>2. CASE ModelGate!SaveBars
  <2>. USE <1>2 DEF ModelGate!SaveBars
  <2>1. (v1 \in 0..MaxTrainings)'
    OBVIOUS
  <2>2. ({v2, v6} \subseteq ModelGate!Bar)'
    OBVIOUS
  <2>3. ({v3, v5, v7, v8} \subseteq BOOLEAN)'
    OBVIOUS
  <2>4. (v4 \in 0..v1)'
    OBVIOUS
  <2>5. (v9 \in ModelGate!Action \cup {"none"})'
    OBVIOUS
  <2>6. (v10.action \in ModelGate!Action \cup {"none"})'
    OBVIOUS
  <2>7. (v3 => v1 # 0)'
    OBVIOUS
  <2> QED BY <2>1, <2>2, <2>3, <2>4, <2>5, <2>6, <2>7
<1>3. CASE ModelGate!TrainingFails
  <2>. USE <1>3 DEF ModelGate!TrainingFails, ModelGate!loaded
  <2>1. (v1 \in 0..MaxTrainings)'
    OBVIOUS
  <2>2. ({v2, v6} \subseteq ModelGate!Bar)'
    OBVIOUS
  <2>3. ({v3, v5, v7, v8} \subseteq BOOLEAN)'
    OBVIOUS
  <2>4. (v4 \in 0..v1)'
    OBVIOUS
  <2>5. (v9 \in ModelGate!Action \cup {"none"})'
    OBVIOUS
  <2>6. (v10.action \in ModelGate!Action \cup {"none"})'
    OBVIOUS
  <2>7. (v3 => v1 # 0)'
    OBVIOUS
  <2> QED BY <2>1, <2>2, <2>3, <2>4, <2>5, <2>6, <2>7
<1>4. CASE ModelGate!Decide
  BY <1>4 DEF ModelGate!Decide, ModelGate!Driven, ModelGate!BarsRead,
     ModelGate!Reversal, ModelGate!Admitted, ModelGate!Filtered, ModelGate!Wanted,
     ModelGate!NoVerdict, ModelGate!trainer
<1>5. CASE ModelGate!Validate
  BY <1>5 DEF ModelGate!Validate, ModelGate!BarsRead, ModelGate!trainer
<1>6. CASE ModelGate!Reload
  <2>. USE <1>6 DEF ModelGate!Reload, ModelGate!Load, ModelGate!trainer
  <2>1. (v1 \in 0..MaxTrainings)'
    OBVIOUS
  <2>2. ({v2, v6} \subseteq ModelGate!Bar)'
    OBVIOUS
  <2>3. ({v3, v5, v7, v8} \subseteq BOOLEAN)'
    OBVIOUS
  <2>4. (v4 \in 0..v1)'
    OBVIOUS
  <2>5. (v9 \in ModelGate!Action \cup {"none"})'
    OBVIOUS
  <2>6. (v10.action \in ModelGate!Action \cup {"none"})'
    OBVIOUS
  <2>7. (v3 => v1 # 0)'
    OBVIOUS
  <2> QED BY <2>1, <2>2, <2>3, <2>4, <2>5, <2>6, <2>7
<1>7. CASE ModelGate!Restart
  <2>. USE <1>7 DEF ModelGate!Restart, ModelGate!Load, ModelGate!NoVerdict,
       ModelGate!trainer
  <2>1. (v1 \in 0..MaxTrainings)'
    OBVIOUS
  <2>2. ({v2, v6} \subseteq ModelGate!Bar)'
    OBVIOUS
  <2>3. ({v3, v5, v7, v8} \subseteq BOOLEAN)'
    OBVIOUS
  <2>4. (v4 \in 0..v1)'
    OBVIOUS
  <2>5. (v9 \in ModelGate!Action \cup {"none"})'
    OBVIOUS
  <2>6. (v10.action \in ModelGate!Action \cup {"none"})'
    OBVIOUS
  <2>7. (v3 => v1 # 0)'
    OBVIOUS
  <2> QED BY <2>1, <2>2, <2>3, <2>4, <2>5, <2>6, <2>7
<1> QED BY <1>1, <1>2, <1>3, <1>4, <1>5, <1>6, <1>7 DEF NextModelGate

LEMMA FlowTypesInit == FlowTrader!Init => FlowTrader!TypeOK
<1>. SUFFICES ASSUME FlowTrader!Init PROVE FlowTrader!TypeOK
  OBVIOUS
<1>. USE BoundsAssumption, MonthsAreCounted DEF FlowTrader!Init
<1>1. v1 \in 1..Len(DaysIn) /\ v2 \in 1..DaysIn[v1]
  OBVIOUS
<1>2. v3 \in BOOLEAN /\ v10 \in BOOLEAN
  OBVIOUS
<1>3. v4 \in Nat /\ v9 \in Nat
  OBVIOUS
<1>4. {v5, v6} \subseteq [holding : 0..1, entered : 0..Len(DaysIn)]
  OBVIOUS
<1>5. v7 \in {"idle", "entered", "exited"}
  OBVIOUS
<1>6. v8 \in 0..FlowTrouble
  OBVIOUS
<1> QED BY <1>1, <1>2, <1>3, <1>4, <1>5, <1>6 DEF FlowTrader!TypeOK

LEMMA FlowTypes ==
  ASSUME FlowTrader!TypeOK, NextFlowTrader
  PROVE  FlowTrader!TypeOK'
<1>. USE BoundsAssumption, MonthsAreCounted DEF FlowTrader!TypeOK
<1>1. CASE FlowTrader!Enter
  <2>. USE <1>1 DEF FlowTrader!Enter
  <2>1. (v1 \in 1..Len(DaysIn) /\ v2 \in 1..DaysIn[v1])'
    OBVIOUS
  <2>2. (v3 \in BOOLEAN /\ v10 \in BOOLEAN)'
    OBVIOUS
  <2>3. (v4 \in Nat /\ v9 \in Nat)'
    OBVIOUS
  <2>4. ({v5, v6} \subseteq [holding : 0..1, entered : 0..Len(DaysIn)])'
    OBVIOUS
  <2>5. (v7 \in {"idle", "entered", "exited"})'
    OBVIOUS
  <2>6. (v8 \in 0..FlowTrouble)'
    OBVIOUS
  <2> QED BY <2>1, <2>2, <2>3, <2>4, <2>5, <2>6
<1>2. CASE FlowTrader!RecordEntry
  <2>. USE <1>2 DEF FlowTrader!RecordEntry
  <2>1. (v1 \in 1..Len(DaysIn) /\ v2 \in 1..DaysIn[v1])'
    OBVIOUS
  <2>2. (v3 \in BOOLEAN /\ v10 \in BOOLEAN)'
    OBVIOUS
  <2>3. (v4 \in Nat /\ v9 \in Nat)'
    OBVIOUS
  <2>4. ({v5, v6} \subseteq [holding : 0..1, entered : 0..Len(DaysIn)])'
    OBVIOUS
  <2>5. (v7 \in {"idle", "entered", "exited"})'
    OBVIOUS
  <2>6. (v8 \in 0..FlowTrouble)'
    OBVIOUS
  <2> QED BY <2>1, <2>2, <2>3, <2>4, <2>5, <2>6
<1>3. CASE FlowTrader!RecordExit
  <2>. USE <1>3 DEF FlowTrader!RecordExit
  <2>1. (v1 \in 1..Len(DaysIn) /\ v2 \in 1..DaysIn[v1])'
    OBVIOUS
  <2>2. (v3 \in BOOLEAN /\ v10 \in BOOLEAN)'
    OBVIOUS
  <2>3. (v4 \in Nat /\ v9 \in Nat)'
    OBVIOUS
  <2>4. ({v5, v6} \subseteq [holding : 0..1, entered : 0..Len(DaysIn)])'
    <3>1. v6 \in [holding : 0..1, entered : 0..Len(DaysIn)]
      OBVIOUS
    <3>2. v6' \in [holding : 0..1, entered : 0..Len(DaysIn)]
      BY <3>1, HoldingCleared
    <3> QED BY <3>2
  <2>5. (v7 \in {"idle", "entered", "exited"})'
    OBVIOUS
  <2>6. (v8 \in 0..FlowTrouble)'
    OBVIOUS
  <2> QED BY <2>1, <2>2, <2>3, <2>4, <2>5, <2>6
<1>4. CASE FlowTrader!Exit
  <2>. USE <1>4 DEF FlowTrader!Exit
  <2>1. (v1 \in 1..Len(DaysIn) /\ v2 \in 1..DaysIn[v1])'
    OBVIOUS
  <2>2. (v3 \in BOOLEAN /\ v10 \in BOOLEAN)'
    OBVIOUS
  <2>3. (v4 \in Nat /\ v9 \in Nat)'
    OBVIOUS
  <2>4. ({v5, v6} \subseteq [holding : 0..1, entered : 0..Len(DaysIn)])'
    OBVIOUS
  <2>5. (v7 \in {"idle", "entered", "exited"})'
    OBVIOUS
  <2>6. (v8 \in 0..FlowTrouble)'
    OBVIOUS
  <2> QED BY <2>1, <2>2, <2>3, <2>4, <2>5, <2>6
<1>5. CASE FlowTrader!Restart \/ FlowTrader!WindowOpens
  <2>. USE <1>5 DEF FlowTrader!Restart, FlowTrader!WindowOpens
  <2>1. (v1 \in 1..Len(DaysIn) /\ v2 \in 1..DaysIn[v1])'
    OBVIOUS
  <2>2. (v3 \in BOOLEAN /\ v10 \in BOOLEAN)'
    OBVIOUS
  <2>3. (v4 \in Nat /\ v9 \in Nat)'
    OBVIOUS
  <2>4. ({v5, v6} \subseteq [holding : 0..1, entered : 0..Len(DaysIn)])'
    OBVIOUS
  <2>5. (v7 \in {"idle", "entered", "exited"})'
    OBVIOUS
  <2>6. (v8 \in 0..FlowTrouble)'
    OBVIOUS
  <2> QED BY <2>1, <2>2, <2>3, <2>4, <2>5, <2>6
<1>6. CASE FlowTrader!NextDay
  <2>. USE <1>6 DEF FlowTrader!NextDay
  <2>1. (v1 \in 1..Len(DaysIn) /\ v2 \in 1..DaysIn[v1])'
    OBVIOUS
  <2>2. (v3 \in BOOLEAN /\ v10 \in BOOLEAN)'
    OBVIOUS
  <2>3. (v4 \in Nat /\ v9 \in Nat)'
    OBVIOUS
  <2>4. ({v5, v6} \subseteq [holding : 0..1, entered : 0..Len(DaysIn)])'
    OBVIOUS
  <2>5. (v7 \in {"idle", "entered", "exited"})'
    OBVIOUS
  <2>6. (v8 \in 0..FlowTrouble)'
    OBVIOUS
  <2> QED BY <2>1, <2>2, <2>3, <2>4, <2>5, <2>6
<1> QED BY <1>1, <1>2, <1>3, <1>4, <1>5, <1>6 DEF NextFlowTrader

LEMMA InputTypesInit == ScanInputs!Init => ScanInputs!TypeOK
<1>. SUFFICES ASSUME ScanInputs!Init PROVE ScanInputs!TypeOK
  OBVIOUS
<1>. USE BoundsAssumption, InputsAssumption DEF ScanInputs!Init, ScanInputs!None
<1>1. v1 \in BOOLEAN
  OBVIOUS
<1>2. v2 \in 0..MaxOutages
  OBVIOUS
<1>3. v3 \in {ScanInputs!None} \cup 0..(SuppressAfter + 1)
  OBVIOUS
<1>4. v4 \subseteq Symbol /\ v6 \subseteq Symbol
  OBVIOUS
<1>5. v5 = ScanInputs!Unvetted \/ v5 \subseteq v6
  OBVIOUS
<1>6. v7 \in {ScanInputs!None} \cup 0..(StaleAfter + 1)
  OBVIOUS
<1>7. v8 \in {"idle", "refreshed", "scanning"}
  OBVIOUS
<1>8. v9 \subseteq Symbol /\ v11 \subseteq Symbol
  OBVIOUS
<1>9. {v10, v14, v15} \subseteq BOOLEAN
  OBVIOUS
<1>10. v12 \in {"none", "up", "down"}
  OBVIOUS
<1>11. v13 \in {ScanInputs!None} \cup 0..WarnEvery
  OBVIOUS
<1>12. v16 \subseteq Symbol
  OBVIOUS
<1>13. v17 \in 0..(SuppressAfter + 1)
  OBVIOUS
<1>14. {v18, v19} \subseteq BOOLEAN
  OBVIOUS
<1> QED BY <1>1, <1>2, <1>3, <1>4, <1>5, <1>6, <1>7, <1>8, <1>9, <1>10, <1>11, <1>12, <1>13,
   <1>14 DEF ScanInputs!TypeOK

LEMMA InputTypes ==
  ASSUME ScanInputs!TypeOK, NextScanInputs
  PROVE  ScanInputs!TypeOK'
<1>. USE BoundsAssumption, InputsAssumption DEF ScanInputs!TypeOK, ScanInputs!None,
       ScanInputs!bus, ScanInputs!engine, ScanInputs!models, ScanInputs!history
<1>1. CASE ScanInputs!Period
  BY <1>1 DEF ScanInputs!Period, ScanInputs!Later
<1>2. CASE ScanInputs!Outage \/ ScanInputs!Others
  <2>. USE <1>2 DEF ScanInputs!Outage, ScanInputs!Others
  <2>1. (v1 \in BOOLEAN)'
    OBVIOUS
  <2>2. (v2 \in 0..MaxOutages)'
    OBVIOUS
  <2>3. (v3 \in {ScanInputs!None} \cup 0..(SuppressAfter + 1))'
    OBVIOUS
  <2>4. (v4 \subseteq Symbol /\ v6 \subseteq Symbol)'
    OBVIOUS
  <2>5. (v5 = ScanInputs!Unvetted \/ v5 \subseteq v6)'
    OBVIOUS
  <2>6. (v7 \in {ScanInputs!None} \cup 0..(StaleAfter + 1))'
    OBVIOUS
  <2>7. (v8 \in {"idle", "refreshed", "scanning"})'
    OBVIOUS
  <2>8. (v9 \subseteq Symbol /\ v11 \subseteq Symbol)'
    OBVIOUS
  <2>9. ({v10, v14, v15} \subseteq BOOLEAN)'
    OBVIOUS
  <2>10. (v12 \in {"none", "up", "down"})'
    OBVIOUS
  <2>11. (v13 \in {ScanInputs!None} \cup 0..WarnEvery)'
    OBVIOUS
  <2>12. (v16 \subseteq Symbol)'
    OBVIOUS
  <2>13. (v17 \in 0..(SuppressAfter + 1))'
    OBVIOUS
  <2>14. ({v18, v19} \subseteq BOOLEAN)'
    OBVIOUS
  <2> QED BY <2>1, <2>2, <2>3, <2>4, <2>5, <2>6, <2>7, <2>8, <2>9, <2>10, <2>11, <2>12, <2>13,
   <2>14
<1>3. CASE ScanInputs!StreamDies \/ ScanInputs!Retrained
  BY <1>3 DEF ScanInputs!StreamDies, ScanInputs!Retrained
<1>4. CASE ScanInputs!Refresh
  <2>. USE <1>4 DEF ScanInputs!Refresh, ScanInputs!Noted, ScanInputs!Hash,
       ScanInputs!Fresh, ScanInputs!ReachesReload
  <2>1. (v1 \in BOOLEAN)'
    OBVIOUS
  <2>2. (v2 \in 0..MaxOutages)'
    OBVIOUS
  <2>3. (v3 \in {ScanInputs!None} \cup 0..(SuppressAfter + 1))'
    OBVIOUS
  <2>4. (v4 \subseteq Symbol /\ v6 \subseteq Symbol)'
    OBVIOUS
  <2>5. (v5 = ScanInputs!Unvetted \/ v5 \subseteq v6)'
    OBVIOUS
  <2>6. (v7 \in {ScanInputs!None} \cup 0..(StaleAfter + 1))'
    OBVIOUS
  <2>7. (v8 \in {"idle", "refreshed", "scanning"})'
    OBVIOUS
  <2>8. (v9 \subseteq Symbol /\ v11 \subseteq Symbol)'
    OBVIOUS
  <2>9. ({v10, v14, v15} \subseteq BOOLEAN)'
    OBVIOUS
  <2>10. (v12 \in {"none", "up", "down"})'
    OBVIOUS
  <2>11. (v13 \in {ScanInputs!None} \cup 0..WarnEvery)'
    OBVIOUS
  <2>12. (v16 \subseteq Symbol)'
    OBVIOUS
  <2>13. (v17 \in 0..(SuppressAfter + 1))'
    OBVIOUS
  <2>14. ({v18, v19} \subseteq BOOLEAN)'
    OBVIOUS
  <2> QED BY <2>1, <2>2, <2>3, <2>4, <2>5, <2>6, <2>7, <2>8, <2>9, <2>10, <2>11, <2>12, <2>13,
   <2>14
<1>5. CASE ScanInputs!Choose
  BY <1>5 DEF ScanInputs!Choose, ScanInputs!Noted, ScanInputs!Targets,
     ScanInputs!State, ScanInputs!Unvetted
<1>6. CASE ScanInputs!Buy \/ ScanInputs!ScanEnds
  BY <1>6 DEF ScanInputs!Buy, ScanInputs!ScanEnds
<1>7. CASE ScanInputs!Restart
  BY <1>7 DEF ScanInputs!Restart
<1> QED BY <1>1, <1>2, <1>3, <1>4, <1>5, <1>6, <1>7 DEF NextScanInputs

LEMMA RegimeTypesInit == Regime!Init => Regime!TypeOK
<1>. SUFFICES ASSUME Regime!Init PROVE Regime!TypeOK
  OBVIOUS
<1>. USE BoundsAssumption, RegimeAssumption DEF Regime!Init, Regime!Free,
       Regime!NoCandidate, Regime!RegimeName
<1>1. v1 \in BOOLEAN
  OBVIOUS
<1>2. v2 \in 0..MaxThreads
  OBVIOUS
<1>3. v3 \in {Regime!Free, "fetching", "publishing"}
  OBVIOUS
<1>4. {v4, v11} \subseteq Regime!RegimeName
  OBVIOUS
<1>5. v5 \in Regime!RegimeName \cup {Regime!NoCandidate}
  OBVIOUS
<1>6. v6 \in 0..ReadsRequired
  OBVIOUS
<1>7. {v7, v12} \subseteq Regime!RegimeName \cup {"none"}
  OBVIOUS
<1>8. v8 \in 0..MaxFaults
  OBVIOUS
<1>9. v9 \in 0..MaxRestarts
  OBVIOUS
<1>10. v10 \in Seq(Regime!RegimeName)
  OBVIOUS
<1> QED BY <1>1, <1>2, <1>3, <1>4, <1>5, <1>6, <1>7, <1>8, <1>9, <1>10 DEF Regime!TypeOK

LEMMA RegimeTypes ==
  ASSUME Regime!TypeOK, Regime!HysteresisHolds, NextRegime
  PROVE  Regime!TypeOK'
<1>. USE BoundsAssumption, RegimeAssumption DEF Regime!TypeOK, Regime!Free,
       Regime!NoCandidate, Regime!RegimeName
<1>1. CASE Regime!Setup \/ Regime!Start \/ Regime!Acquire \/ Regime!NoData
  <2>. USE <1>1 DEF Regime!Setup, Regime!Start, Regime!Acquire, Regime!NoData
  <2>1. (v1 \in BOOLEAN)'
    OBVIOUS
  <2>2. (v2 \in 0..MaxThreads)'
    OBVIOUS
  <2>3. (v3 \in {Regime!Free, "fetching", "publishing"})'
    OBVIOUS
  <2>4. ({v4, v11} \subseteq Regime!RegimeName)'
    OBVIOUS
  <2>5. (v5 \in Regime!RegimeName \cup {Regime!NoCandidate})'
    OBVIOUS
  <2>6. (v6 \in 0..ReadsRequired)'
    OBVIOUS
  <2>7. ({v7, v12} \subseteq Regime!RegimeName \cup {"none"})'
    OBVIOUS
  <2>8. (v8 \in 0..MaxFaults)'
    OBVIOUS
  <2>9. (v9 \in 0..MaxRestarts)'
    OBVIOUS
  <2>10. (v10 \in Seq(Regime!RegimeName))'
    OBVIOUS
  <2> QED BY <2>1, <2>2, <2>3, <2>4, <2>5, <2>6, <2>7, <2>8, <2>9, <2>10
<1>2. CASE Regime!Classify
  BY <1>2, ClassifiedType DEF Regime!Classify, Regime!Update, Regime!Latest
<1>3. CASE Regime!Publish
  BY <1>3 DEF Regime!Publish
<1>4. CASE Regime!Restart
  <2>. USE <1>4 DEF Regime!Restart
  <2>1. (v1 \in BOOLEAN)'
    OBVIOUS
  <2>2. (v2 \in 0..MaxThreads)'
    OBVIOUS
  <2>3. (v3 \in {Regime!Free, "fetching", "publishing"})'
    OBVIOUS
  <2>4. ({v4, v11} \subseteq Regime!RegimeName)'
    OBVIOUS
  <2>5. (v5 \in Regime!RegimeName \cup {Regime!NoCandidate})'
    OBVIOUS
  <2>6. (v6 \in 0..ReadsRequired)'
    OBVIOUS
  <2>7. ({v7, v12} \subseteq Regime!RegimeName \cup {"none"})'
    OBVIOUS
  <2>8. (v8 \in 0..MaxFaults)'
    OBVIOUS
  <2>9. (v9 \in 0..MaxRestarts)'
    OBVIOUS
  <2>10. (v10 \in Seq(Regime!RegimeName))'
    OBVIOUS
  <2> QED BY <2>1, <2>2, <2>3, <2>4, <2>5, <2>6, <2>7, <2>8, <2>9, <2>10
<1> QED BY <1>1, <1>2, <1>3, <1>4 DEF NextRegime

-----------------------------------------------------------------------------
(* The day of the trader: what is held, what is out and what is counted.   *)

LEMMA ElementOf ==
  ASSUME NEW S, NEW s \in Seq(S), NEW i \in 1..Len(s)
  PROVE  s[i] \in S
  OBVIOUS

LEMMA DaysAreOrdered ==
  /\ Len(Phases) \in Nat \ {0}
  /\ \A i \in 1..Len(Phases) : Phases[i].day \in Nat
  /\ \A i \in 1..Len(Phases) : i < Len(Phases) => Phases[i].day <= Phases[i + 1].day
<1>1. Phases \in Seq([name : STRING, day : Nat]) /\ Phases # << >>
  BY SessionsAssumption
<1>2. Len(Phases) \in Nat \ {0}
  BY <1>1
<1>5. \A i \in 1..Len(Phases) : Phases[i] \in [name : STRING, day : Nat]
  BY <1>1, ElementOf
<1>3. ASSUME NEW i \in 1..Len(Phases), i < Len(Phases) PROVE Phases[i].day <= Phases[i + 1].day
  <2>1. i + 1 \in 2..Len(Phases) /\ (i + 1) - 1 = i
    BY <1>2, <1>3
  <2>2. Phases[(i + 1) - 1].day <= Phases[i + 1].day
    BY <2>1, SessionsAssumption
  <2> QED BY <2>1, <2>2
<1>4. \A i \in 1..Len(Phases) : Phases[i].day \in Nat
  BY <1>5
<1> QED BY <1>2, <1>3, <1>4

LEMMA SymbolsCounted ==
  ASSUME NEW S \in SUBSET Symbols
  PROVE  TradeDay!Cardinality(S) \in Nat
<1>1. TradeDay!Cardinality(S) = Cardinality(S)
  BY DEF TradeDay!Cardinality, Cardinality
<1> QED BY <1>1, SizingAssumption, FS_Subset, FS_CardinalityType

LEMMA LossesShow ==
  ASSUME NEW n \in Nat, v6 \in 0..WeekLoss, TradeDay!Realised(n)
  PROVE  v6' \in 0..WeekLoss
  BY BoundsAssumption DEF TradeDay!Realised

LEMMA SomeSold ==
  ASSUME NEW wanted \in SUBSET v7, v7 \subseteq Symbols, v15 \subseteq v7, v12 \in 0..MaxTrouble,
         TradeDay!Sell(wanted)
  PROVE  v7' \subseteq Symbols /\ v15' \subseteq v7' /\ v12' \in 0..MaxTrouble
  BY SymbolsCounted, BoundsAssumption DEF TradeDay!Sell

LEMMA DayTypesInit == TradeDay!Init => TradeDay!TypeOK
<1>. SUFFICES ASSUME TradeDay!Init PROVE TradeDay!TypeOK
  OBVIOUS
<1>. USE BoundsAssumption, DaysAreOrdered DEF TradeDay!Init, TradeDay!NoBase,
       TradeDay!Today
<1>1. v1 \in 1..Len(Phases)
  OBVIOUS
<1>2. v2 \in {"down", "asleep", "connected", "scanning", "ended"}
  OBVIOUS
<1>3. v3 \in {"top", "synced", "closed", "scan"}
  OBVIOUS
<1>4. v4 \in 0..MaxNav
  OBVIOUS
<1>5. v6 \in 0..WeekLoss
  OBVIOUS
<1>6. v5 \in [nav : 0..MaxNav, day : 0..TradeDay!Today]
  OBVIOUS
<1>7. v7 \subseteq Symbols /\ v15 \subseteq v7
  OBVIOUS
<1>8. {v8, v9, v10, v13, v14} \subseteq BOOLEAN
  OBVIOUS
<1>9. v11 \in 0..1
  OBVIOUS
<1>10. v12 \in 0..MaxTrouble
  OBVIOUS
<1> QED BY <1>1, <1>2, <1>3, <1>4, <1>5, <1>6, <1>7, <1>8, <1>9, <1>10 DEF TradeDay!TypeOK

LEMMA DayTypes ==
  ASSUME TradeDay!TypeOK, NextTradeDay
  PROVE  TradeDay!TypeOK'
<1>. USE BoundsAssumption, DaysAreOrdered DEF TradeDay!TypeOK, TradeDay!history,
       TradeDay!memory
<1>1. CASE TradeDay!Boot
  <2>. USE <1>1 DEF TradeDay!Boot, TradeDay!Today
  <2>1. (v1 \in 1..Len(Phases))'
    OBVIOUS
  <2>2. (v2 \in {"down", "asleep", "connected", "scanning", "ended"})'
    OBVIOUS
  <2>3. (v3 \in {"top", "synced", "closed", "scan"})'
    OBVIOUS
  <2>4. (v4 \in 0..MaxNav)'
    OBVIOUS
  <2>5. (v6 \in 0..WeekLoss)'
    OBVIOUS
  <2>6. (v5 \in [nav : 0..MaxNav, day : 0..TradeDay!Today])'
    OBVIOUS
  <2>7. (v7 \subseteq Symbols /\ v15 \subseteq v7)'
    OBVIOUS
  <2>8. ({v8, v9, v10, v13, v14} \subseteq BOOLEAN)'
    OBVIOUS
  <2>9. (v11 \in 0..1)'
    OBVIOUS
  <2>10. (v12 \in 0..MaxTrouble)'
    OBVIOUS
  <2> QED BY <2>1, <2>2, <2>3, <2>4, <2>5, <2>6, <2>7, <2>8, <2>9, <2>10
<1>2. CASE TradeDay!PreMarketDump
  <2>. USE <1>2 DEF TradeDay!PreMarketDump, TradeDay!Today
  <2>1. (v1 \in 1..Len(Phases))'
    OBVIOUS
  <2>2. (v2 \in {"down", "asleep", "connected", "scanning", "ended"})'
    OBVIOUS
  <2>3. (v3 \in {"top", "synced", "closed", "scan"})'
    OBVIOUS
  <2>4. (v4 \in 0..MaxNav)'
    OBVIOUS
  <2>5. (v6 \in 0..WeekLoss)'
    BY SomeSold, LossesShow
  <2>6. (v5 \in [nav : 0..MaxNav, day : 0..TradeDay!Today])'
    OBVIOUS
  <2>7. (v7 \subseteq Symbols /\ v15 \subseteq v7)'
    BY SomeSold, LossesShow
  <2>8. ({v8, v9, v10, v13, v14} \subseteq BOOLEAN)'
    OBVIOUS
  <2>9. (v11 \in 0..1)'
    OBVIOUS
  <2>10. (v12 \in 0..MaxTrouble)'
    BY SomeSold, LossesShow
  <2> QED BY <2>1, <2>2, <2>3, <2>4, <2>5, <2>6, <2>7, <2>8, <2>9, <2>10
<1>3. CASE TradeDay!Wakes \/ TradeDay!CannotConnect
  <2>. USE <1>3 DEF TradeDay!Wakes, TradeDay!CannotConnect, TradeDay!Today,
       TradeDay!NoBase, TradeDay!Forget
  <2>1. (v1 \in 1..Len(Phases))'
    OBVIOUS
  <2>2. (v2 \in {"down", "asleep", "connected", "scanning", "ended"})'
    OBVIOUS
  <2>3. (v3 \in {"top", "synced", "closed", "scan"})'
    OBVIOUS
  <2>4. (v4 \in 0..MaxNav)'
    OBVIOUS
  <2>5. (v6 \in 0..WeekLoss)'
    OBVIOUS
  <2>6. (v5 \in [nav : 0..MaxNav, day : 0..TradeDay!Today])'
    OBVIOUS
  <2>7. (v7 \subseteq Symbols /\ v15 \subseteq v7)'
    OBVIOUS
  <2>8. ({v8, v9, v10, v13, v14} \subseteq BOOLEAN)'
    OBVIOUS
  <2>9. (v11 \in 0..1)'
    OBVIOUS
  <2>10. (v12 \in 0..MaxTrouble)'
    OBVIOUS
  <2> QED BY <2>1, <2>2, <2>3, <2>4, <2>5, <2>6, <2>7, <2>8, <2>9, <2>10
<1>4. CASE TradeDay!GapCheck
  <2>. USE <1>4 DEF TradeDay!GapCheck, TradeDay!Today
  <2>1. (v1 \in 1..Len(Phases))'
    OBVIOUS
  <2>2. (v2 \in {"down", "asleep", "connected", "scanning", "ended"})'
    OBVIOUS
  <2>3. (v3 \in {"top", "synced", "closed", "scan"})'
    OBVIOUS
  <2>4. (v4 \in 0..MaxNav)'
    OBVIOUS
  <2>5. (v6 \in 0..WeekLoss)'
    BY LossesShow, SymbolsCounted
  <2>6. (v5 \in [nav : 0..MaxNav, day : 0..TradeDay!Today])'
    OBVIOUS
  <2>7. (v7 \subseteq Symbols /\ v15 \subseteq v7)'
    BY SomeSold, LossesShow
  <2>8. ({v8, v9, v10, v13, v14} \subseteq BOOLEAN)'
    OBVIOUS
  <2>9. (v11 \in 0..1)'
    OBVIOUS
  <2>10. (v12 \in 0..MaxTrouble)'
    BY SomeSold, LossesShow
  <2> QED BY <2>1, <2>2, <2>3, <2>4, <2>5, <2>6, <2>7, <2>8, <2>9, <2>10
<1>5. CASE TradeDay!LoopTop
  <2>. USE <1>5 DEF TradeDay!LoopTop, TradeDay!NewBase, TradeDay!Today, TradeDay!At
  <2>1. (v1 \in 1..Len(Phases))'
    OBVIOUS
  <2>2. (v2 \in {"down", "asleep", "connected", "scanning", "ended"})'
    OBVIOUS
  <2>3. (v3 \in {"top", "synced", "closed", "scan"})'
    OBVIOUS
  <2>4. (v4 \in 0..MaxNav)'
    OBVIOUS
  <2>5. (v6 \in 0..WeekLoss)'
    OBVIOUS
  <2>6. (v5 \in [nav : 0..MaxNav, day : 0..TradeDay!Today])'
    OBVIOUS
  <2>7. (v7 \subseteq Symbols /\ v15 \subseteq v7)'
    OBVIOUS
  <2>8. ({v8, v9, v10, v13, v14} \subseteq BOOLEAN)'
    OBVIOUS
  <2>9. (v11 \in 0..1)'
    OBVIOUS
  <2>10. (v12 \in 0..MaxTrouble)'
    OBVIOUS
  <2> QED BY <2>1, <2>2, <2>3, <2>4, <2>5, <2>6, <2>7, <2>8, <2>9, <2>10
<1>6. CASE TradeDay!SessionEnded \/ TradeDay!LossLimit
  <2>. USE <1>6 DEF TradeDay!SessionEnded, TradeDay!LossLimit, TradeDay!Today,
       TradeDay!At
  <2>1. (v1 \in 1..Len(Phases))'
    OBVIOUS
  <2>2. (v2 \in {"down", "asleep", "connected", "scanning", "ended"})'
    OBVIOUS
  <2>3. (v3 \in {"top", "synced", "closed", "scan"})'
    OBVIOUS
  <2>4. (v4 \in 0..MaxNav)'
    OBVIOUS
  <2>5. (v6 \in 0..WeekLoss)'
    OBVIOUS
  <2>6. (v5 \in [nav : 0..MaxNav, day : 0..TradeDay!Today])'
    OBVIOUS
  <2>7. (v7 \subseteq Symbols /\ v15 \subseteq v7)'
    OBVIOUS
  <2>8. ({v8, v9, v10, v13, v14} \subseteq BOOLEAN)'
    OBVIOUS
  <2>9. (v11 \in 0..1)'
    OBVIOUS
  <2>10. (v12 \in 0..MaxTrouble)'
    OBVIOUS
  <2> QED BY <2>1, <2>2, <2>3, <2>4, <2>5, <2>6, <2>7, <2>8, <2>9, <2>10
<1>7. CASE TradeDay!CloseAll
  <2>. USE <1>7 DEF TradeDay!CloseAll, TradeDay!Today, TradeDay!At
  <2>1. (v1 \in 1..Len(Phases))'
    OBVIOUS
  <2>2. (v2 \in {"down", "asleep", "connected", "scanning", "ended"})'
    OBVIOUS
  <2>3. (v3 \in {"top", "synced", "closed", "scan"})'
    OBVIOUS
  <2>4. (v4 \in 0..MaxNav)'
    OBVIOUS
  <2>5. (v6 \in 0..WeekLoss)'
    BY LossesShow, SymbolsCounted
  <2>6. (v5 \in [nav : 0..MaxNav, day : 0..TradeDay!Today])'
    OBVIOUS
  <2>7. (v7 \subseteq Symbols /\ v15 \subseteq v7)'
    OBVIOUS
  <2>8. ({v8, v9, v10, v13, v14} \subseteq BOOLEAN)'
    OBVIOUS
  <2>9. (v11 \in 0..1)'
    OBVIOUS
  <2>10. (v12 \in 0..MaxTrouble)'
    BY LossesShow, SymbolsCounted
  <2> QED BY <2>1, <2>2, <2>3, <2>4, <2>5, <2>6, <2>7, <2>8, <2>9, <2>10
<1>8. CASE TradeDay!NoEodDue \/ TradeDay!ChooseEntries
  <2>. USE <1>8 DEF TradeDay!NoEodDue, TradeDay!ChooseEntries, TradeDay!Today,
       TradeDay!At
  <2>1. (v1 \in 1..Len(Phases))'
    OBVIOUS
  <2>2. (v2 \in {"down", "asleep", "connected", "scanning", "ended"})'
    OBVIOUS
  <2>3. (v3 \in {"top", "synced", "closed", "scan"})'
    OBVIOUS
  <2>4. (v4 \in 0..MaxNav)'
    OBVIOUS
  <2>5. (v6 \in 0..WeekLoss)'
    OBVIOUS
  <2>6. (v5 \in [nav : 0..MaxNav, day : 0..TradeDay!Today])'
    OBVIOUS
  <2>7. (v7 \subseteq Symbols /\ v15 \subseteq v7)'
    OBVIOUS
  <2>8. ({v8, v9, v10, v13, v14} \subseteq BOOLEAN)'
    OBVIOUS
  <2>9. (v11 \in 0..1)'
    OBVIOUS
  <2>10. (v12 \in 0..MaxTrouble)'
    OBVIOUS
  <2> QED BY <2>1, <2>2, <2>3, <2>4, <2>5, <2>6, <2>7, <2>8, <2>9, <2>10
<1>9. CASE TradeDay!ScanBuys \/ TradeDay!ScanDone
  <2>. USE <1>9 DEF TradeDay!ScanBuys, TradeDay!ScanDone, TradeDay!Today,
       TradeDay!At
  <2>1. (v1 \in 1..Len(Phases))'
    OBVIOUS
  <2>2. (v2 \in {"down", "asleep", "connected", "scanning", "ended"})'
    OBVIOUS
  <2>3. (v3 \in {"top", "synced", "closed", "scan"})'
    OBVIOUS
  <2>4. (v4 \in 0..MaxNav)'
    OBVIOUS
  <2>5. (v6 \in 0..WeekLoss)'
    OBVIOUS
  <2>6. (v5 \in [nav : 0..MaxNav, day : 0..TradeDay!Today])'
    OBVIOUS
  <2>7. (v7 \subseteq Symbols /\ v15 \subseteq v7)'
    OBVIOUS
  <2>8. ({v8, v9, v10, v13, v14} \subseteq BOOLEAN)'
    OBVIOUS
  <2>9. (v11 \in 0..1)'
    OBVIOUS
  <2>10. (v12 \in 0..MaxTrouble)'
    OBVIOUS
  <2> QED BY <2>1, <2>2, <2>3, <2>4, <2>5, <2>6, <2>7, <2>8, <2>9, <2>10
<1>10. CASE TradeDay!ScanSells
  <2>. USE <1>10 DEF TradeDay!ScanSells, TradeDay!Today, TradeDay!At
  <2>1. (v1 \in 1..Len(Phases))'
    OBVIOUS
  <2>2. (v2 \in {"down", "asleep", "connected", "scanning", "ended"})'
    OBVIOUS
  <2>3. (v3 \in {"top", "synced", "closed", "scan"})'
    OBVIOUS
  <2>4. (v4 \in 0..MaxNav)'
    OBVIOUS
  <2>5. (v6 \in 0..WeekLoss)'
    BY LossesShow
  <2>6. (v5 \in [nav : 0..MaxNav, day : 0..TradeDay!Today])'
    OBVIOUS
  <2>7. (v7 \subseteq Symbols /\ v15 \subseteq v7)'
    OBVIOUS
  <2>8. ({v8, v9, v10, v13, v14} \subseteq BOOLEAN)'
    OBVIOUS
  <2>9. (v11 \in 0..1)'
    OBVIOUS
  <2>10. (v12 \in 0..MaxTrouble)'
    OBVIOUS
  <2> QED BY <2>1, <2>2, <2>3, <2>4, <2>5, <2>6, <2>7, <2>8, <2>9, <2>10
<1>11. CASE TradeDay!ShutDown
  <2>. USE <1>11 DEF TradeDay!ShutDown, TradeDay!Today, TradeDay!At
  <2>1. (v1 \in 1..Len(Phases))'
    OBVIOUS
  <2>2. (v2 \in {"down", "asleep", "connected", "scanning", "ended"})'
    OBVIOUS
  <2>3. (v3 \in {"top", "synced", "closed", "scan"})'
    OBVIOUS
  <2>4. (v4 \in 0..MaxNav)'
    OBVIOUS
  <2>5. (v6 \in 0..WeekLoss)'
    BY LossesShow, SymbolsCounted
  <2>6. (v5 \in [nav : 0..MaxNav, day : 0..TradeDay!Today])'
    OBVIOUS
  <2>7. (v7 \subseteq Symbols /\ v15 \subseteq v7)'
    OBVIOUS
  <2>8. ({v8, v9, v10, v13, v14} \subseteq BOOLEAN)'
    OBVIOUS
  <2>9. (v11 \in 0..1)'
    OBVIOUS
  <2>10. (v12 \in 0..MaxTrouble)'
    BY LossesShow, SymbolsCounted
  <2> QED BY <2>1, <2>2, <2>3, <2>4, <2>5, <2>6, <2>7, <2>8, <2>9, <2>10
<1>12. CASE TradeDay!LoopFails \/ TradeDay!Falls \/ TradeDay!HaltExpires
  <2>. USE <1>12 DEF TradeDay!LoopFails, TradeDay!Falls, TradeDay!HaltExpires,
       TradeDay!Today
  <2>1. (v1 \in 1..Len(Phases))'
    OBVIOUS
  <2>2. (v2 \in {"down", "asleep", "connected", "scanning", "ended"})'
    OBVIOUS
  <2>3. (v3 \in {"top", "synced", "closed", "scan"})'
    OBVIOUS
  <2>4. (v4 \in 0..MaxNav)'
    OBVIOUS
  <2>5. (v6 \in 0..WeekLoss)'
    OBVIOUS
  <2>6. (v5 \in [nav : 0..MaxNav, day : 0..TradeDay!Today])'
    OBVIOUS
  <2>7. (v7 \subseteq Symbols /\ v15 \subseteq v7)'
    OBVIOUS
  <2>8. ({v8, v9, v10, v13, v14} \subseteq BOOLEAN)'
    OBVIOUS
  <2>9. (v11 \in 0..1)'
    OBVIOUS
  <2>10. (v12 \in 0..MaxTrouble)'
    OBVIOUS
  <2> QED BY <2>1, <2>2, <2>3, <2>4, <2>5, <2>6, <2>7, <2>8, <2>9, <2>10
<1>13. CASE TradeDay!Finish \/ TradeDay!Dies
  <2>. USE <1>13 DEF TradeDay!Finish, TradeDay!Dies, TradeDay!NoBase,
       TradeDay!Forget, TradeDay!Today
  <2>1. (v1 \in 1..Len(Phases))'
    OBVIOUS
  <2>2. (v2 \in {"down", "asleep", "connected", "scanning", "ended"})'
    OBVIOUS
  <2>3. (v3 \in {"top", "synced", "closed", "scan"})'
    OBVIOUS
  <2>4. (v4 \in 0..MaxNav)'
    OBVIOUS
  <2>5. (v6 \in 0..WeekLoss)'
    OBVIOUS
  <2>6. (v5 \in [nav : 0..MaxNav, day : 0..TradeDay!Today])'
    OBVIOUS
  <2>7. (v7 \subseteq Symbols /\ v15 \subseteq v7)'
    OBVIOUS
  <2>8. ({v8, v9, v10, v13, v14} \subseteq BOOLEAN)'
    OBVIOUS
  <2>9. (v11 \in 0..1)'
    OBVIOUS
  <2>10. (v12 \in 0..MaxTrouble)'
    OBVIOUS
  <2> QED BY <2>1, <2>2, <2>3, <2>4, <2>5, <2>6, <2>7, <2>8, <2>9, <2>10
<1>14. CASE TradeDay!TimePasses
  <2>. USE <1>14 DEF TradeDay!TimePasses, TradeDay!Today
  <2>1. (v1 \in 1..Len(Phases))'
    OBVIOUS
  <2>2. (v2 \in {"down", "asleep", "connected", "scanning", "ended"})'
    OBVIOUS
  <2>3. (v3 \in {"top", "synced", "closed", "scan"})'
    OBVIOUS
  <2>4. (v4 \in 0..MaxNav)'
    OBVIOUS
  <2>5. (v6 \in 0..WeekLoss)'
    OBVIOUS
  <2>6. (v5 \in [nav : 0..MaxNav, day : 0..TradeDay!Today])'
    OBVIOUS
  <2>7. (v7 \subseteq Symbols /\ v15 \subseteq v7)'
    OBVIOUS
  <2>8. ({v8, v9, v10, v13, v14} \subseteq BOOLEAN)'
    OBVIOUS
  <2>9. (v11 \in 0..1)'
    OBVIOUS
  <2>10. (v12 \in 0..MaxTrouble)'
    OBVIOUS
  <2> QED BY <2>1, <2>2, <2>3, <2>4, <2>5, <2>6, <2>7, <2>8, <2>9, <2>10
<1> QED BY <1>1, <1>2, <1>3, <1>4, <1>5, <1>6, <1>7, <1>8, <1>9, <1>10, <1>11, <1>12, <1>13,
   <1>14 DEF NextTradeDay

-----------------------------------------------------------------------------
(* The training file: rows of days that were, read whole.                  *)

LEMMA FeatureTypesInit == FeatureLog!Init => FeatureLog!TypeOK
<1>. SUFFICES ASSUME FeatureLog!Init PROVE FeatureLog!TypeOK
  OBVIOUS
<1>1. v1 \in 1..FeatureDays /\ v5 \in 0..FeatureDays
  BY BoundsAssumption DEF FeatureLog!Init
<1>4. v8 \in BOOLEAN
  BY DEF FeatureLog!Init
<1>2. v2.rows = {} /\ v2.at = "missing"
  BY DEF FeatureLog!Init, FeatureLog!Missing
<1>3. \A p \in FeatureLog!Process : v3[p].rows = {} /\ v3[p].at = "rest"
  BY DEF FeatureLog!Init, FeatureLog!Nothing
<1> QED BY <1>1, <1>2, <1>3, <1>4 DEF FeatureLog!Init, FeatureLog!TypeOK

(* What the file is read as are rows, whoever is writing it.               *)
LEMMA RowsAreRead ==
  ASSUME FeatureLog!TypeOK, NEW S \in FeatureLog!Readable
  PROVE  S \subseteq FeatureLog!Row
<1>1. CASE v4 # {}
  <2>1. PICK p \in v4 : S \in SUBSET v3[p].rows
    BY <1>1, Zenon DEF FeatureLog!Readable
  <2> QED BY <2>1 DEF FeatureLog!TypeOK
<1>2. CASE v4 = {}
  BY <1>2 DEF FeatureLog!Readable, FeatureLog!TypeOK
<1> QED BY <1>1, <1>2

LEMMA KeysOfRows ==
  ASSUME NEW S, S \subseteq FeatureLog!Row
  PROVE  FeatureLog!Keys(S) \subseteq (1..FeatureDays) \X Symbol
<1>1. \A r \in S : FeatureLog!Key(r) \in (1..FeatureDays) \X Symbol
  BY DEF FeatureLog!Row, FeatureLog!Key
<1> QED BY <1>1 DEF FeatureLog!Keys

(* Who begins to work is going to write rows.                              *)
LEMMA BeginsTyped ==
  ASSUME FeatureLog!TypeOK, DOMAIN v3 = FeatureLog!Process, NEW p \in FeatureLog!Process,
         NEW S, S \subseteq FeatureLog!Row, FeatureLog!Begins(p, S),
         UNCHANGED <<v1, v2, v4, v5, v6, v7>>
  PROVE  FeatureLog!TypeOK'
<1>1. v8' \in BOOLEAN
  BY Zenon DEF FeatureLog!Begins
<1>2. v3' = [v3 EXCEPT ![p] = [rows |-> S, at |-> "work"]]
  BY Zenon DEF FeatureLog!Begins
<1>3. \A q \in FeatureLog!Process : v3'[q].rows \subseteq FeatureLog!Row /\ v3'[q].at \in {"rest", "work"}
  BY <1>2 DEF FeatureLog!TypeOK
<1> QED BY <1>1, <1>3 DEF FeatureLog!TypeOK

LEMMA ReadersTyped ==
  ASSUME FeatureLog!TypeOK, DOMAIN v3 = FeatureLog!Process,
         FeatureLog!TraderReads \/ FeatureLog!TrainerReads
  PROVE  FeatureLog!TypeOK'
<1>1. "trader" \in FeatureLog!Process /\ "trainer" \in FeatureLog!Process
  BY DEF FeatureLog!Process
<1>2. CASE FeatureLog!TraderReads
  <2>1. PICK s \in Symbol :
          LET row == [day |-> v1, symbol |-> s, target |-> "none"]
          IN /\ \/ FeatureLog!Begins("trader", {row})
                \/ \E S \in FeatureLog!Readable : FeatureLog!Begins("trader", S \cup {row})
             /\ UNCHANGED <<v1, v2, v4, v5, v6, v7>>
    BY <1>2, Zenon DEF FeatureLog!TraderReads
  <2> DEFINE row == [day |-> v1, symbol |-> s, target |-> "none"]
  <2>2. row \in FeatureLog!Row
    BY DEF FeatureLog!Row, FeatureLog!TypeOK
  <2> HIDE DEF row
  <2>3. CASE FeatureLog!Begins("trader", {row})
    BY <1>1, <2>1, <2>2, <2>3, BeginsTyped
  <2>4. ASSUME NEW S \in FeatureLog!Readable, FeatureLog!Begins("trader", S \cup {row})
        PROVE  FeatureLog!TypeOK'
    <3>1. S \cup {row} \subseteq FeatureLog!Row
      BY <2>2, RowsAreRead
    <3> QED BY <1>1, <2>1, <2>4, <3>1, BeginsTyped
  <2> QED BY <2>1, <2>3, <2>4 DEF row
<1>3. CASE FeatureLog!TrainerReads
  <2>1. PICK S \in FeatureLog!Readable, priced \in SUBSET Symbol :
          LET T == {r \in S : r.target = "none" /\ FeatureLog!Labelable(r) /\ r.symbol \in priced}
          IN FeatureLog!Begins("trainer", (S \ T) \cup {FeatureLog!Label(r) : r \in T})
    BY <1>3 DEF FeatureLog!TrainerReads
  <2> DEFINE T == {r \in S : r.target = "none" /\ FeatureLog!Labelable(r) /\ r.symbol \in priced}
             U == (S \ T) \cup {FeatureLog!Label(r) : r \in T}
  <2>2. UNCHANGED <<v1, v2, v4, v5, v6, v7>> /\ FeatureLog!Begins("trainer", U)
    BY <1>3, <2>1 DEF FeatureLog!TrainerReads
  <2>3. \A r \in FeatureLog!Row : FeatureLog!Label(r) \in FeatureLog!Row
    BY DEF FeatureLog!Row, FeatureLog!Label
  <2>4. U \subseteq FeatureLog!Row
    BY <2>3, RowsAreRead
  <2> HIDE DEF U
  <2> QED BY <1>1, <2>2, <2>4, BeginsTyped
<1> QED BY <1>2, <1>3

LEMMA WritersTyped ==
  ASSUME FeatureLog!TypeOK, DOMAIN v3 = FeatureLog!Process, DOMAIN v2 = {"rows", "at"},
         NEW p \in FeatureLog!Process,
         FeatureLog!Truncates(p) \/ FeatureLog!Finishes(p) \/ FeatureLog!Dies(p)
  PROVE  FeatureLog!TypeOK'
<1>1. CASE FeatureLog!Truncates(p)
  <2>1. /\ v4' = v4 \cup {p} /\ v2' = [rows |-> {}, at |-> "there"]
        /\ UNCHANGED <<v1, v3, v5, v6, v7, v8>>
    BY <1>1 DEF FeatureLog!Truncates
  <2> QED BY <2>1 DEF FeatureLog!TypeOK
<1>2. CASE FeatureLog!Finishes(p)
  <2> DEFINE known == {r \in v3[p].rows : r.target = "known"}
  <2>1. /\ v4' = v4 \ {p} /\ v2' = [v2 EXCEPT !.rows = v3[p].rows]
        /\ v3' = [v3 EXCEPT ![p] = FeatureLog!Nothing]
        /\ v6' = v6 \cup FeatureLog!Keys(v3[p].rows)
        /\ v7' = v7 \cup FeatureLog!Keys(known)
        /\ v5' \in {v1, v5} /\ UNCHANGED <<v1, v8>>
    BY <1>2 DEF FeatureLog!Finishes, FeatureLog!Written
  <2>2. FeatureLog!Keys(v3[p].rows) \subseteq (1..FeatureDays) \X Symbol
    BY KeysOfRows DEF FeatureLog!TypeOK
  <2>3. FeatureLog!Keys(known) \subseteq FeatureLog!Keys(v3[p].rows)
    BY DEF FeatureLog!Keys
  <2>4. v6' \subseteq (1..FeatureDays) \X Symbol /\ v7' \subseteq v6'
    BY <2>1, <2>2, <2>3 DEF FeatureLog!TypeOK
  <2>5. v2'.rows \subseteq FeatureLog!Row /\ v2'.at \in {"missing", "there"}
    BY <2>1 DEF FeatureLog!TypeOK
  <2>6. \A q \in FeatureLog!Process : v3'[q].rows \subseteq FeatureLog!Row /\ v3'[q].at \in {"rest", "work"}
    BY <2>1 DEF FeatureLog!TypeOK, FeatureLog!Nothing
  <2>7. v4' \subseteq FeatureLog!Process /\ v5' \in 0..FeatureDays /\ v1' \in 1..FeatureDays /\ v8' \in BOOLEAN
    BY <2>1 DEF FeatureLog!TypeOK
  <2> QED BY <2>4, <2>5, <2>6, <2>7 DEF FeatureLog!TypeOK
<1>3. CASE FeatureLog!Dies(p)
  <2>1. /\ v3' = [v3 EXCEPT ![p] = FeatureLog!Nothing] /\ v4' = v4 \ {p}
        /\ v2' = v2 \/ \E S \in SUBSET v3[p].rows : v2' = [v2 EXCEPT !.rows = S]
        /\ v8' = v8 \/ v8' = TRUE
        /\ UNCHANGED <<v1, v5, v6, v7>>
    BY <1>3, Zenon DEF FeatureLog!Dies
  <2>2. v2'.rows \subseteq FeatureLog!Row /\ v2'.at \in {"missing", "there"}
    BY <2>1 DEF FeatureLog!TypeOK
  <2>3. \A q \in FeatureLog!Process : v3'[q].rows \subseteq FeatureLog!Row /\ v3'[q].at \in {"rest", "work"}
    BY <2>1 DEF FeatureLog!TypeOK, FeatureLog!Nothing
  <2>4. v4' \subseteq FeatureLog!Process /\ v8' \in BOOLEAN
    BY <2>1 DEF FeatureLog!TypeOK
  <2> QED BY <2>1, <2>2, <2>3, <2>4 DEF FeatureLog!TypeOK
<1> QED BY <1>1, <1>2, <1>3

LEMMA FeatureTypes ==
  ASSUME FeatureLog!TypeOK, FeatureLog!WriterIsAlone, NextFeatureLog
  PROVE  FeatureLog!TypeOK'
<1>1. DOMAIN v3 = FeatureLog!Process /\ DOMAIN v2 = {"rows", "at"}
  BY DEF FeatureLog!WriterIsAlone
<1>2. CASE FeatureLog!NextDay
  <2>1. v1 < FeatureDays /\ v1' = v1 + 1 /\ UNCHANGED <<v2, v3, v4, v5, v6, v7, v8>>
    BY <1>2 DEF FeatureLog!NextDay
  <2>2. v1' \in 1..FeatureDays
    BY <2>1, BoundsAssumption DEF FeatureLog!TypeOK
  <2> QED BY <2>1, <2>2 DEF FeatureLog!TypeOK
<1> QED BY <1>1, <1>2, ReadersTyped, WritersTyped DEF NextFeatureLog

-----------------------------------------------------------------------------
(* The day's profit.                                                       *)

LEMMA PnlTypesInit == DayPnl!Init => DayPnl!TypeOK
<1>. SUFFICES ASSUME DayPnl!Init PROVE DayPnl!TypeOK
  OBVIOUS
<1>. USE BoundsAssumption DEF DayPnl!Init, DayPnl!None, DayPnl!Idle
<1>1. v3 \in Price
  OBVIOUS
<1>2. {v4, v12, v6} \subseteq Price \cup {DayPnl!None}
  OBVIOUS
<1>3. {v7, v14} \subseteq -MaxPnl..MaxPnl
  OBVIOUS
<1>4. {v8, v9} \subseteq -MaxMoney..MaxMoney
  OBVIOUS
<1>5. v11.at \in {"idle", "empty", "known"}
  OBVIOUS
<1>6. v15 \in 0..MaxUnknown
  OBVIOUS
<1>7. {v1, v2, v5, v13} \subseteq BOOLEAN
  OBVIOUS
<1>8. {v16, v17, v18, v19} \subseteq BOOLEAN
  OBVIOUS
<1> QED BY <1>1, <1>2, <1>3, <1>4, <1>5, <1>6, <1>7, <1>8 DEF DayPnl!TypeOK

LEMMA PnlTypes ==
  ASSUME DayPnl!TypeOK, DayPnl!DayIsAccounted, NextDayPnl
  PROVE  DayPnl!TypeOK'
<1>. USE BoundsAssumption DEF DayPnl!TypeOK, DayPnl!account, DayPnl!tracker,
       DayPnl!history
<1>1. CASE DayPnl!PriceMoves
  <2>. USE <1>1 DEF DayPnl!PriceMoves
  <2>1. (v3 \in Price)'
    OBVIOUS
  <2>2. ({v4, v12, v6} \subseteq Price \cup {DayPnl!None})'
    OBVIOUS
  <2>3. ({v7, v14} \subseteq -MaxPnl..MaxPnl)'
    OBVIOUS
  <2>4. ({v8, v9} \subseteq -MaxMoney..MaxMoney)'
    OBVIOUS
  <2>5. (v11.at \in {"idle", "empty", "known"})'
    OBVIOUS
  <2>6. (v15 \in 0..MaxUnknown)'
    OBVIOUS
  <2>7. ({v1, v2, v5, v13} \subseteq BOOLEAN)'
    OBVIOUS
  <2>8. ({v16, v17, v18, v19} \subseteq BOOLEAN)'
    OBVIOUS
  <2> QED BY <2>1, <2>2, <2>3, <2>4, <2>5, <2>6, <2>7, <2>8
<1>2. CASE DayPnl!FlowMoves \/ DayPnl!MoneyMoves
  <2>. USE <1>2 DEF DayPnl!FlowMoves, DayPnl!MoneyMoves
  <2>1. (v3 \in Price)'
    OBVIOUS
  <2>2. ({v4, v12, v6} \subseteq Price \cup {DayPnl!None})'
    OBVIOUS
  <2>3. ({v7, v14} \subseteq -MaxPnl..MaxPnl)'
    OBVIOUS
  <2>4. ({v8, v9} \subseteq -MaxMoney..MaxMoney)'
    OBVIOUS
  <2>5. (v11.at \in {"idle", "empty", "known"})'
    OBVIOUS
  <2>6. (v15 \in 0..MaxUnknown)'
    OBVIOUS
  <2>7. ({v1, v2, v5, v13} \subseteq BOOLEAN)'
    OBVIOUS
  <2>8. ({v16, v17, v18, v19} \subseteq BOOLEAN)'
    OBVIOUS
  <2> QED BY <2>1, <2>2, <2>3, <2>4, <2>5, <2>6, <2>7, <2>8
<1>3. CASE DayPnl!BuyFills
  <2>. USE <1>3 DEF DayPnl!BuyFills
  <2>1. (v3 \in Price)'
    OBVIOUS
  <2>2. ({v4, v12, v6} \subseteq Price \cup {DayPnl!None})'
    OBVIOUS
  <2>3. ({v7, v14} \subseteq -MaxPnl..MaxPnl)'
    OBVIOUS
  <2>4. ({v8, v9} \subseteq -MaxMoney..MaxMoney)'
    OBVIOUS
  <2>5. (v11.at \in {"idle", "empty", "known"})'
    OBVIOUS
  <2>6. (v15 \in 0..MaxUnknown)'
    OBVIOUS
  <2>7. ({v1, v2, v5, v13} \subseteq BOOLEAN)'
    OBVIOUS
  <2>8. ({v16, v17, v18, v19} \subseteq BOOLEAN)'
    OBVIOUS
  <2> QED BY <2>1, <2>2, <2>3, <2>4, <2>5, <2>6, <2>7, <2>8
<1>4. CASE DayPnl!SellFills
  <2>. USE <1>4 DEF DayPnl!SellFills
  <2>1. (v3 \in Price)'
    OBVIOUS
  <2>2. ({v4, v12, v6} \subseteq Price \cup {DayPnl!None})'
    OBVIOUS
  <2>3. ({v7, v14} \subseteq -MaxPnl..MaxPnl)'
    OBVIOUS
  <2>4. ({v8, v9} \subseteq -MaxMoney..MaxMoney)'
    OBVIOUS
  <2>5. (v11.at \in {"idle", "empty", "known"})'
    OBVIOUS
  <2>6. (v15 \in 0..MaxUnknown)'
    OBVIOUS
  <2>7. ({v1, v2, v5, v13} \subseteq BOOLEAN)'
    OBVIOUS
  <2>8. ({v16, v17, v18, v19} \subseteq BOOLEAN)'
    OBVIOUS
  <2> QED BY <2>1, <2>2, <2>3, <2>4, <2>5, <2>6, <2>7, <2>8
<1>5. CASE DayPnl!Summary
  <2>. USE <1>5 DEF DayPnl!Summary, DayPnl!Empty
  <2>1. (v3 \in Price)'
    OBVIOUS
  <2>2. ({v4, v12, v6} \subseteq Price \cup {DayPnl!None})'
    OBVIOUS
  <2>3. ({v7, v14} \subseteq -MaxPnl..MaxPnl)'
    OBVIOUS
  <2>4. ({v8, v9} \subseteq -MaxMoney..MaxMoney)'
    OBVIOUS
  <2>5. (v11.at \in {"idle", "empty", "known"})'
    OBVIOUS
  <2>6. (v15 \in 0..MaxUnknown)'
    OBVIOUS
  <2>7. ({v1, v2, v5, v13} \subseteq BOOLEAN)'
    OBVIOUS
  <2>8. ({v16, v17, v18, v19} \subseteq BOOLEAN)'
    OBVIOUS
  <2> QED BY <2>1, <2>2, <2>3, <2>4, <2>5, <2>6, <2>7, <2>8
<1>6. CASE DayPnl!Positions
  <2>. USE <1>6 DEF DayPnl!Positions, DayPnl!RecordSale, DayPnl!Idle, DayPnl!Warns
  <2>1. (v3 \in Price)'
    OBVIOUS
  <2>2. ({v4, v12, v6} \subseteq Price \cup {DayPnl!None})'
    OBVIOUS
  <2>3. ({v7, v14} \subseteq -MaxPnl..MaxPnl)'
    OBVIOUS
  <2>4. ({v8, v9} \subseteq -MaxMoney..MaxMoney)'
    OBVIOUS
  <2>5. (v11.at \in {"idle", "empty", "known"})'
    OBVIOUS
  <2>6. (v15 \in 0..MaxUnknown)'
    OBVIOUS
  <2>7. ({v1, v2, v5, v13} \subseteq BOOLEAN)'
    OBVIOUS
  <2>8. ({v16, v17, v18, v19} \subseteq BOOLEAN)'
    OBVIOUS
  <2> QED BY <2>1, <2>2, <2>3, <2>4, <2>5, <2>6, <2>7, <2>8
<1>7. CASE DayPnl!Restart
  <2>. USE <1>7 DEF DayPnl!Restart, DayPnl!Idle, DayPnl!None
  <2>1. (v3 \in Price)'
    OBVIOUS
  <2>2. ({v4, v12, v6} \subseteq Price \cup {DayPnl!None})'
    OBVIOUS
  <2>3. ({v7, v14} \subseteq -MaxPnl..MaxPnl)'
    OBVIOUS
  <2>4. ({v8, v9} \subseteq -MaxMoney..MaxMoney)'
    OBVIOUS
  <2>5. (v11.at \in {"idle", "empty", "known"})'
    OBVIOUS
  <2>6. (v15 \in 0..MaxUnknown)'
    OBVIOUS
  <2>7. ({v1, v2, v5, v13} \subseteq BOOLEAN)'
    OBVIOUS
  <2>8. ({v16, v17, v18, v19} \subseteq BOOLEAN)'
    OBVIOUS
  <2> QED BY <2>1, <2>2, <2>3, <2>4, <2>5, <2>6, <2>7, <2>8
<1>8. CASE DayPnl!Close
  <2>. USE <1>8 DEF DayPnl!Close
  <2>1. (v3 \in Price)'
    OBVIOUS
  <2>2. ({v4, v12, v6} \subseteq Price \cup {DayPnl!None})'
    OBVIOUS
  <2>3. ({v7, v14} \subseteq -MaxPnl..MaxPnl)'
    OBVIOUS
  <2>4. ({v8, v9} \subseteq -MaxMoney..MaxMoney)'
    OBVIOUS
  <2>5. (v11.at \in {"idle", "empty", "known"})'
    OBVIOUS
  <2>6. (v15 \in 0..MaxUnknown)'
    OBVIOUS
  <2>7. ({v1, v2, v5, v13} \subseteq BOOLEAN)'
    OBVIOUS
  <2>8. ({v16, v17, v18, v19} \subseteq BOOLEAN)'
    OBVIOUS
  <2> QED BY <2>1, <2>2, <2>3, <2>4, <2>5, <2>6, <2>7, <2>8
<1>9. CASE DayPnl!NextDay
  <2>. USE <1>9 DEF DayPnl!NextDay, DayPnl!Holds, DayPnl!Pending
  <2>1. (v3 \in Price)'
    OBVIOUS
  <2>2. ({v4, v12, v6} \subseteq Price \cup {DayPnl!None})'
    OBVIOUS
  <2>3. ({v7, v14} \subseteq -MaxPnl..MaxPnl)'
    OBVIOUS
  <2>4. ({v8, v9} \subseteq -MaxMoney..MaxMoney)'
    OBVIOUS
  <2>5. (v11.at \in {"idle", "empty", "known"})'
    OBVIOUS
  <2>6. (v15 \in 0..MaxUnknown)'
    OBVIOUS
  <2>7. ({v1, v2, v5, v13} \subseteq BOOLEAN)'
    OBVIOUS
  <2>8. ({v16, v17, v18, v19} \subseteq BOOLEAN)'
    OBVIOUS
  <2> QED BY <2>1, <2>2, <2>3, <2>4, <2>5, <2>6, <2>7, <2>8
<1> QED BY <1>1, <1>2, <1>3, <1>4, <1>5, <1>6, <1>7, <1>8, <1>9 DEF NextDayPnl

-----------------------------------------------------------------------------
(* The trade log: rows are records, and a plan is one of rows there are.   *)

LEMMA LedgerTypesInit == TradeLedger!Init => TradeLedger!TypeOK
<1>. SUFFICES ASSUME TradeLedger!Init PROVE TradeLedger!TypeOK
  OBVIOUS
<1>1. PICK q \in Qty, p \in Price : v2 = <<[qty |-> q, price |-> p, at |-> 0]>>
  BY DEF TradeLedger!Init
<1>2. PICK pnl, net, quote : v3 = <<TradeLedger!Row(1, quote, pnl, net)>>
  BY Zenon DEF TradeLedger!Init
<1>3. Len(v2) = 1 /\ DOMAIN v2 = {1} /\ v2[1].qty = q /\ v2[1].price = p
  BY <1>1
<1>4. DOMAIN v3 = {1} /\ v3[1].of = 1 /\ v3[1].qty = q
  BY <1>2, <1>3 DEF TradeLedger!Row
<1>5. \A p2 \in TradeLedger!Process : v6[p2].at = "down"
  BY DEF TradeLedger!Init, TradeLedger!Down
<1>6. v4 \in BOOLEAN /\ v5 \in BOOLEAN /\ v8 \in BOOLEAN
  BY DEF TradeLedger!Init
<1>7. v1 \in Nat /\ v9 \in 0..MaxCrashes /\ Len(v2) <= LedgerSales /\ v7 = {}
  BY <1>3, BoundsAssumption DEF TradeLedger!Init
<1> QED BY <1>3, <1>4, <1>5, <1>6, <1>7 DEF TradeLedger!TypeOK

(* Fills are only added, and so are rows; a row keeps its fill and its     *)
(* quantity.                                                               *)
LedgerGrows ==
  /\ v2' \in Seq(TradeLedger!Fill) /\ Len(v2') <= LedgerSales /\ DOMAIN v2 \subseteq DOMAIN v2'
  /\ DOMAIN v3 \subseteq DOMAIN v3'
  /\ \A i \in DOMAIN v3' : v3'[i].of \in DOMAIN v2' /\ v3'[i].qty \in Qty

LEMMA LedgerOnly ==
  ASSUME TradeLedger!TypeOK, LedgerGrows, v1' \in Nat,
         UNCHANGED <<v4, v5, v6, v9>>, v8' \in BOOLEAN, v7' \subseteq v7
  PROVE  TradeLedger!TypeOK'
<1>1. \A f \in DOMAIN v2' : v2'[f].qty \in Qty /\ v2'[f].price \in Price
  <2>1. v2' \in Seq(TradeLedger!Fill)
    BY DEF LedgerGrows
  <2>2. DOMAIN v2' = 1..Len(v2')
    BY <2>1
  <2>3. \A f \in DOMAIN v2' : v2'[f] \in TradeLedger!Fill
    BY <2>1, <2>2, ElementOf
  <2> QED BY <2>3 DEF TradeLedger!Fill
<1>2. \A c \in v7' : c.row \in DOMAIN v3' /\ c.fill \in DOMAIN v2'
  BY DEF TradeLedger!TypeOK, LedgerGrows
<1> QED BY <1>1, <1>2 DEF TradeLedger!TypeOK, LedgerGrows

LEMMA TraderTyped ==
  ASSUME TradeLedger!TypeOK, TradeLedger!LedgerTypeOK,
         TradeLedger!SaleFills \/ TradeLedger!Insert \/ TradeLedger!Tick
  PROVE  TradeLedger!TypeOK'
<1>1. CASE TradeLedger!SaleFills
  <2>1. PICK q \in Qty, p \in Price : v2' = Append(v2, [qty |-> q, price |-> p, at |-> v1])
    BY <1>1 DEF TradeLedger!SaleFills, TradeLedger!Sale
  <2>2. Len(v2) < LedgerSales /\ UNCHANGED <<v1, v3, v4, v5, v6, v7, v8, v9>>
    BY <1>1 DEF TradeLedger!SaleFills
  <2>3. [qty |-> q, price |-> p, at |-> v1] \in TradeLedger!Fill
    BY DEF TradeLedger!Fill, TradeLedger!LedgerTypeOK
  <2>4. v2' \in Seq(TradeLedger!Fill) /\ Len(v2') = Len(v2) + 1 /\ DOMAIN v2 \subseteq DOMAIN v2'
    <3> HIDE DEF TradeLedger!Fill
    <3> QED BY <2>1, <2>3 DEF TradeLedger!LedgerTypeOK
  <2>5. Len(v2) \in Nat
    BY DEF TradeLedger!LedgerTypeOK
  <2>6. LedgerGrows
    BY <2>2, <2>4, <2>5, BoundsAssumption DEF LedgerGrows, TradeLedger!TypeOK
  <2> QED BY <2>2, <2>6, LedgerOnly DEF TradeLedger!TypeOK
<1>2. CASE TradeLedger!Insert
  <2>1. PICK f \in TradeLedger!Unrecorded, known \in BOOLEAN, q \in Qty :
          LET price == IF known THEN v2[f].price ELSE Cost
              pnl == IF known THEN <<(v2[f].price - Cost) * q>> ELSE TradeLedger!Unknown
              row == TradeLedger!Row(f, price, pnl, TradeLedger!NetPnl(pnl, q * price))
          IN v3' = Append(v3, [row EXCEPT !.qty = q])
    BY <1>2 DEF TradeLedger!Insert
  <2>2. PICK price, pnl, net : v3' = Append(v3, [TradeLedger!Row(f, price, pnl, net) EXCEPT !.qty = q])
    BY <2>1
  <2> DEFINE row == [TradeLedger!Row(f, price, pnl, net) EXCEPT !.qty = q]
  <2>3. row.of = f /\ row.qty = q /\ f \in DOMAIN v2
    BY DEF TradeLedger!Row, TradeLedger!Unrecorded
  <2> HIDE DEF row
  <2>4. v3' = Append(v3, row)
    BY <2>2 DEF row
  <2>5. UNCHANGED <<v1, v2, v4, v5, v6, v7, v8, v9>>
    BY <1>2 DEF TradeLedger!Insert
  <2>6. DOMAIN v3 \subseteq DOMAIN v3' /\ \A i \in DOMAIN v3' : v3'[i] = row \/ (i \in DOMAIN v3 /\ v3'[i] = v3[i])
    BY <2>4 DEF TradeLedger!LedgerTypeOK
  <2>7. LedgerGrows
    BY <2>3, <2>5, <2>6 DEF LedgerGrows, TradeLedger!TypeOK, TradeLedger!LedgerTypeOK
  <2> QED BY <2>5, <2>7, LedgerOnly DEF TradeLedger!TypeOK
<1>3. CASE TradeLedger!Tick
  <2>1. v1' = v1 + 1 /\ UNCHANGED <<v2, v3, v4, v5, v6, v7, v8, v9>>
    BY <1>3 DEF TradeLedger!Tick
  <2>2. LedgerGrows
    BY <2>1 DEF LedgerGrows, TradeLedger!TypeOK, TradeLedger!LedgerTypeOK
  <2> QED BY <2>1, <2>2, LedgerOnly DEF TradeLedger!TypeOK
<1> QED BY <1>1, <1>2, <1>3

LEMMA RowsAreRecords ==
  ASSUME TradeLedger!LedgerTypeOK
  PROVE  \A i \in DOMAIN v3 : "of" \in DOMAIN v3[i] /\ "qty" \in DOMAIN v3[i]
<1>1. v3 \in Seq(TradeLedger!LedgerRow)
  BY DEF TradeLedger!LedgerTypeOK
<1>2. DOMAIN v3 = 1..Len(v3)
  BY <1>1
<1>3. \A i \in DOMAIN v3 : v3[i] \in TradeLedger!LedgerRow
  BY <1>1, <1>2, ElementOf
<1> QED BY <1>3 DEF TradeLedger!LedgerRow

LEMMA MigrationTyped ==
  ASSUME TradeLedger!TypeOK, TradeLedger!LedgerTypeOK, NEW p \in TradeLedger!Process,
         TradeLedger!Open(p) \/ TradeLedger!Migrate(p) \/ TradeLedger!Crash(p)
  PROVE  TradeLedger!TypeOK'
<1>1. CASE TradeLedger!Open(p)
  <2>1. /\ v4' = TRUE /\ UNCHANGED <<v1, v2, v3, v5, v7, v8, v9>>
        /\ \E x : v6' = [v6 EXCEPT ![p] = x] /\ x.at \in {"down", "migrating", "up"}
    <3>1. CASE TradeLedger!Current
      <4>1. v4' = TRUE /\ UNCHANGED <<v1, v2, v3, v5, v7, v8, v9>>
        BY <1>1 DEF TradeLedger!Open
      <4>2. v6' = [v6 EXCEPT ![p] = TradeLedger!Up]
        BY <1>1, <3>1 DEF TradeLedger!Open
      <4>3. TradeLedger!Up.at = "up"
        BY DEF TradeLedger!Up
      <4> QED BY <4>1, <4>2, <4>3
    <3>2. CASE ~TradeLedger!Current
      <4> DEFINE nets == [i \in DOMAIN v3 |-> TradeLedger!NetPnl(v3[i].pnl, v3[i].qty * v3[i].price)]
                 x == [at |-> "migrating", nets |-> nets]
      <4>1. v6' = [v6 EXCEPT ![p] = x]
        BY <1>1, <3>2 DEF TradeLedger!Open
      <4>2. x.at = "migrating"
        OBVIOUS
      <4>3. v4' = TRUE /\ UNCHANGED <<v1, v2, v3, v5, v7, v8, v9>>
        BY <1>1 DEF TradeLedger!Open
      <4> HIDE DEF x
      <4> QED BY <4>1, <4>2, <4>3
    <3> QED BY <3>1, <3>2
  <2>2. \A q \in TradeLedger!Process : v6'[q].at \in {"down", "migrating", "up"}
    BY <2>1 DEF TradeLedger!TypeOK, TradeLedger!LedgerTypeOK
  <2> QED BY <2>1, <2>2 DEF TradeLedger!TypeOK
<1>2. CASE TradeLedger!Migrate(p)
  <2>1. /\ v5' = TRUE /\ UNCHANGED <<v1, v2, v4, v7, v8, v9>>
        /\ v6' = [v6 EXCEPT ![p] = TradeLedger!Up]
        /\ v3' = [i \in DOMAIN v3 |-> IF i \in DOMAIN v6[p].nets /\ v6[p].nets[i] # TradeLedger!NoNet
                                      THEN [v3[i] EXCEPT !.net = v6[p].nets[i]] ELSE v3[i]]
    BY <1>2 DEF TradeLedger!Migrate
  <2>2. \A q \in TradeLedger!Process : v6'[q].at \in {"down", "migrating", "up"}
    BY <2>1 DEF TradeLedger!TypeOK, TradeLedger!LedgerTypeOK, TradeLedger!Up
  <2>3. \A i \in DOMAIN v3 : "of" \in DOMAIN v3[i] /\ "qty" \in DOMAIN v3[i]
    BY RowsAreRecords
  <2>4. DOMAIN v3' = DOMAIN v3 /\ \A i \in DOMAIN v3 : v3'[i].of = v3[i].of /\ v3'[i].qty = v3[i].qty
    BY <2>1, <2>3
  <2> QED BY <2>1, <2>2, <2>4 DEF TradeLedger!TypeOK
<1>3. CASE TradeLedger!Crash(p)
  <2>1. /\ v9 < MaxCrashes /\ v9' = v9 + 1 /\ UNCHANGED <<v1, v2, v3, v4, v5, v8>>
        /\ v6' = [v6 EXCEPT ![p] = TradeLedger!Down] /\ v7' \subseteq v7
    BY <1>3 DEF TradeLedger!Crash
  <2>2. \A q \in TradeLedger!Process : v6'[q].at \in {"down", "migrating", "up"}
    BY <2>1 DEF TradeLedger!TypeOK, TradeLedger!LedgerTypeOK, TradeLedger!Down
  <2>3. v9' \in 0..MaxCrashes
    BY <2>1, BoundsAssumption DEF TradeLedger!TypeOK
  <2> QED BY <2>1, <2>2, <2>3 DEF TradeLedger!TypeOK
<1> QED BY <1>1, <1>2, <1>3

LEMMA BackfillTyped ==
  ASSUME TradeLedger!TypeOK, TradeLedger!LedgerTypeOK, TradeLedger!Plan \/ TradeLedger!Apply
  PROVE  TradeLedger!TypeOK'
<1>1. CASE TradeLedger!Plan
  <2>1. v7' \subseteq {[row |-> i, fill |-> f] : i \in DOMAIN v3, f \in DOMAIN v2}
    BY <1>1 DEF TradeLedger!Plan
  <2>2. \A c \in v7' : c.row \in DOMAIN v3 /\ c.fill \in DOMAIN v2
    BY <2>1
  <2>3. UNCHANGED <<v1, v2, v3, v4, v5, v6, v8, v9>>
    BY <1>1 DEF TradeLedger!Plan
  <2> QED BY <2>2, <2>3 DEF TradeLedger!TypeOK
<1>2. CASE TradeLedger!Apply
  <2>1. PICK c \in v7 : v7' = v7 \ {c} /\ v3' = [v3 EXCEPT ![c.row] = TradeLedger!Updated(@, v2[c.fill].price)]
    BY <1>2 DEF TradeLedger!Apply
  <2>2. UNCHANGED <<v1, v2, v4, v5, v6, v9>>
    BY <1>2 DEF TradeLedger!Apply
  <2>3. v8' \in BOOLEAN
    BY <1>2, Zenon DEF TradeLedger!Apply
  <2>4. \A i \in DOMAIN v3 : "of" \in DOMAIN v3[i] /\ "qty" \in DOMAIN v3[i]
    BY RowsAreRecords
  <2>5. c.row \in DOMAIN v3
    BY DEF TradeLedger!TypeOK
  <2>6. DOMAIN v3' = DOMAIN v3 /\ \A i \in DOMAIN v3 : v3'[i].of = v3[i].of /\ v3'[i].qty = v3[i].qty
    BY <2>1, <2>4, <2>5 DEF TradeLedger!Updated
  <2>7. LedgerGrows
    BY <2>2, <2>6 DEF LedgerGrows, TradeLedger!TypeOK, TradeLedger!LedgerTypeOK
  <2> QED BY <2>1, <2>2, <2>3, <2>7, LedgerOnly DEF TradeLedger!TypeOK
<1> QED BY <1>1, <1>2

LEMMA LedgerTypes ==
  ASSUME TradeLedger!TypeOK, TradeLedger!LedgerHolds, NextTradeLedger
  PROVE  TradeLedger!TypeOK'
<1>1. TradeLedger!LedgerTypeOK
  BY DEF TradeLedger!LedgerHolds
<1> QED BY <1>1, TraderTyped, MigrationTyped, BackfillTyped DEF NextTradeLedger

-----------------------------------------------------------------------------
(* The health of the agents and the price stream.                          *)

LEMMA AgentHealthInit == AgentHealth!Init => AgentHealth!TypeOK
  BY BoundsAssumption DEF AgentHealth!Init, AgentHealth!TypeOK, AgentHealth!None

LEMMA AgentHealthTypes ==
  ASSUME AgentHealth!TypeOK, NextAgentHealth
  PROVE  AgentHealth!TypeOK'
<1> USE BoundsAssumption DEF AgentHealth!TypeOK, AgentHealth!None
<1>1. CASE AgentHealth!Supervise
  <2>1. PICK failing \in {{}, Agent} : TRUE /\
          LET fixed == {a \in Agent : AgentHealth!Overdue(a, failing) /\ AgentHealth!Restartable(a)} IN
            /\ failing # {} => v6 > 0
            /\ v6' = IF failing = {} THEN v6 ELSE v6 - 1
            /\ v4' = [a \in Agent |-> IF a \in fixed THEN v4[a] + 1 ELSE v4[a]]
            /\ v3' = AgentHealth!SilentAfter(failing, fixed)
            /\ v1' = [a \in Agent |-> IF a \in fixed THEN "running" ELSE v1[a]]
            /\ v2' = v2 \cup fixed
            /\ v5' = AgentHealth!Later(v5, Suppress)
            /\ UNCHANGED v7
    BY <1>1 DEF AgentHealth!Supervise
  <2> DEFINE fixed == {a \in Agent : AgentHealth!Overdue(a, failing) /\ AgentHealth!Restartable(a)}
  <2>2. v1' \in [Agent -> {"running", "hung", "exited"}]
    BY <2>1
  <2>3. v2' \subseteq Agent
    BY <2>1
  <2>4. v3' \in [Agent -> {AgentHealth!None} \cup 0..Grace]
    BY <2>1 DEF AgentHealth!SilentAfter, AgentHealth!Later, AgentHealth!Missing
  <2>5. v4' \in [Agent -> 0..MaxRestartsPerDay]
    <3>1. \A a \in fixed : v4[a] < MaxRestartsPerDay
      BY DEF AgentHealth!Restartable
    <3> QED BY <2>1, <3>1
  <2>6. v5' \in {AgentHealth!None} \cup 0..Suppress
    BY <2>1 DEF AgentHealth!Later
  <2>7. v6' \in 0..HealthTrouble
    BY <2>1
  <2>8. v7' \in BOOLEAN
    BY <2>1
  <2> QED BY <2>2, <2>3, <2>4, <2>5, <2>6, <2>7, <2>8
<1>2. CASE \E a \in Agent : AgentHealth!Beat(a) \/ AgentHealth!Expires(a)
  BY <1>2 DEF AgentHealth!Beat, AgentHealth!Expires
<1>3. CASE \E a \in Agent : AgentHealth!Fails(a) \/ AgentHealth!DockerRevives(a)
  BY <1>3 DEF AgentHealth!Fails, AgentHealth!DockerRevives
<1>4. CASE AgentHealth!SessionCloses \/ AgentHealth!PreopenRestart
  BY <1>4 DEF AgentHealth!SessionCloses, AgentHealth!PreopenRestart
<1>5. CASE AgentHealth!NewDay \/ AgentHealth!OrchestratorRestarts
  BY <1>5 DEF AgentHealth!NewDay, AgentHealth!OrchestratorRestarts
<1> QED BY <1>1, <1>2, <1>3, <1>4, <1>5 DEF NextAgentHealth

LEMMA KiteStreamTypesInit == KiteStream!Init => KiteStream!TypeOK
  BY BoundsAssumption DEF KiteStream!Init, KiteStream!TypeOK, KiteStream!Idle

LEMMA KiteStreamTypes ==
  ASSUME KiteStream!TypeOK, NextKiteStream
  PROVE  KiteStream!TypeOK'
<1> USE BoundsAssumption DEF KiteStream!TypeOK, KiteStream!connection
<1>1. CASE KiteStream!Connect \/ KiteStream!LoginFails \/ KiteStream!SocketOpens
  BY <1>1 DEF KiteStream!Connect, KiteStream!LoginFails, KiteStream!SocketOpens, KiteStream!OnConnect
<1>2. CASE KiteStream!NewConnector
  BY <1>2 DEF KiteStream!NewConnector, KiteStream!Fresh
<1>3. CASE KiteStream!SocketDrops \/ KiteStream!TokensExpire
  BY <1>3 DEF KiteStream!SocketDrops, KiteStream!TokensExpire
<1>4. CASE KiteStream!FollowPrice \/ KiteStream!SubscribeSent
  BY <1>4 DEF KiteStream!FollowPrice, KiteStream!SubscribeSent, KiteStream!Idle
<1>5. CASE KiteStream!Subscribe
  BY <1>5 DEF KiteStream!Subscribe, KiteStream!Noted
<1>6. CASE \E s \in Symbols : KiteStream!Tick(s) \/ KiteStream!AskPrice(s) \/ KiteStream!Trade(s)
  BY <1>6 DEF KiteStream!Tick, KiteStream!AskPrice, KiteStream!Trade
<1> QED BY <1>1, <1>2, <1>3, <1>4, <1>5, <1>6 DEF NextKiteStream

-----------------------------------------------------------------------------
(* The clock and the jobs of the orchestrator, and the trainer.            *)

(* The first of some minutes or days is one of them.                       *)
LEMMA EarliestIsOne ==
  ASSUME NEW I, I \subseteq Int, IsFiniteSet(I), NEW S \in SUBSET I, S # {}
  PROVE  Training!Min(S) \in S /\ Nominations!Min(S) \in S /\ Blocklist!Min(S) \in S
<1>1. IsFiniteSet(S) /\ S \in SUBSET Int
  BY FS_Subset
<1>2. \E n \in S : \A m \in S : n <= m
  BY <1>1, LeastOf
<1> QED BY <1>2 DEF Training!Min, Nominations!Min, Blocklist!Min

(* The clock of the agents.                                                *)
LEMMA ClockStarts ==
  /\ Training!ClockInit => Training!ClockTypeOK
  /\ Nominations!ClockInit => Nominations!ClockTypeOK
  /\ Blocklist!ClockInit => Blocklist!ClockTypeOK
<1>1. \A I \in {TrainingInstants, NominationInstants, BlocklistInstants} :
        I # {} /\ IsFiniteSet(I) /\ I \subseteq Int
  BY ClockAssumption
<1>2. \A I \in {TrainingInstants, NominationInstants, BlocklistInstants} :
        Training!Min(I) \in I /\ Nominations!Min(I) \in I /\ Blocklist!Min(I) \in I
  BY <1>1, EarliestIsOne
<1> QED BY <1>2, BoundsAssumption
        DEF Training!ClockInit, Nominations!ClockInit, Blocklist!ClockInit,
            Training!ClockTypeOK, Nominations!ClockTypeOK, Blocklist!ClockTypeOK

LEMMA ClockRuns ==
  /\ Training!ClockTypeOK /\ Training!PassTime => Training!ClockTypeOK'
  /\ Nominations!ClockTypeOK /\ Nominations!PassTime => Nominations!ClockTypeOK'
  /\ Blocklist!ClockTypeOK /\ Blocklist!PassTime => Blocklist!ClockTypeOK'
<1>1. \A I \in {TrainingInstants, NominationInstants, BlocklistInstants} :
        I # {} /\ IsFiniteSet(I) /\ I \subseteq Int
  BY ClockAssumption
<1>2. \A I \in {TrainingInstants, NominationInstants, BlocklistInstants} : \A S \in SUBSET I :
        S # {} => Training!Min(S) \in I /\ Nominations!Min(S) \in I /\ Blocklist!Min(S) \in I
  BY <1>1, EarliestIsOne
<1>3. ASSUME NEW I \in {TrainingInstants, NominationInstants, BlocklistInstants},
             \E t \in I : t > v2
      PROVE  /\ Training!Min({u \in I : u > v2}) \in I
             /\ Nominations!Min({u \in I : u > v2}) \in I
             /\ Blocklist!Min({u \in I : u > v2}) \in I
  BY <1>2, <1>3
<1>4. \A I \in {TrainingInstants, NominationInstants, BlocklistInstants} :
        Training!Min(I) \in I /\ Nominations!Min(I) \in I /\ Blocklist!Min(I) \in I
  BY <1>1, <1>2
<1>5. ASSUME Training!ClockTypeOK, Training!PassTime PROVE Training!ClockTypeOK'
  <2>1. v2' \in TrainingInstants
    BY <1>3, <1>4, <1>5 DEF Training!PassTime
  <2>2. v1' = v1 \/ (v1 < TrainingDays /\ v1' = v1 + 1)
    BY <1>5 DEF Training!PassTime
  <2>3. v1' \in 1..TrainingDays
    BY <1>5, <2>2, BoundsAssumption DEF Training!ClockTypeOK
  <2> QED BY <2>1, <2>3 DEF Training!ClockTypeOK
<1>6. ASSUME Nominations!ClockTypeOK, Nominations!PassTime PROVE Nominations!ClockTypeOK'
  <2>1. v2' \in NominationInstants
    BY <1>3, <1>4, <1>6 DEF Nominations!PassTime
  <2>2. v1' = v1 \/ (v1 < NominationDays /\ v1' = v1 + 1)
    BY <1>6 DEF Nominations!PassTime
  <2>3. v1' \in 1..NominationDays
    BY <1>6, <2>2, BoundsAssumption DEF Nominations!ClockTypeOK
  <2> QED BY <2>1, <2>3 DEF Nominations!ClockTypeOK
<1>7. ASSUME Blocklist!ClockTypeOK, Blocklist!PassTime PROVE Blocklist!ClockTypeOK'
  <2>1. v2' \in BlocklistInstants
    BY <1>3, <1>4, <1>7 DEF Blocklist!PassTime
  <2>2. v1' = v1 \/ (v1 < BlocklistDays /\ v1' = v1 + 1)
    BY <1>7 DEF Blocklist!PassTime
  <2>3. v1' \in 1..BlocklistDays
    BY <1>7, <2>2, BoundsAssumption DEF Blocklist!ClockTypeOK
  <2> QED BY <2>1, <2>3 DEF Blocklist!ClockTypeOK
<1> QED BY <1>5, <1>6, <1>7

(* No more bus calls fail than there are of them.                          *)
LEMMA FailedAreCounted ==
  ASSUME NEW failed \in SUBSET {"read", "mark", "send"}, NEW n \in 0..MaxFaults
  PROVE  /\ Training!Cardinality(failed) <= n => n - Training!Cardinality(failed) \in 0..MaxFaults
         /\ Nominations!Cardinality(failed) <= n => n - Nominations!Cardinality(failed) \in 0..MaxFaults
<1>1. IsFiniteSet({"read", "mark", "send"})
  <2>1. {"read", "mark", "send"} = ({"read"} \cup {"mark"}) \cup {"send"}
    OBVIOUS
  <2>2. IsFiniteSet({"read"})
    BY FS_Singleton
  <2>3. IsFiniteSet({"read"} \cup {"mark"})
    BY <2>2, FS_AddElement
  <2>4. IsFiniteSet(({"read"} \cup {"mark"}) \cup {"send"})
    BY <2>3, FS_AddElement
  <2> QED BY <2>1, <2>4
<1>2. Cardinality(failed) \in Nat
  BY <1>1, FS_Subset, FS_CardinalityType
<1>3. Training!Cardinality(failed) = Cardinality(failed) /\ Nominations!Cardinality(failed) = Cardinality(failed)
  BY Zenon DEF Training!Cardinality, Nominations!Cardinality, Cardinality
<1> QED BY <1>2, <1>3, BoundsAssumption
(* The job table of the orchestrator, in the two parts that follow it.      *)
LEMMA TrainingScheduled ==
  ASSUME Training!SchedulerTypeOK,
         Training!OrchestratorTick \/ Training!OrchestratorRestarts \/ Training!MailLost
  PROVE  Training!SchedulerTypeOK'
<1> USE DEF Training!SchedulerTypeOK
<1>1. v1 \in 1..TrainingDays /\ v2 \in 0..1439 /\ TrainingDays \in Nat
  BY ClockAssumption, BoundsAssumption DEF Training!ClockTypeOK
<1>2. CASE Training!OrchestratorTick
  <2>1. PICK failed \in SUBSET {"read", "mark", "send"} :
          /\ Training!Cardinality(failed) <= v7
          /\ v7' = v7 - Training!Cardinality(failed)
          /\ v3' = Training!Marked(Training!DailyDue(failed), failed)
          /\ v4' = Training!Sent(Training!DailyDue(failed) \cup Training!RepeatDue, failed)
          /\ v6' = [j \in TrainingJobs |-> IF j \in Training!RepeatDue THEN Training!Now ELSE v6[j]]
          /\ v5' = Training!SessionState
          /\ UNCHANGED Training!clock
    BY <1>2 DEF Training!OrchestratorTick
  <2>2. Training!ClockTypeOK'
    BY <2>1 DEF Training!ClockTypeOK, Training!clock
  <2>3. v3' \in [TrainingJobs -> 0..TrainingDays]
    BY <1>1, <2>1 DEF Training!Marked, Training!SessionDate
  <2>4. v4' \subseteq {Training!Command[j] : j \in TrainingJobs}
    <3>1. Training!DailyDue(failed) \cup Training!RepeatDue \subseteq TrainingJobs
      BY DEF Training!DailyDue, Training!RepeatDue
    <3> QED BY <2>1, <3>1 DEF Training!Sent
  <2>5. v5' \in {"NONE", "CLOSED", "PRE_MARKET", "OPEN", "NEAR_CLOSE"}
    BY <2>1 DEF Training!SessionState
  <2>6. v6' \in [TrainingJobs -> 0..((TrainingDays + 1) * 1440)]
    <3>1. Training!Now \in 0..((TrainingDays + 1) * 1440)
      BY <1>1 DEF Training!Now, Training!MinutesPerDay
    <3>2. v6 \in [TrainingJobs -> 0..((TrainingDays + 1) * 1440)]
      BY DEF Training!MinutesPerDay
    <3> HIDE DEF Training!SchedulerTypeOK
    <3> QED BY <2>1, <3>1, <3>2
  <2>7. v7' \in 0..MaxFaults
    BY <2>1, FailedAreCounted
  <2> QED BY <2>2, <2>3, <2>4, <2>5, <2>6, <2>7 DEF Training!MinutesPerDay
<1>3. CASE Training!OrchestratorRestarts
  <2>1. UNCHANGED <<v1, v2, v3, v4, v7>> /\ v5' = "NONE" /\ v6' = [j \in TrainingJobs |-> 0]
    BY <1>3 DEF Training!OrchestratorRestarts
  <2>2. v6' \in [TrainingJobs -> 0..((TrainingDays + 1) * Training!MinutesPerDay)]
    BY <1>1, <2>1 DEF Training!MinutesPerDay
  <2> QED BY <2>1, <2>2 DEF Training!ClockTypeOK
<1>4. CASE Training!MailLost
  <2>1. UNCHANGED <<v1, v2, v3, v5, v6>> /\ v4' \subseteq v4 /\ v7 > 0 /\ v7' = v7 - 1
    BY <1>4 DEF Training!MailLost
  <2> QED BY <2>1, BoundsAssumption DEF Training!ClockTypeOK
<1> QED BY <1>2, <1>3, <1>4

LEMMA NominationsScheduled ==
  ASSUME Nominations!SchedulerTypeOK,
         Nominations!OrchestratorTick \/ Nominations!OrchestratorRestarts \/ Nominations!MailLost
  PROVE  Nominations!SchedulerTypeOK'
<1> USE DEF Nominations!SchedulerTypeOK
<1>1. v1 \in 1..NominationDays /\ v2 \in 0..1439 /\ NominationDays \in Nat
  BY ClockAssumption, BoundsAssumption DEF Nominations!ClockTypeOK
<1>2. CASE Nominations!OrchestratorTick
  <2>1. PICK failed \in SUBSET {"read", "mark", "send"} :
          /\ Nominations!Cardinality(failed) <= v7
          /\ v7' = v7 - Nominations!Cardinality(failed)
          /\ v3' = Nominations!Marked(Nominations!DailyDue(failed), failed)
          /\ v4' = Nominations!Sent(Nominations!DailyDue(failed) \cup Nominations!RepeatDue, failed)
          /\ v6' = [j \in NominationJobs |-> IF j \in Nominations!RepeatDue THEN Nominations!Now ELSE v6[j]]
          /\ v5' = Nominations!SessionState
          /\ UNCHANGED Nominations!clock
    BY <1>2 DEF Nominations!OrchestratorTick
  <2>2. Nominations!ClockTypeOK'
    BY <2>1 DEF Nominations!ClockTypeOK, Nominations!clock
  <2>3. v3' \in [NominationJobs -> 0..NominationDays]
    BY <1>1, <2>1 DEF Nominations!Marked, Nominations!SessionDate
  <2>4. v4' \subseteq {Nominations!Command[j] : j \in NominationJobs}
    <3>1. Nominations!DailyDue(failed) \cup Nominations!RepeatDue \subseteq NominationJobs
      BY DEF Nominations!DailyDue, Nominations!RepeatDue
    <3> QED BY <2>1, <3>1 DEF Nominations!Sent
  <2>5. v5' \in {"NONE", "CLOSED", "PRE_MARKET", "OPEN", "NEAR_CLOSE"}
    BY <2>1 DEF Nominations!SessionState
  <2>6. v6' \in [NominationJobs -> 0..((NominationDays + 1) * 1440)]
    <3>1. Nominations!Now \in 0..((NominationDays + 1) * 1440)
      BY <1>1 DEF Nominations!Now, Nominations!MinutesPerDay
    <3>2. v6 \in [NominationJobs -> 0..((NominationDays + 1) * 1440)]
      BY DEF Nominations!MinutesPerDay
    <3> HIDE DEF Nominations!SchedulerTypeOK
    <3> QED BY <2>1, <3>1, <3>2
  <2>7. v7' \in 0..MaxFaults
    BY <2>1, FailedAreCounted
  <2> QED BY <2>2, <2>3, <2>4, <2>5, <2>6, <2>7 DEF Nominations!MinutesPerDay
<1>3. CASE Nominations!OrchestratorRestarts
  <2>1. UNCHANGED <<v1, v2, v3, v4, v7>> /\ v5' = "NONE" /\ v6' = [j \in NominationJobs |-> 0]
    BY <1>3 DEF Nominations!OrchestratorRestarts
  <2>2. v6' \in [NominationJobs -> 0..((NominationDays + 1) * Nominations!MinutesPerDay)]
    BY <1>1, <2>1 DEF Nominations!MinutesPerDay
  <2> QED BY <2>1, <2>2 DEF Nominations!ClockTypeOK
<1>4. CASE Nominations!MailLost
  <2>1. UNCHANGED <<v1, v2, v3, v5, v6>> /\ v4' \subseteq v4 /\ v7 > 0 /\ v7' = v7 - 1
    BY <1>4 DEF Nominations!MailLost
  <2> QED BY <2>1, BoundsAssumption DEF Nominations!ClockTypeOK
<1> QED BY <1>2, <1>3, <1>4
LEMMA BusStays ==
  /\ Training!SchedulerTypeOK /\ UNCHANGED Training!sVars => Training!SchedulerTypeOK'
  /\ Nominations!SchedulerTypeOK /\ UNCHANGED Nominations!sVars => Nominations!SchedulerTypeOK'
  BY DEF Training!SchedulerTypeOK, Training!sVars, Training!ClockTypeOK,
         Nominations!SchedulerTypeOK, Nominations!sVars, Nominations!ClockTypeOK

(* A message received, a bus call that failed.                             *)
LEMMA BusSpent ==
  /\ Training!SchedulerTypeOK /\ UNCHANGED <<v1, v2, v3, v5, v6>> /\ v4' \subseteq v4
       /\ (v7' = v7 \/ (v7 > 0 /\ v7' = v7 - 1)) => Training!SchedulerTypeOK'
  /\ Nominations!SchedulerTypeOK /\ UNCHANGED <<v1, v2, v3, v5, v6>> /\ v4' \subseteq v4
       /\ (v7' = v7 \/ (v7 > 0 /\ v7' = v7 - 1)) => Nominations!SchedulerTypeOK'
<1>1. v7 \in 0..MaxFaults /\ (v7' = v7 \/ (v7 > 0 /\ v7' = v7 - 1)) => v7' \in 0..MaxFaults
  BY BoundsAssumption
<1> QED BY <1>1
     DEF Training!SchedulerTypeOK, Training!ClockTypeOK,
         Nominations!SchedulerTypeOK, Nominations!ClockTypeOK

LEMMA TimeScheduled ==
  /\ Training!SchedulerTypeOK /\ Training!PassTime /\ UNCHANGED <<v3, v4, v5, v6, v7>> =>
       Training!SchedulerTypeOK'
  /\ Nominations!SchedulerTypeOK /\ Nominations!PassTime /\ UNCHANGED <<v3, v4, v5, v6, v7>> =>
       Nominations!SchedulerTypeOK'
  BY ClockRuns DEF Training!SchedulerTypeOK, Nominations!SchedulerTypeOK

LEMMA TableStarts ==
  /\ Training!SchedulerInit => Training!SchedulerTypeOK
  /\ Nominations!SchedulerInit => Nominations!SchedulerTypeOK
<1>1. TrainingDays \in Nat /\ NominationDays \in Nat /\ MaxFaults \in Nat
  BY BoundsAssumption
<1>2. 0 \in 0..((TrainingDays + 1) * 1440) /\ 0 \in 0..((NominationDays + 1) * 1440)
  BY <1>1
<1>3. 0 \in 0..TrainingDays /\ 0 \in 0..NominationDays /\ MaxFaults \in 0..MaxFaults
  BY <1>1
<1> QED BY <1>2, <1>3, ClockStarts
     DEF Training!SchedulerInit, Nominations!SchedulerInit,
         Training!SchedulerTypeOK, Nominations!SchedulerTypeOK,
         Training!MinutesPerDay, Nominations!MinutesPerDay

TrainerTyped ==
  /\ v8 \in [Training!Kind -> 0..MaxThreads]
  /\ v9 \in {"free", "daily", "eod", "eod_done"}
  /\ {v10, v11, v12} \subseteq 0..TrainingDays
  /\ v13 \in BOOLEAN /\ v15 \in BOOLEAN
  /\ v14 \in Nat

LEMMA TrainingTypesInit == Training!Init => Training!TypeOK
<1> SUFFICES ASSUME Training!Init PROVE Training!TypeOK
  OBVIOUS
<1>1. 1 \in 0..MaxThreads /\ 0 \in 0..MaxThreads /\ 0 \in 0..TrainingDays
  BY BoundsAssumption
<1>2. v8 \in [Training!Kind -> 0..MaxThreads] /\ v13 \in BOOLEAN
  BY <1>1 DEF Training!Init
<1> QED BY <1>1, <1>2, TableStarts DEF Training!Init, Training!TypeOK

LEMMA TrainingTypes ==
  ASSUME Training!TypeOK, NextTraining
  PROVE  Training!TypeOK'
<1> SUFFICES Training!SchedulerTypeOK' /\ TrainerTyped'
  BY DEF Training!TypeOK, TrainerTyped
<1>0. Training!SchedulerTypeOK /\ TrainerTyped
  BY DEF Training!TypeOK, TrainerTyped
<1>1. v1 \in 0..TrainingDays /\ MaxThreads \in Nat \ {0}
  BY <1>0, BoundsAssumption DEF Training!SchedulerTypeOK, Training!ClockTypeOK
<1>2. CASE /\ Training!OrchestratorTick \/ Training!OrchestratorRestarts \/ Training!MailLost
           /\ UNCHANGED <<v8, v9, v10, v11, v12, v13, v14, v15>>
  BY <1>0, <1>2, TrainingScheduled DEF TrainerTyped
<1>3. CASE Training!TrainerHears
  <2>1. PICK k \in Training!Kind, cmd \in {"train_daily", "train_eod"} : Training!Hears(k, cmd)
    BY <1>3 DEF Training!TrainerHears, Training!Kind
  <2>2. Training!SchedulerTypeOK'
    BY <1>0, <2>1, BusSpent DEF Training!Hears, Training!clock
  <2>3. TrainerTyped'
    BY <1>0, <1>1, <2>1 DEF Training!Hears, Training!Started, TrainerTyped
  <2> QED BY <2>2, <2>3
<1>4. CASE Training!TrainerTick
  <2>1. "daily" \in Training!Kind
    BY DEF Training!Kind
  <2>2. TrainerTyped'
    BY <1>0, <1>1, <1>4, <2>1 DEF Training!TrainerTick, Training!Started, TrainerTyped
  <2> QED BY <1>0, <1>4, <2>2, BusStays DEF Training!TrainerTick
<1>5. ASSUME NEW k \in Training!Kind, Training!TryLock(k)
      PROVE  Training!SchedulerTypeOK' /\ TrainerTyped'
  <2>1. TrainerTyped'
    BY <1>0, <1>1, <1>5 DEF Training!TryLock, TrainerTyped, Training!Kind
  <2> QED BY <1>0, <1>5, <2>1, BusStays DEF Training!TryLock
<1>6. CASE Training!TrainDaily
  <2>1. Training!SchedulerTypeOK'
    <3>1. v7' = v7 \/ (v7 > 0 /\ v7' = v7 - 1)
      BY <1>6 DEF Training!TrainDaily
    <3>2. UNCHANGED <<v1, v2, v3, v4, v5, v6>>
      BY <1>6 DEF Training!TrainDaily, Training!clock
    <3> QED BY <1>0, <3>1, <3>2, BusSpent
  <2>2. TrainerTyped'
    <3>1. UNCHANGED <<v8, v12, v14, v15>> /\ v9' = "free"
      BY <1>6 DEF Training!TrainDaily
    <3>2. {v10', v11'} \subseteq {v10, v11, v1}
      BY <1>6 DEF Training!TrainDaily
    <3>3. v13' = v13 \/ v13' = TRUE
      BY <1>6 DEF Training!TrainDaily
    <3>4. v13' \in BOOLEAN
      BY <1>0, <3>3 DEF TrainerTyped
    <3> QED BY <1>0, <1>1, <3>1, <3>2, <3>4 DEF TrainerTyped
  <2> QED BY <2>1, <2>2
<1>7. CASE Training!EodSkips
  BY <1>0, <1>7, BusStays DEF Training!EodSkips, TrainerTyped
<1>8. CASE Training!EodRetrains
  <2>1. UNCHANGED Training!sVars /\ UNCHANGED <<v8, v10, v11, v12, v15>>
        /\ v9' \in {"free", "eod_done"}
    BY <1>8 DEF Training!EodRetrains
  <2>2. v14' = v14 \/ v14' = v14 + 1
    BY <1>8 DEF Training!EodRetrains
  <2>3. v13' = v13 \/ v13' = TRUE
    BY <1>8 DEF Training!EodRetrains
  <2>4. v13' \in BOOLEAN
    BY <1>0, <2>3 DEF TrainerTyped
  <2>5. v14' \in Nat
    BY <1>0, <2>2 DEF TrainerTyped
  <2> QED BY <1>0, <2>1, <2>4, <2>5, BusStays DEF TrainerTyped
<1>9. CASE Training!EodMarks
  <2>1. Training!SchedulerTypeOK'
    <3>1. v7' = v7 \/ (v7 > 0 /\ v7' = v7 - 1)
      BY <1>9 DEF Training!EodMarks
    <3>2. UNCHANGED <<v1, v2, v3, v4, v5, v6>>
      BY <1>9 DEF Training!EodMarks, Training!clock
    <3> QED BY <1>0, <3>1, <3>2, BusSpent
  <2>2. TrainerTyped'
    <3>1. UNCHANGED <<v8, v10, v11, v13, v14>> /\ v9' = "free" /\ v12' \in {v1, v12}
      BY <1>9 DEF Training!EodMarks
    <3>2. v15' = v15 \/ v15' = TRUE
      BY <1>9 DEF Training!EodMarks
    <3>3. v15' \in BOOLEAN
      BY <1>0, <3>2 DEF TrainerTyped
    <3> QED BY <1>0, <1>1, <3>1, <3>3 DEF TrainerTyped
  <2> QED BY <2>1, <2>2
<1>10. CASE Training!TrainerRestarts
  <2>1. v8' \in [Training!Kind -> 0..MaxThreads]
    <3>1. 0 \in 0..MaxThreads /\ 1 \in 0..MaxThreads
      BY <1>1
    <3> QED BY <1>10, <3>1 DEF Training!TrainerRestarts
  <2>2. v15' \in BOOLEAN
    BY <1>0, <1>10 DEF Training!TrainerRestarts, TrainerTyped
  <2>3. UNCHANGED Training!sVars /\ UNCHANGED <<v10, v11, v12, v13, v14>> /\ v9' = "free"
    BY <1>10 DEF Training!TrainerRestarts
  <2> QED BY <1>0, <2>1, <2>2, <2>3, BusStays DEF TrainerTyped
<1>11. CASE Training!TimePasses
  <2>1. Training!SchedulerTypeOK'
    BY <1>0, <1>11, TimeScheduled DEF Training!TimePasses
  <2>2. v14' \in {0, v14} /\ UNCHANGED <<v8, v9, v10, v11, v12, v13>>
    BY <1>11 DEF Training!TimePasses
  <2>3. v15' \in BOOLEAN
    BY <1>0, <1>11 DEF Training!TimePasses, TrainerTyped
  <2>4. v14' \in Nat
    BY <1>0, <2>2 DEF TrainerTyped
  <2> QED BY <1>0, <2>1, <2>2, <2>3, <2>4 DEF TrainerTyped
<1> QED BY <1>2, <1>3, <1>4, <1>5, <1>6, <1>7, <1>8, <1>9, <1>10, <1>11 DEF NextTraining

-----------------------------------------------------------------------------
(* The nominations, and the blocklist with its judgements.                 *)

(* The agents' side of a nomination.                                       *)
NominatedTyped ==
  /\ v8 \in 1..MaxScans
  /\ {v9, v15} \subseteq 0..NominationDays
  /\ v10 = Nominations!NoScan \/ v10 \in [source : Nominations!Source, step : {"running", "written"}]
  /\ v11 \subseteq Nominations!Subscriber \X (1..MaxScans) \X Nominations!Source
  /\ v12 \subseteq [list : 1..MaxScans, source : Nominations!Source]
  /\ v13 = Nominations!Idle \/ v13 \in [list : 1..MaxScans, source : Nominations!Source]
  /\ v14 \in [day : 0..NominationDays, list : 1..MaxScans, source : Nominations!Source]
  /\ v16 \in BOOLEAN

LEMMA NominationsTypesInit == Nominations!Init => Nominations!TypeOK
<1> SUFFICES ASSUME Nominations!Init PROVE Nominations!TypeOK
  OBVIOUS
<1>1. 1 \in 1..MaxScans /\ 0 \in 0..NominationDays
  BY BoundsAssumption
<1>2. v14 \in [day : 0..NominationDays, list : 1..MaxScans, source : Nominations!Source]
  BY <1>1 DEF Nominations!Init, Nominations!Source
<1> QED BY <1>1, <1>2, TableStarts DEF Nominations!Init, Nominations!TypeOK

LEMMA ScannerTyped ==
  ASSUME Nominations!SchedulerTypeOK, NominatedTyped,
         \/ Nominations!ScannerHears \/ Nominations!ScannerTick \/ Nominations!ScanEnds
         \/ Nominations!Announce \/ Nominations!ScannerRestarts
  PROVE  Nominations!SchedulerTypeOK' /\ NominatedTyped'
<1>1. v1 \in 0..NominationDays
  BY DEF Nominations!SchedulerTypeOK, Nominations!ClockTypeOK
<1>2. CASE Nominations!ScannerHears
  <2>1. PICK source \in Nominations!Source :
          /\ v4' = v4 \ {Nominations!ScanCommand[source]}
          /\ v9' = IF source = "premarket" THEN v1 ELSE v9
          /\ Nominations!StartScan(source)
          /\ UNCHANGED <<Nominations!clock, v3, v5, v6, v7, v8, v11, Nominations!vettingSide, v16>>
    BY <1>2 DEF Nominations!ScannerHears
  <2>2. Nominations!SchedulerTypeOK'
    BY <2>1, BusSpent DEF Nominations!clock
  <2>3. v10' = Nominations!NoScan \/ v10' \in [source : Nominations!Source, step : {"running", "written"}]
    BY <2>1 DEF Nominations!StartScan, NominatedTyped
  <2>4. UNCHANGED <<v8, v11, v12, v13, v14, v15, v16>> /\ v9' \in {v1, v9}
    BY <2>1 DEF Nominations!vettingSide
  <2> QED BY <1>1, <2>2, <2>3, <2>4 DEF NominatedTyped
<1>3. CASE Nominations!ScannerTick
  <2>1. UNCHANGED Nominations!sVars
    BY <1>3 DEF Nominations!ScannerTick
  <2>2. v10' = Nominations!NoScan \/ v10' \in [source : Nominations!Source, step : {"running", "written"}]
    BY <1>3 DEF Nominations!ScannerTick, Nominations!StartScan, NominatedTyped, Nominations!Source
  <2>3. UNCHANGED <<v8, v11, v12, v13, v14, v15, v16>> /\ v9' = v1
    BY <1>3 DEF Nominations!ScannerTick, Nominations!vettingSide
  <2> QED BY <1>1, <2>1, <2>2, <2>3, BusStays DEF NominatedTyped
<1>4. CASE Nominations!ScanEnds
  <2>1. UNCHANGED Nominations!sVars /\ UNCHANGED <<v9, v11, v12, v13, v14, v15, v16>>
    BY <1>4 DEF Nominations!ScanEnds, Nominations!vettingSide
  <2>2. v8' = v8 \/ (v8 < MaxScans /\ v8' = v8 + 1)
    BY <1>4 DEF Nominations!ScanEnds
  <2>3. v8' \in 1..MaxScans
    BY <2>2, BoundsAssumption DEF NominatedTyped
  <2>4. v10' = Nominations!NoScan \/ v10' \in [source : Nominations!Source, step : {"running", "written"}]
    <3>1. v10 # Nominations!NoScan
      BY <1>4 DEF Nominations!ScanEnds, Nominations!NoScan
    <3>2. v10 \in [source : Nominations!Source, step : {"running", "written"}]
      BY <3>1 DEF NominatedTyped
    <3>3. v10' = Nominations!NoScan \/ v10' = [v10 EXCEPT !.step = "written"]
      BY <1>4 DEF Nominations!ScanEnds
    <3> QED BY <3>2, <3>3
  <2> QED BY <2>1, <2>3, <2>4, BusStays DEF NominatedTyped
<1>5. CASE Nominations!Announce
  <2>1. v7' = v7 \/ (v7 > 0 /\ v7' = v7 - 1)
    BY <1>5 DEF Nominations!Announce
  <2>2. UNCHANGED <<v1, v2, v3, v4, v5, v6>> /\ UNCHANGED <<v8, v9, v12, v13, v14, v15>>
        /\ v10' = Nominations!NoScan
    BY <1>5 DEF Nominations!Announce, Nominations!clock, Nominations!vettingSide
  <2>3. v11' \subseteq Nominations!Subscriber \X (1..MaxScans) \X Nominations!Source
    <3>1. v10 # Nominations!NoScan
      BY <1>5 DEF Nominations!Announce, Nominations!NoScan
    <3>2. v10.source \in Nominations!Source /\ v8 \in 1..MaxScans
      BY <3>1 DEF NominatedTyped
    <3>3. v11' \subseteq v11 \cup {<<who, v8, v10.source>> : who \in Nominations!Subscriber}
      BY <1>5 DEF Nominations!Announce
    <3> QED BY <3>2, <3>3 DEF NominatedTyped
  <2>4. v16' = v16 \/ v16' = TRUE
    BY <1>5 DEF Nominations!Announce
  <2>5. v16' \in BOOLEAN
    BY <2>4 DEF NominatedTyped
  <2> QED BY <2>1, <2>2, <2>3, <2>5, BusSpent DEF NominatedTyped
<1>6. CASE Nominations!ScannerRestarts
  <2>1. UNCHANGED Nominations!sVars /\ UNCHANGED <<v8, v9, v11, v12, v13, v14, v15>>
        /\ v10' = Nominations!NoScan
    BY <1>6 DEF Nominations!ScannerRestarts, Nominations!vettingSide
  <2>2. v16' \in BOOLEAN
    BY <1>6 DEF Nominations!ScannerRestarts, NominatedTyped
  <2> QED BY <2>1, <2>2, BusStays DEF NominatedTyped
<1> QED BY <1>2, <1>3, <1>4, <1>5, <1>6

LEMMA VettingTyped ==
  ASSUME Nominations!SchedulerTypeOK, NominatedTyped,
         \/ Nominations!VettingHears \/ Nominations!Revet \/ Nominations!VettingTick
         \/ Nominations!TakeLock \/ Nominations!PublishVetted \/ Nominations!VettingRestarts
         \/ Nominations!NewsLost
  PROVE  Nominations!SchedulerTypeOK' /\ NominatedTyped'
<1>1. v1 \in 0..NominationDays
  BY DEF Nominations!SchedulerTypeOK, Nominations!ClockTypeOK
<1>2. CASE Nominations!VettingHears \/ Nominations!Revet \/ Nominations!VettingTick
  <2>1. UNCHANGED Nominations!sVars /\ UNCHANGED <<v8, v9, v10, v13, v14, v15, v16>>
        /\ v11' \subseteq v11
    BY <1>2 DEF Nominations!VettingHears, Nominations!Revet, Nominations!VettingTick
  <2>2. v12' \subseteq [list : 1..MaxScans, source : Nominations!Source]
    <3>1. \A n \in v11 : n[2] \in 1..MaxScans /\ n[3] \in Nominations!Source
      BY DEF NominatedTyped
    <3>2. v8 \in 1..MaxScans /\ "premarket" \in Nominations!Source
      BY DEF NominatedTyped, Nominations!Source
    <3>3. PICK list \in 1..MaxScans, source \in Nominations!Source : Nominations!Brings(list, source)
      BY <1>2, <3>1, <3>2 DEF Nominations!VettingHears, Nominations!Revet, Nominations!VettingTick
    <3> QED BY <3>3 DEF Nominations!Brings, NominatedTyped
  <2> QED BY <2>1, <2>2, BusStays DEF NominatedTyped
<1>3. CASE Nominations!TakeLock
  <2>1. PICK w \in v12 :
          /\ v12' = v12 \ {w}
          /\ v13' = IF v13 = Nominations!Idle THEN w ELSE v13
          /\ v16' = (v16 \/ v13 # Nominations!Idle \/ w.list # v8)
          /\ UNCHANGED <<Nominations!sVars, v8, v9, v10, v11, v14, v15>>
    BY <1>3 DEF Nominations!TakeLock
  <2>2. v16' \in BOOLEAN
    BY <2>1
  <2>3. UNCHANGED Nominations!sVars
    BY <2>1
  <2>4. v13' = Nominations!Idle \/ v13' \in [list : 1..MaxScans, source : Nominations!Source]
    BY <2>1 DEF NominatedTyped
  <2> QED BY <2>1, <2>2, <2>3, <2>4, BusStays DEF NominatedTyped
<1>4. CASE Nominations!PublishVetted
  <2>1. v13 \in [list : 1..MaxScans, source : Nominations!Source]
    BY <1>4 DEF Nominations!PublishVetted, NominatedTyped
  <2>2. v14' \in [day : 0..NominationDays, list : 1..MaxScans, source : Nominations!Source]
    BY <1>1, <1>4, <2>1 DEF Nominations!PublishVetted, Nominations!Published
  <2>3. UNCHANGED Nominations!sVars /\ UNCHANGED <<v8, v9, v10, v11, v12>> /\ v15' \in {v1, v15}
        /\ v13' = Nominations!Idle
    BY <1>4 DEF Nominations!PublishVetted
  <2>4. v16' \in BOOLEAN
    BY <1>4 DEF Nominations!PublishVetted, NominatedTyped
  <2> QED BY <1>1, <2>2, <2>3, <2>4, BusStays DEF NominatedTyped
<1>5. CASE Nominations!VettingRestarts
  <2>1. UNCHANGED Nominations!sVars /\ UNCHANGED <<v8, v9, v10, v11, v14, v15>>
        /\ v13' = Nominations!Idle /\ v12' = {} /\ v16' = TRUE
    BY <1>5 DEF Nominations!VettingRestarts
  <2> QED BY <2>1, BusStays DEF NominatedTyped
<1>6. CASE Nominations!NewsLost
  <2>1. UNCHANGED <<v1, v2, v3, v4, v5, v6>> /\ v7 > 0 /\ v7' = v7 - 1
        /\ UNCHANGED <<v8, v9, v10, v12, v13, v14, v15>> /\ v11' \subseteq v11 /\ v16' = TRUE
    BY <1>6 DEF Nominations!NewsLost, Nominations!clock, Nominations!vettingSide
  <2> QED BY <2>1, BusSpent DEF NominatedTyped
<1> QED BY <1>2, <1>3, <1>4, <1>5, <1>6

LEMMA NominationsTypes ==
  ASSUME Nominations!TypeOK, NextNominations
  PROVE  Nominations!TypeOK'
<1> SUFFICES Nominations!SchedulerTypeOK' /\ NominatedTyped'
  BY DEF Nominations!TypeOK, NominatedTyped
<1>1. Nominations!SchedulerTypeOK /\ NominatedTyped
  BY DEF Nominations!TypeOK, NominatedTyped
<1>2. CASE /\ \/ Nominations!OrchestratorTick \/ Nominations!OrchestratorRestarts
              \/ Nominations!MailLost
           /\ UNCHANGED <<v8, v9, v10, v11, v12, v13, v14, v15, v16>>
  <2>1. NominatedTyped'
    BY <1>1, <1>2 DEF NominatedTyped
  <2> QED BY <1>1, <1>2, <2>1, NominationsScheduled
<1>3. CASE Nominations!TimePasses
  <2>1. NominatedTyped'
    BY <1>1, <1>3 DEF Nominations!TimePasses, Nominations!mine, NominatedTyped
  <2> QED BY <1>1, <1>3, <2>1, TimeScheduled DEF Nominations!TimePasses
<1> QED BY <1>1, <1>2, <1>3, ScannerTyped, VettingTyped DEF NextNominations

(* The blocklist: what the monitors at work have read.                     *)
JudgementsTyped ==
  \A m \in v5 : m.reason \in {"none", "hit_rate", "stops"} /\ m.until \in Nat

BlocklistTyped ==
  /\ Blocklist!ClockTypeOK
  /\ v3 \in Seq([day : 1..BlocklistDays, how : {"profit", "stop"}])
  /\ v4.reason \in {"none", "hit_rate", "stops"} /\ v4.until \in Nat
  /\ IsFiniteSet(v5) /\ Cardinality(v5) <= MaxThreads /\ JudgementsTyped
  /\ v6 \in BOOLEAN

LEMMA BlocklistIsTyped == BlocklistTyped => Blocklist!TypeOK
<1>1. Blocklist!Cardinality(v5) = Cardinality(v5)
  BY Zenon DEF Blocklist!Cardinality, Cardinality
<1> QED BY <1>1 DEF BlocklistTyped, Blocklist!TypeOK

LEMMA BlocklistTypesInit == Blocklist!Init => BlocklistTyped
<1> SUFFICES ASSUME Blocklist!Init PROVE BlocklistTyped
  OBVIOUS
<1>1. v5 = {} /\ IsFiniteSet(v5) /\ Cardinality(v5) = 0
  BY FS_EmptySet DEF Blocklist!Init
<1>2. v3 = << >> /\ v4.reason = "none" /\ v4.until = 0 /\ v6 = FALSE
  BY DEF Blocklist!Init, Blocklist!Nothing
<1>3. v3 \in Seq([day : 1..BlocklistDays, how : {"profit", "stop"}])
  BY <1>2
<1>4. Cardinality(v5) <= MaxThreads
  BY <1>1, BoundsAssumption
<1>5. Blocklist!ClockTypeOK
  BY ClockStarts DEF Blocklist!Init
<1>6. v6 \in BOOLEAN
  BY <1>2
<1>7. JudgementsTyped
  BY <1>1 DEF JudgementsTyped
<1>8. v4.reason \in {"none", "hit_rate", "stops"} /\ v4.until \in Nat
  BY <1>2
<1> QED BY <1>1, <1>3, <1>4, <1>5, <1>6, <1>7, <1>8 DEF BlocklistTyped

(* next_open_time() has an answer as long as the calendar goes on.         *)
LEMMA NextOpenIsDated ==
  ASSUME Blocklist!ClockTypeOK
  PROVE  Blocklist!NextOpenTime \in Nat
<1>1. v1 \in 1..BlocklistDays /\ BlocklistDays \in Nat
  BY BoundsAssumption DEF Blocklist!ClockTypeOK
<1>2. Blocklist!NextOpenDay \in Nat
  <2> DEFINE S == {d \in TradingDay : d > v1}
  <2>1. TradingDay \subseteq Int /\ TradingDay \subseteq Nat /\ IsFiniteSet(TradingDay)
    BY ClockAssumption
  <2>2. S \in SUBSET TradingDay /\ S # {}
    <3>1. PICK d \in TradingDay : d > BlocklistDays
      BY ClockAssumption
    <3>2. d > v1
      BY <1>1, <2>1, <3>1
    <3> QED BY <3>1, <3>2
  <2> HIDE DEF S
  <2>3. Blocklist!Min(S) \in Nat
    BY <2>1, <2>2, EarliestIsOne
  <2> QED BY <1>1, <2>3 DEF S, Blocklist!NextOpenDay
<1>3. Blocklist!NextOpenDay * 1440 + OpenTime \in Nat
  BY <1>2, ClockAssumption
<1> QED BY <1>3 DEF Blocklist!NextOpenTime, Blocklist!NoTime, Blocklist!MinutesPerDay

LEMMA BlocklistTypes ==
  ASSUME BlocklistTyped, NextBlocklist
  PROVE  BlocklistTyped'
<1>1. CASE Blocklist!Sell
  <2>1. PICK how \in {"profit", "stop"} : v3' = <<[day |-> v1, how |-> how]>> \o v3
    BY <1>1 DEF Blocklist!Sell
  <2>2. UNCHANGED <<v1, v2, v4, v5, v6>>
    BY <1>1 DEF Blocklist!Sell
  <2> DEFINE Sale == [day : 1..BlocklistDays, how : {"profit", "stop"}]
  <2>3. [day |-> v1, how |-> how] \in Sale /\ v3 \in Seq(Sale)
    BY DEF BlocklistTyped, Blocklist!ClockTypeOK
  <2>4. v3' \in Seq(Sale)
    <3> DEFINE sale == [day |-> v1, how |-> how]
    <3>1. sale \in Sale /\ v3 \in Seq(Sale) /\ v3' = <<sale>> \o v3
      BY <2>1, <2>3
    <3> HIDE DEF sale, Sale
    <3> QED BY <3>1
  <2> QED BY <2>2, <2>4 DEF BlocklistTyped, Blocklist!ClockTypeOK, JudgementsTyped
<1>2. CASE Blocklist!Judge
  <2> DEFINE it == [reason |-> Blocklist!Reason(Blocklist!Recent), until |-> Blocklist!NextOpenTime, current |-> v4]
  <2>1. /\ Blocklist!Cardinality(v5) < MaxThreads /\ it \notin v5 /\ v5' = v5 \cup {it}
        /\ UNCHANGED <<v1, v2, v3, v4>> /\ v6' = (v6 \/ v5 # {})
    BY <1>2 DEF Blocklist!Judge
  <2>2. it.reason \in {"none", "hit_rate", "stops"} /\ it.until \in Nat
    BY NextOpenIsDated DEF Blocklist!Reason, BlocklistTyped
  <2>3. Blocklist!Cardinality(v5) = Cardinality(v5)
    BY Zenon DEF Blocklist!Cardinality, Cardinality
  <2> HIDE DEF it
  <2>4. IsFiniteSet(v5') /\ Cardinality(v5') = Cardinality(v5) + 1
    BY <2>1, FS_AddElement DEF BlocklistTyped
  <2>5. Cardinality(v5') <= MaxThreads
    <3>1. Cardinality(v5) \in Nat
      BY FS_CardinalityType DEF BlocklistTyped
    <3> QED BY <2>1, <2>3, <2>4, <3>1, BoundsAssumption
  <2>6. JudgementsTyped'
    BY <2>1, <2>2 DEF BlocklistTyped, JudgementsTyped
  <2>7. v6' \in BOOLEAN
    BY <2>1
  <2> QED BY <2>1, <2>4, <2>5, <2>6, <2>7 DEF BlocklistTyped, Blocklist!ClockTypeOK
<1>3. CASE Blocklist!Write
  <2>1. PICK m \in v5 :
          /\ v5' = v5 \ {m}
          /\ v4' \in {Blocklist!Nothing, v4, [reason |-> m.reason, until |-> m.until]}
          /\ v6' = (v6 /\ v5' # {})
          /\ UNCHANGED <<v1, v2, v3>>
    BY <1>3 DEF Blocklist!Write
  <2>2. v4'.reason \in {"none", "hit_rate", "stops"} /\ v4'.until \in Nat
    BY <2>1 DEF BlocklistTyped, JudgementsTyped, Blocklist!Nothing
  <2>3. IsFiniteSet(v5') /\ Cardinality(v5') = Cardinality(v5) - 1 /\ Cardinality(v5) \in Nat
    BY <2>1, FS_RemoveElement, FS_CardinalityType DEF BlocklistTyped
  <2>4. Cardinality(v5') <= MaxThreads
    BY <2>3, BoundsAssumption DEF BlocklistTyped
  <2>5. v6' \in BOOLEAN
    BY <2>1
  <2> QED BY <2>1, <2>2, <2>3, <2>4, <2>5 DEF BlocklistTyped, Blocklist!ClockTypeOK, JudgementsTyped
<1>4. CASE Blocklist!TimePasses
  <2>1. UNCHANGED <<v3, v4, v5, v6>> /\ Blocklist!PassTime
    BY <1>4 DEF Blocklist!TimePasses
  <2> QED BY <2>1, ClockRuns DEF BlocklistTyped, JudgementsTyped
<1> QED BY <1>1, <1>2, <1>3, <1>4 DEF NextBlocklist

-----------------------------------------------------------------------------
(* The learning engine.                                                    *)

LEMMA BucketExtremes ==
  ASSUME NEW S \in SUBSET Bucket, S # {}
  PROVE  Learning!Min(S) \in Int /\ Learning!Max(S) \in Int
<1>1. S \in SUBSET Int /\ IsFiniteSet(S)
  BY LearningAssumption, FS_Subset
<1>2. \E n \in S : \A m \in S : n <= m
  BY <1>1, LeastOf
<1>3. PICK n \in S : \A m \in S : m <= n
  BY <1>1, LastOf
<1>4. \E k \in S : \A m \in S : k >= m
  BY <1>1, <1>3
<1> QED BY <1>1, <1>2, <1>4 DEF Learning!Min, Learning!Max

TradeOutcome == [bucket : Bucket, win : BOOLEAN]
Threshold == (25..70) \X (-70..-20)

(* The files hold what the memory may hold.                                *)
LearnedTyped ==
  /\ Learning!TypeOK
  /\ v3 \in Seq(TradeOutcome) /\ v7.records \in Seq(TradeOutcome) /\ Len(v7.records) <= LearnWindow
  /\ v7.weighted \subseteq Word
  /\ v7.calibration = << >> \/ v7.calibration \in Threshold

LEMMA LearningTypesInit ==
  ASSUME Learning!LearningHolds, Learning!Init
  PROVE  LearnedTyped
<1>1. v7.weighted = {} /\ v7.count = [w \in Word |-> 0] /\ v7.records = << >> /\ v7.calibration = << >>
  BY DEF Learning!Init, Learning!Nothing
<1>2. v2 = [w \in Word |-> 0] /\ v11 = v2
  BY DEF Learning!Init, Learning!Nothing
<1>3. {v2, v11} \subseteq [Word -> 0..MaxTrades]
  BY <1>2, LearningAssumption
<1>4. v1 = {} /\ v3 = << >> /\ v4 = << >> /\ v5 = 48 /\ v6 = -35 /\ v8 = "idle" /\ v9 = 0 /\ v10 = 0 /\ v12 = 0
  BY DEF Learning!Init, Learning!DefaultBuy, Learning!DefaultSell
<1>5. Len(v3) <= LearnWindow /\ v3 \in Seq(TradeOutcome)
  BY <1>4, BoundsAssumption
<1>6. v7.records \in Seq(TradeOutcome) /\ Len(v7.records) <= LearnWindow
  BY <1>1, BoundsAssumption
<1>7. v5 \in 25..70 /\ v6 \in -70..-20 /\ v12 \in Nat
  BY <1>4
<1>8. v9 \in 0..MaxTrades /\ v10 \in 0..MaxFaults
  BY <1>4, LearningAssumption, BoundsAssumption
<1> QED BY <1>1, <1>3, <1>4, <1>5, <1>6, <1>7, <1>8 DEF LearnedTyped, Learning!TypeOK

(* What LearningHolds says of the counts.                                  *)
LEMMA CountsTyped ==
  ASSUME Learning!LearningHolds
  PROVE  {v2, v11} \subseteq [Word -> 0..MaxTrades] /\ v12 \in Nat /\ v9 \in 0..MaxTrades
<1>1. {v2, v11} \subseteq [Word -> Nat] /\ v12 \in Nat /\ v9 \in 0..MaxTrades
  BY DEF Learning!LearningHolds, Learning!CountsFollow
<1>2. \A w \in Word : v2[w] <= v11[w] /\ v11[w] <= v9
  BY DEF Learning!LearningHolds, Learning!CountsFollow
<1>3. \A w \in Word : v2[w] \in 0..MaxTrades /\ v11[w] \in 0..MaxTrades
  <2> SUFFICES ASSUME NEW w \in Word PROVE v2[w] \in 0..MaxTrades /\ v11[w] \in 0..MaxTrades
    OBVIOUS
  <2>1. v2[w] \in Nat /\ v11[w] \in Nat
    BY <1>1
  <2> QED BY <2>1, <1>1, <1>2, LearningAssumption
<1>4. v2 \in [Word -> 0..MaxTrades] /\ v11 \in [Word -> 0..MaxTrades]
  BY <1>1, <1>3
<1> QED BY <1>1, <1>4

LEMMA TradeTyped ==
  ASSUME LearnedTyped, Learning!LearningHolds', Learning!TradeClosed
  PROVE  LearnedTyped'
<1> USE DEF Learning!TradeClosed
<1>1. ({v2, v11} \subseteq [Word -> 0..MaxTrades] /\ v12 \in Nat /\ v9 \in 0..MaxTrades)'
  BY CountsTyped, PTL
<1>2. v7' = v7 /\ v10' = v10 /\ v8' = "words"
  OBVIOUS
<1>3. PICK words \in SUBSET Word, bucket \in Bucket, win \in BOOLEAN :
        LET all == Append(v3, [bucket |-> bucket, win |-> win])
        IN /\ v1' = v1 \cup Learning!Ripe(words, v2')
           /\ v3' = IF Len(all) > LearnWindow THEN Tail(all) ELSE all
           /\ Learning!Recalibrate(v3')
  OBVIOUS
<1> HIDE DEF Learning!TradeClosed
<1>4. v1' \subseteq Word
  BY <1>3 DEF Learning!Ripe, LearnedTyped, Learning!TypeOK
<1>5. v3' \in Seq(TradeOutcome) /\ Len(v3') <= LearnWindow
  <2> DEFINE r == [bucket |-> bucket, win |-> win]
  <2>1. r \in TradeOutcome
    BY DEF TradeOutcome
  <2>2. v3 \in Seq(TradeOutcome) /\ Len(v3) <= LearnWindow /\ LearnWindow \in Nat
    BY BoundsAssumption DEF LearnedTyped, Learning!TypeOK
  <2>3. v3' = IF Len(Append(v3, r)) > LearnWindow THEN Tail(Append(v3, r)) ELSE Append(v3, r)
    BY <1>3
  <2> HIDE DEF r, TradeOutcome
  <2>4. Append(v3, r) \in Seq(TradeOutcome) /\ Len(Append(v3, r)) = Len(v3) + 1
    BY <2>1, <2>2
  <2>5. Append(v3, r) # << >>
    BY <2>2, <2>4
  <2>6. Tail(Append(v3, r)) \in Seq(TradeOutcome) /\ Len(Tail(Append(v3, r))) = Len(v3)
    BY <2>2, <2>4, <2>5
  <2> QED BY <2>2, <2>3, <2>4, <2>6
<1>6. v5' \in 25..70 /\ v6' \in -70..-20 /\ (v4' # << >> => v4' = <<v5', v6'>>)
  <2>1. v5 \in 25..70 /\ v6 \in -70..-20 /\ (v4 # << >> => v4 = <<v5, v6>>)
    BY DEF LearnedTyped, Learning!TypeOK
  <2>2. Learning!NewBuy(v3') \in 25..70
    <3> DEFINE good == {b \in Bucket : b > 0 /\ Learning!Mostly(TRUE, b, v3')}
    <3>1. CASE good = {}
      BY <2>1, <3>1 DEF Learning!NewBuy
    <3>2. CASE good # {}
      <4>1. Learning!Min(good) \in Int
        BY <3>2, BucketExtremes
      <4>2. Learning!NewBuy(v3') = Learning!Clamp(Learning!Min(good), 25, 70)
        BY <3>2 DEF Learning!NewBuy
      <4> HIDE DEF good
      <4> QED BY <4>1, <4>2 DEF Learning!Clamp
    <3> QED BY <3>1, <3>2
  <2>3. Learning!NewSell(v3') \in -70..-20
    <3> DEFINE bad == {b \in Bucket : b < 0 /\ Learning!Mostly(FALSE, b, v3')}
    <3>1. CASE bad = {}
      BY <2>1, <3>1 DEF Learning!NewSell
    <3>2. CASE bad # {}
      <4>1. Learning!Max(bad) \in Int
        BY <3>2, BucketExtremes
      <4>2. Learning!NewSell(v3') = Learning!Clamp(Learning!Max(bad), -70, -20)
        BY <3>2 DEF Learning!NewSell
      <4> HIDE DEF bad
      <4> QED BY <4>1, <4>2 DEF Learning!Clamp
    <3> QED BY <3>1, <3>2
  <2>4. \/ v5' = Learning!NewBuy(v3') /\ v6' = Learning!NewSell(v3') /\ v4' = <<v5', v6'>>
        \/ v5' = v5 /\ v6' = v6 /\ v4' = v4
    BY <1>3 DEF Learning!Recalibrate
  <2> QED BY <2>1, <2>2, <2>3, <2>4
<1>7. (v10 \in 0..MaxFaults)'
  BY <1>2 DEF LearnedTyped, Learning!TypeOK
<1>8. (v7.records \in Seq(TradeOutcome) /\ Len(v7.records) <= LearnWindow /\ v7.weighted \subseteq Word
       /\ (v7.calibration = << >> \/ v7.calibration \in Threshold))'
  BY <1>2 DEF LearnedTyped
<1> QED BY <1>1, <1>2, <1>4, <1>5, <1>6, <1>7, <1>8 DEF LearnedTyped, Learning!TypeOK

LEMMA SaveTyped ==
  ASSUME LearnedTyped, Learning!LearningHolds, Learning!LearningHolds',
         Learning!SaveWords \/ Learning!SaveRecords \/ Learning!SaveCalibration
  PROVE  LearnedTyped'
<1>1. ({v2, v11} \subseteq [Word -> 0..MaxTrades] /\ v12 \in Nat /\ v9 \in 0..MaxTrades)'
  BY CountsTyped, PTL
<1>2. UNCHANGED <<v1, v3, v4, v5, v6>>
  BY DEF Learning!SaveWords, Learning!SaveRecords, Learning!SaveCalibration, Learning!memory
<1>3. v8' \in {"idle", "records", "calibration"}
  BY DEF Learning!SaveWords, Learning!SaveRecords, Learning!SaveCalibration
<1>4. v10' \in 0..MaxFaults
  <2>1. v10 \in 0..MaxFaults /\ MaxFaults \in Nat
    BY BoundsAssumption DEF LearnedTyped, Learning!TypeOK
  <2>2. v10' = v10 \/ (v10 < MaxFaults /\ v10' = v10 + 1)
    BY DEF Learning!SaveWords, Learning!SaveRecords, Learning!SaveCalibration
  <2> QED BY <2>1, <2>2
<1>5. \/ v7' = v7
      \/ v7' = [v7 EXCEPT !.weighted = v1, !.count = v2]
      \/ v7' = [v7 EXCEPT !.records = v3]
      \/ v7' = [v7 EXCEPT !.calibration = IF v4 = << >> THEN @ ELSE v4]
  BY DEF Learning!SaveWords, Learning!SaveRecords, Learning!SaveCalibration
<1>6. DOMAIN v7 = {"weighted", "count", "records", "calibration"}
  BY DEF Learning!LearningHolds
<1>7. /\ v7'.weighted \in {v7.weighted, v1} /\ v7'.records \in {v7.records, v3}
      /\ v7'.calibration \in {v7.calibration, IF v4 = << >> THEN v7.calibration ELSE v4}
  BY <1>5, <1>6
<1>8. v4 = << >> \/ v4 \in Threshold
  <2>1. CASE v4 # << >>
    <3>1. v5 \in 25..70 /\ v6 \in -70..-20 /\ v4 = <<v5, v6>>
      BY <2>1 DEF LearnedTyped, Learning!TypeOK
    <3> QED BY <3>1 DEF Threshold
  <2> QED BY <2>1
<1>9. (v7.records \in Seq(TradeOutcome) /\ Len(v7.records) <= LearnWindow /\ v7.weighted \subseteq Word)'
  BY <1>7 DEF LearnedTyped, Learning!TypeOK
<1>10. (v7.calibration = << >> \/ v7.calibration \in Threshold)'
  BY <1>7, <1>8 DEF LearnedTyped
<1>11. (v1 \subseteq Word /\ v3 \in Seq(TradeOutcome) /\ Len(v3) <= LearnWindow)'
  BY <1>2 DEF LearnedTyped, Learning!TypeOK
<1>12. (v5 \in 25..70 /\ v6 \in -70..-20 /\ (v4 # << >> => v4 = <<v5, v6>>))'
  BY <1>2 DEF LearnedTyped, Learning!TypeOK
<1> QED BY <1>1, <1>3, <1>4, <1>9, <1>10, <1>11, <1>12 DEF LearnedTyped, Learning!TypeOK

LEMMA FewUnread ==
  ASSUME NEW S \in SUBSET {"words", "records", "calibration"}
  PROVE  Learning!Cardinality(S) \in Nat
<1>1. Learning!Cardinality(S) = Cardinality(S)
  BY Zenon DEF Learning!Cardinality, Cardinality
<1>2. IsFiniteSet({"words", "records", "calibration"})
  <2>1. IsFiniteSet({"words"})
    BY FS_Singleton
  <2>2. IsFiniteSet({"words"} \cup {"records"})
    BY <2>1, FS_AddElement
  <2>3. IsFiniteSet(({"words"} \cup {"records"}) \cup {"calibration"})
    BY <2>2, FS_AddElement
  <2>4. {"words", "records", "calibration"} = ({"words"} \cup {"records"}) \cup {"calibration"}
    OBVIOUS
  <2> QED BY <2>3, <2>4, Zenon
<1> QED BY <1>1, <1>2, FS_Subset, FS_CardinalityType

LEMMA RestartTyped ==
  ASSUME LearnedTyped, Learning!LearningHolds', Learning!Restart
  PROVE  LearnedTyped'
<1>1. ({v2, v11} \subseteq [Word -> 0..MaxTrades] /\ v12 \in Nat /\ v9 \in 0..MaxTrades)'
  BY CountsTyped, PTL
<1>2. PICK unread \in SUBSET {"words", "records", "calibration"} :
        /\ v10 + Learning!Cardinality(unread) <= MaxFaults
        /\ v10' = v10 + Learning!Cardinality(unread)
        /\ v1' = (IF "words" \in unread THEN Learning!Nothing ELSE Learning!LoadedWords).weighted
        /\ v3' = IF "records" \in unread THEN << >> ELSE v7.records
        /\ LET saved == IF "calibration" \in unread THEN << >> ELSE v7.calibration
           IN /\ v4' = saved
              /\ v5' = IF saved = << >> THEN Learning!DefaultBuy ELSE saved[1]
              /\ v6' = IF saved = << >> THEN Learning!DefaultSell ELSE saved[2]
  BY DEF Learning!Restart
<1>3. v7' = v7 /\ v8' = "idle"
  BY DEF Learning!Restart
<1>4. v10' \in 0..MaxFaults
  BY <1>2, FewUnread, BoundsAssumption DEF LearnedTyped, Learning!TypeOK
<1>5. v1' \subseteq Word
  <2>1. Learning!Nothing.weighted = {} /\ Learning!LoadedWords.weighted = v7.weighted
    BY DEF Learning!Nothing, Learning!LoadedWords
  <2> QED BY <1>2, <2>1 DEF LearnedTyped
<1>6. (v3 \in Seq(TradeOutcome) /\ Len(v3) <= LearnWindow)'
  BY <1>2, BoundsAssumption DEF LearnedTyped
<1>7. (v5 \in 25..70 /\ v6 \in -70..-20 /\ (v4 # << >> => v4 = <<v5, v6>>))'
  <2>1. CASE v4' = << >>
    BY <1>2, <2>1 DEF Learning!DefaultBuy, Learning!DefaultSell
  <2>2. CASE v4' # << >>
    BY <1>2, <2>2 DEF LearnedTyped, Threshold
  <2> QED BY <2>1, <2>2
<1>8. (v7.records \in Seq(TradeOutcome) /\ Len(v7.records) <= LearnWindow /\ v7.weighted \subseteq Word
       /\ (v7.calibration = << >> \/ v7.calibration \in Threshold))'
  BY <1>3 DEF LearnedTyped
<1> QED BY <1>1, <1>3, <1>4, <1>5, <1>6, <1>7, <1>8 DEF LearnedTyped, Learning!TypeOK

LEMMA LearningTypes ==
  ASSUME LearnedTyped, Learning!LearningHolds, NextLearning
  PROVE  LearnedTyped' /\ Learning!LearningHolds'
<1>1. Learning!LearningHolds'
  BY LearningStep, LearningAssumption
<1> QED BY <1>1, TradeTyped, SaveTyped, RestartTyped DEF NextLearning
=============================================================================
