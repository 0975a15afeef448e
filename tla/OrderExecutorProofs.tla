------------------------ MODULE OrderExecutorProofs ------------------------
(***************************************************************************)
(* Theorems about OrderExecutor, for every set of symbols, every price     *)
(* grid and every setting of the exit: type correctness, the four safety   *)
(* properties the runs check, and the refinement of ProfitLock.            *)
(***************************************************************************)
EXTENDS OrderExecutor, TLAPS

-----------------------------------------------------------------------------
(* The arithmetic of a tracker. *)

\* Division by a positive divisor keeps naturals natural, and is monotone.
LEMMA DivNat == ASSUME NEW a \in Nat, NEW b \in Nat \ {0} PROVE a \div b \in Nat
  BY SMT

LEMMA DivMonotone ==
  ASSUME NEW a \in Int, NEW b \in Int, a <= b, NEW d \in Nat \ {0}
  PROVE  a \div d <= b \div d
  BY SMT

LEMMA ProductMonotone ==
  ASSUME NEW a \in Nat, NEW b \in Nat, a <= b, NEW c \in Nat, NEW d \in Nat, c <= d
  PROVE  a * c <= b * d
  BY SMT

\* The levels of a tracker are prices.
LEMMA AboveNat == ASSUME NEW p \in Nat, NEW bp \in Nat PROVE Above(p, bp) \in Nat
<1>1. p * (10000 + bp) \in Nat
  BY SMT
<1> QED BY SMT, <1>1, DivNat DEF Above

LEMMA BelowNat == ASSUME NEW p \in Nat, NEW bp \in Distance PROVE Below(p, bp) \in Nat
<1>1. PICK r \in Nat : r = 10000 - bp
  BY SMT DEF Distance
<1>2. p * r \in Nat
  BY SMT
<1> QED BY SMT, <1>1, <1>2, DivNat DEF Below

\* A blended cost basis is a positive price.
LEMMA BlendedPositive ==
  ASSUME NEW o \in Order, o.entry > 0, NEW p \in Nat \ {0}, NEW q \in Nat \ {0}
  PROVE  Blended(o, p, q) \in Nat \ {0}
<1> DEFINE n == o.entry * o.qty + p * q
           d == o.qty + q
<1>0. o.entry \in Nat \ {0} /\ o.qty \in Nat
  BY SMT DEF Order
<1>1. o.entry * o.qty \in Nat /\ o.entry * o.qty >= 1 * o.qty
  BY SMT, <1>0, ProductMonotone
<1>2. p * q \in Nat /\ p * q >= 1 * q
  BY SMT, ProductMonotone
<1>3. n \in Nat /\ d \in Nat \ {0} /\ d <= n
  BY SMT, <1>0, <1>1, <1>2
<1> HIDE DEF n, d
<1>4. d \div d = 1
  BY SMT, <1>3
<1>5. n \div d \in Nat /\ d \div d <= n \div d
  BY SMT, <1>3, DivNat, DivMonotone
<1> QED BY SMT, <1>4, <1>5 DEF Blended, n, d

\* A higher price has cleared the threshold if a lower one has.
LEMMA ReachesArmMonotone ==
  ASSUME NEW p \in Nat, NEW r \in Nat, p <= r, NEW e \in Nat, ReachesArm(p, e)
  PROVE  ReachesArm(r, e)
<1>1. ArmShare \in Nat
  BY SMT, ExecutorAssumption DEF ExecutorAssumption, ArmShare, Larger
<1>2. PICK need \in Nat : need = ArmShare * e
  BY SMT, <1>1
<1>3. (p - e) * (100 * 10000) <= (r - e) * (100 * 10000)
  BY SMT
<1> QED BY SMT, <1>2, <1>3 DEF ReachesArm, Whole

LEMMA TierNat == ASSUME NEW h \in Nat, NEW e \in Nat PROVE TierPct(h, e) \in 0..100
  BY SMT DEF TierPct

LEMMA TierShrinks ==
  ASSUME NEW h \in Nat, NEW k \in Nat, h <= k, NEW e \in Nat
  PROVE  TierPct(k, e) <= TierPct(h, e)
<1>1. PICK x \in Int, y \in Int : x = (h - e) * 1000 /\ y = (k - e) * 1000 /\ x <= y
  BY SMT
<1> QED BY SMT, <1>1 DEF TierPct

\* What is left of the whole after a gap, as the tier shrinks it.
LEMMA ShareOfWhole ==
  ASSUME NEW g \in Distance, NEW th \in 0..100, NEW tk \in 0..100, tk <= th
  PROVE  /\ Whole \in Nat \ {0}
         /\ Whole - g * th \in 0..Whole /\ Whole - g * tk \in 0..Whole
         /\ Whole - g * th <= Whole - g * tk
<1>1. g \in Nat /\ g <= 10000
  BY SMT DEF Distance
<1>2. g * th \in Nat /\ g * tk \in Nat /\ g * tk <= g * th /\ g * th <= 10000 * 100
  BY SMT, <1>1, ProductMonotone
<1>3. PICK x \in Nat, y \in Nat : x = g * th /\ y = g * tk /\ y <= x /\ x <= 10000 * 100
  BY SMT, <1>2
<1>4. Whole \in Nat \ {0} /\ x <= Whole
  BY SMT, <1>3 DEF Whole
<1> QED BY SMT, <1>3, <1>4

\* A larger share of a larger amount, in millionths.
LEMMA ShareMonotone ==
  ASSUME NEW h \in Nat, NEW k \in Nat, h <= k,
         NEW n \in Nat \ {0}, NEW c \in 0..n, NEW d \in 0..n, c <= d
  PROVE  /\ (h * c) \div n \in Nat /\ (h * c) \div n <= h
         /\ (k * d) \div n \in Nat /\ (h * c) \div n <= (k * d) \div n
<1>1. h * c \in Nat /\ k * d \in Nat /\ h * c <= k * d
  BY SMT, ProductMonotone
<1>2. h * c <= h * n
  BY SMT, ProductMonotone
<1>3. (h * n) \div n = h
  BY SMT
<1> QED BY SMT, <1>1, <1>2, <1>3, DivNat, DivMonotone

\* The trail never sits above the high it trails, and never falls as that rises.
LEMMA TrailMonotone ==
  ASSUME NEW o \in Order, NEW h \in Nat, NEW k \in Nat, h <= k
  PROVE  /\ Trail(h, o) \in Nat /\ Trail(h, o) <= h
         /\ Trail(k, o) \in Nat /\ Trail(h, o) <= Trail(k, o)
<1>1. Larger(o.gap, ConfigGapBp) \in Distance
  BY SMT, ExecutorAssumption DEF ExecutorAssumption, Order, Larger
<1>2. o.entry \in Nat
  BY SMT DEF Order
<1>3. /\ TierPct(h, o.entry) \in 0..100 /\ TierPct(k, o.entry) \in 0..100
      /\ TierPct(k, o.entry) <= TierPct(h, o.entry)
  BY <1>2, TierNat, TierShrinks, Zenon
<1> DEFINE c == Whole - Larger(o.gap, ConfigGapBp) * TierPct(h, o.entry)
           d == Whole - Larger(o.gap, ConfigGapBp) * TierPct(k, o.entry)
<1>4. Whole \in Nat \ {0} /\ c \in 0..Whole /\ d \in 0..Whole /\ c <= d
  BY <1>1, <1>3, ShareOfWhole, Zenon
<1> HIDE DEF c, d
<1>5. /\ (h * c) \div Whole \in Nat /\ (h * c) \div Whole <= h
      /\ (k * d) \div Whole \in Nat /\ (h * c) \div Whole <= (k * d) \div Whole
  BY <1>4, ShareMonotone, Zenon
<1> QED BY <1>5, Zenon DEF Trail, c, d

\* The trigger is a price, and never falls as the high rises.
LEMMA TriggerMonotone ==
  ASSUME NEW o \in Order, NEW h \in Nat, NEW k \in Nat, h <= k
  PROVE  /\ Trigger(h, o) \in Nat /\ Trigger(k, o) \in Nat
         /\ Trigger(h, o) <= Trigger(k, o)
<1>1. /\ Trail(h, o) \in Nat /\ Trail(k, o) \in Nat /\ Trail(h, o) <= Trail(k, o)
  BY TrailMonotone, Zenon
<1>2. Above(o.entry, BreakevenBp) \in Nat
  <2>1. o.entry \in Nat /\ BreakevenBp \in Nat
    BY SMT, ExecutorAssumption DEF ExecutorAssumption, Order
  <2> QED BY <2>1, AboveNat, Zenon
<1> QED BY SMT, <1>1, <1>2 DEF Trigger, Larger

-----------------------------------------------------------------------------
(* Type correctness. *)

LEMMA ConstantTypes ==
  /\ \A p \in Price : p \in Nat \ {0}
  /\ \A q \in Qty : q \in Nat \ {0}
  /\ \A b \in StopBps : b \in Distance
  /\ \A t \in TakeBps : t \in Nat
  /\ \A g \in GapBps : g \in Distance
  /\ StopLossBp \in Distance /\ BreakevenBp \in Nat /\ OrphanGrace \in Nat \ {0}
  BY ExecutorAssumption, Zenon DEF ExecutorAssumption

LEMMA NoOrderType == NoOrder \in Order
  BY SMT DEF NoOrder, Order, Distance

LEMMA DumpType ==
  ASSUME order' \in [Symbols -> Order], high' \in [Symbols -> Nat], armed' \in SUBSET Symbols, Dump
  PROVE  disk' \in Trackers
  BY SMT DEF Dump, Trackers

LEMMA TypeInit == Init => TypeOK
  BY SMT, NoOrderType, ExecutorAssumption DEF ExecutorAssumption, Init, TypeOK, Trackers

LEMMA PopType ==
  ASSUME TypeOK, NEW s \in Symbols, Pop(s)
  PROVE  order' \in [Symbols -> Order] /\ high' \in [Symbols -> Nat] /\ armed' \in SUBSET Symbols
  BY SMT, NoOrderType DEF Pop, TypeOK

LEMMA HighAfterNat ==
  ASSUME TypeOK, NEW s \in Symbols
  PROVE  HighAfter(s) \in Nat /\ high[s] <= HighAfter(s) /\ ltp[s] <= HighAfter(s)
         /\ ltp[s] \in Nat \ {0}
<1>1. ltp[s] \in Nat \ {0}
  BY ConstantTypes, Zenon DEF TypeOK
<1>2. high[s] \in Nat
  BY Zenon DEF TypeOK
<1> QED BY SMT, <1>1, <1>2 DEF HighAfter, Larger

LEMMA BuyType ==
  ASSUME TypeOK, NEW s \in Symbols, NEW q \in Qty, NEW b \in StopBps, NEW t \in TakeBps,
         NEW g \in GapBps, ExecuteBuy(s, q, b, t, g)
  PROVE  TypeOK'
<1>1. ltp[s] \in Nat \ {0} /\ q \in Nat \ {0} /\ b \in Distance /\ t \in Nat /\ g \in Distance
  BY ConstantTypes, Zenon DEF TypeOK
<1>2. ltp[s] \in Nat /\ Below(ltp[s], b) \in Nat /\ Above(ltp[s], t) \in Nat
  <2>1. ltp[s] \in Nat
    BY SMT, <1>1
  <2> QED BY <1>1, <2>1, BelowNat, AboveNat, Zenon
<1>3. order' \in [Symbols -> Order] /\ high' \in [Symbols -> Nat] /\ armed' \in SUBSET Symbols
  <2> DEFINE o == [entry |-> ltp[s], qty |-> q, stop |-> Below(ltp[s], b),
                   take |-> IF t = 0 THEN 0 ELSE Above(ltp[s], t),
                   gap |-> g, adds |-> 0, lastAdd |-> ltp[s]]
  <2>1. o \in Order
    BY SMT, <1>1, <1>2 DEF Order
  <2>2. order' = [order EXCEPT ![s] = o]
    BY Zenon DEF ExecuteBuy
  <2> HIDE DEF o
  <2> QED BY SMT, <1>1, <2>1, <2>2 DEF ExecuteBuy, TypeOK
<1>4. disk' \in Trackers
  BY <1>3, DumpType, Zenon DEF ExecuteBuy
<1>5. buying' \in [Symbols -> Nat] /\ waited' \in [Symbols -> 0..OrphanGrace]
  BY SMT, <1>1, ExecutorAssumption DEF ExecutorAssumption, ExecuteBuy, TypeOK
<1> QED BY SMT, <1>3, <1>4, <1>5 DEF ExecuteBuy, TypeOK

LEMMA AddType ==
  ASSUME TypeOK, NEW s \in Symbols, NEW q \in Qty, PyramidAdd(s, q)
  PROVE  TypeOK' /\ order'[s].entry > 0
<1>1. ltp[s] \in Nat \ {0} /\ q \in Nat \ {0} /\ order[s] \in Order /\ order[s].entry > 0
      /\ held[s] \in Nat \ {0} /\ avg[s] \in Nat
  <2>1. ltp[s] \in Nat \ {0} /\ q \in Nat \ {0}
    BY ConstantTypes, Zenon DEF TypeOK
  <2> QED BY SMT, <2>1 DEF TypeOK, PyramidAdd, AddEarned, Tracked
<1> DEFINE o == Added(order[s], ltp[s], q)
<1>2. Blended(order[s], ltp[s], q) \in Nat \ {0}
  BY <1>1, BlendedPositive, Zenon
<1>3. order' = [order EXCEPT ![s] = o] /\ UNCHANGED <<high, armed>> /\ Dump
  BY Zenon DEF PyramidAdd
<1>4. o \in Order /\ o.entry \in Nat \ {0}
  BY SMT, <1>1, <1>2 DEF Order, Added
<1> HIDE DEF o
<1>5. order' \in [Symbols -> Order] /\ order'[s] = o
  BY SMT, <1>3, <1>4 DEF TypeOK
<1>6. disk' \in Trackers
  BY <1>3, <1>5, DumpType, Zenon DEF TypeOK
<1>7. held' \in [Symbols -> Nat]
  BY SMT, <1>1 DEF PyramidAdd, TypeOK
<1>8. avg' \in [Symbols -> Nat]
  <2> DEFINE a == (avg[s] * held[s] + ltp[s] * q) \div (held[s] + q)
  <2>1. avg[s] * held[s] + ltp[s] * q \in Nat /\ held[s] + q \in Nat \ {0}
    BY SMT, <1>1
  <2>2. a \in Nat
    BY SMT, <2>1, DivNat
  <2>3. avg' = [avg EXCEPT ![s] = a]
    BY Zenon DEF PyramidAdd
  <2> HIDE DEF a
  <2> QED BY SMT, <2>2, <2>3 DEF TypeOK
<1>9. UNCHANGED <<orphan, closing, selling, buying, ltp, lockedIn, waited>>
  BY Zenon DEF PyramidAdd, history
<1> QED BY SMT, <1>2, <1>3, <1>4, <1>5, <1>6, <1>7, <1>8, <1>9 DEF TypeOK

\* What one tick leaves in memory and in the file, when no exit is raised.
LEMMA HoldsType ==
  ASSUME TypeOK, NEW s \in Symbols, CheckHolds(s)
  PROVE  TypeOK'
<1>1. HighAfter(s) \in Nat
  BY HighAfterNat, Zenon
<1>2. order' \in [Symbols -> Order] /\ high' \in [Symbols -> Nat] /\ armed' \in SUBSET Symbols
  BY SMT, <1>1 DEF CheckHolds, ArmedAfter, TypeOK
<1>3. disk' \in Trackers
  <2>1. CASE Dump
    BY <1>2, <2>1, DumpType, Zenon
  <2>2. CASE UNCHANGED disk
    BY SMT, <2>2 DEF TypeOK
  <2> QED BY <2>1, <2>2, Zenon DEF CheckHolds
<1>4. lockedIn' \in SUBSET Symbols
  BY SMT DEF CheckHolds, TypeOK
<1>5. UNCHANGED <<orphan, closing, held, avg, selling, buying, ltp, waited>>
  BY Zenon DEF CheckHolds, broker
<1> QED BY SMT, <1>2, <1>3, <1>4, <1>5 DEF TypeOK

LEMMA TriggersType ==
  ASSUME TypeOK, NEW s \in Symbols, CheckTriggers(s)
  PROVE  TypeOK'
<1>1. HighAfter(s) \in Nat
  BY HighAfterNat, Zenon
<1>2. order' \in [Symbols -> Order] /\ high' \in [Symbols -> Nat] /\ armed' \in SUBSET Symbols
  BY PopType, Zenon DEF CheckTriggers
<1>3. disk' \in Trackers
  <2>1. [high EXCEPT ![s] = HighAfter(s)] \in [Symbols -> Nat]
    BY SMT, <1>1 DEF TypeOK
  <2> QED BY SMT, <2>1 DEF CheckTriggers, Trackers, TypeOK
<1>4. lockedIn' \in SUBSET Symbols /\ closing' \in SUBSET Symbols
  BY SMT DEF CheckTriggers, TypeOK
<1>5. UNCHANGED <<orphan, held, avg, selling, buying, ltp, waited>>
  BY Zenon DEF CheckTriggers, broker
<1> QED BY SMT, <1>2, <1>3, <1>4, <1>5 DEF TypeOK

LEMMA CloseType ==
  ASSUME TypeOK, NEW s \in Symbols, CloseAccepted(s) \/ CloseRejected(s) \/ ExecuteSell(s)
  PROVE  TypeOK'
<1>1. CASE CloseAccepted(s)
  <2>1. order' \in [Symbols -> Order] /\ high' \in [Symbols -> Nat] /\ armed' \in SUBSET Symbols
    BY <1>1, PopType, Zenon DEF CloseAccepted
  <2>2. UNCHANGED <<orphan, disk, held, avg, buying, ltp, lockedIn, waited>>
    BY <1>1, Zenon DEF CloseAccepted, history
  <2> QED BY SMT, <1>1, <2>1, <2>2 DEF CloseAccepted, TypeOK
<1>2. CASE CloseRejected(s)
  BY SMT, <1>2 DEF CloseRejected, TypeOK, broker, history
<1>3. CASE ExecuteSell(s)
  <2>1. order' \in [Symbols -> Order] /\ high' \in [Symbols -> Nat] /\ armed' \in SUBSET Symbols
    BY <1>3, PopType, Zenon DEF ExecuteSell
  <2>2. disk' \in Trackers
    BY <1>3, <2>1, DumpType, Zenon DEF ExecuteSell
  <2>3. UNCHANGED <<orphan, closing, held, avg, buying, ltp, lockedIn, waited>>
    BY <1>3, Zenon DEF ExecuteSell, history
  <2> QED BY SMT, <1>3, <2>1, <2>2, <2>3 DEF ExecuteSell, TypeOK
<1> QED BY <1>1, <1>2, <1>3, Zenon

\* What a sync makes of one symbol: a new tracker, the old one with a stop,
\* nothing, or no change.
Rebuilt(s) == /\ held[s] > 0 /\ high[s] = 0
              /\ order'[s] = Restored(s) /\ high'[s] \in {ltp[s], avg[s]} /\ s \notin armed'
Kept(s) == /\ held[s] > 0 /\ high[s] > 0
           /\ order'[s] = Backfilled(order[s]) /\ high'[s] = high[s] /\ (s \in armed' <=> s \in armed)
Pruned(s) == /\ held[s] = 0 /\ Tracked(s)
             /\ order'[s] = NoOrder /\ high'[s] = 0 /\ s \notin armed'
Spared(s) == /\ held[s] = 0
             /\ order'[s] = order[s] /\ high'[s] = high[s] /\ (s \in armed' <=> s \in armed)

LEMMA SyncShape ==
  ASSUME TypeOK, NEW quoted \in SUBSET Symbols, SyncPositions(quoted), NEW s \in Symbols
  PROVE  Rebuilt(s) \/ Kept(s) \/ Pruned(s) \/ Spared(s)
<1>1. held[s] \in Nat /\ high[s] \in Nat
  BY Zenon DEF TypeOK
<1>2. CASE held[s] > 0 /\ high[s] = 0
  BY SMT, <1>1, <1>2 DEF SyncPositions, SyncedOrder, SyncedHigh, Missing, Stale, Prunes, Tracked, Rebuilt
<1>3. CASE held[s] > 0 /\ high[s] > 0
  BY SMT, <1>1, <1>3 DEF SyncPositions, SyncedOrder, SyncedHigh, Missing, Stale, Prunes, Tracked, Kept
<1>4. CASE held[s] = 0
  BY SMT, <1>1, <1>4 DEF SyncPositions, SyncedOrder, SyncedHigh, Missing, Stale, Prunes, Tracked, Pruned, Spared
<1> QED BY SMT, <1>1, <1>2, <1>3, <1>4

LEMMA BackfilledType ==
  ASSUME NEW o \in Order
  PROVE  /\ Backfilled(o) \in Order /\ Backfilled(o).entry = o.entry
         /\ Backfilled(o).adds = o.adds /\ Backfilled(o).gap = o.gap
         /\ o.stop <= Backfilled(o).stop
<1>1. o.entry \in Nat /\ o.stop \in Nat
  BY SMT DEF Order
<1>2. Below(o.entry, StopLossBp) \in Nat
  BY <1>1, BelowNat, ConstantTypes, Zenon
<1> QED BY SMT, <1>1, <1>2 DEF Backfilled, Order

LEMMA RestoredType ==
  ASSUME TypeOK, NEW s \in Symbols
  PROVE  Restored(s) \in Order /\ Restored(s).entry = avg[s]
<1>1. avg[s] \in Nat /\ held[s] \in Nat
  BY SMT DEF TypeOK
<1>2. Below(avg[s], StopLossBp) \in Nat
  BY <1>1, BelowNat, ConstantTypes, Zenon
<1> QED BY SMT, <1>1, <1>2 DEF Restored, Order, Distance

LEMMA SyncType ==
  ASSUME TypeOK, NEW quoted \in SUBSET Symbols, SyncPositions(quoted)
  PROVE  TypeOK'
<1>1. ASSUME NEW s \in Symbols PROVE SyncedOrder(s) \in Order /\ SyncedHigh(s, quoted) \in Nat
  <2>1. order[s] \in Order /\ high[s] \in Nat /\ avg[s] \in Nat /\ ltp[s] \in Price
    BY Zenon DEF TypeOK
  <2>2. ltp[s] \in Nat
    BY SMT, <2>1, ConstantTypes
  <2>3. Restored(s) \in Order /\ Backfilled(order[s]) \in Order
    BY <2>1, RestoredType, BackfilledType, Zenon
  <2> QED BY SMT, <2>1, <2>2, <2>3, NoOrderType DEF SyncedOrder, SyncedHigh
<1>3. order' \in [Symbols -> Order] /\ high' \in [Symbols -> Nat]
  BY SMT, <1>1 DEF SyncPositions
<1>4. armed' \in SUBSET Symbols
  BY SMT DEF SyncPositions, TypeOK
<1>5. disk' \in Trackers
  <2>1. CASE Dump
    BY <1>3, <1>4, <2>1, DumpType, Zenon
  <2>2. CASE UNCHANGED disk
    BY SMT, <2>2 DEF TypeOK
  <2> QED BY <2>1, <2>2, Zenon DEF SyncPositions
<1>6. orphan' \in [Symbols -> 0..OrphanGrace - 1]
  <2>1. ASSUME NEW s \in Symbols PROVE SyncedOrphan(s) \in 0..OrphanGrace - 1
    BY SMT, ConstantTypes DEF SyncedOrphan, Expires, TypeOK
  <2> QED BY SMT, <2>1 DEF SyncPositions
<1>7. waited' \in [Symbols -> 0..OrphanGrace]
  BY SMT, ConstantTypes DEF SyncPositions, TypeOK
<1>8. UNCHANGED <<closing, held, avg, selling, buying, ltp, lockedIn>>
  BY Zenon DEF SyncPositions, broker
<1> QED BY SMT, <1>3, <1>4, <1>5, <1>6, <1>7, <1>8 DEF TypeOK

LEMMA RestartType == TypeOK /\ Restart => TypeOK'
  BY SMT, ConstantTypes DEF Restart, Trackers, TypeOK, broker, history

LEMMA TornType == TypeOK /\ RestartTorn => TypeOK'
  BY SMT, ConstantTypes, NoOrderType DEF RestartTorn, Trackers, TypeOK, broker

\* The broker and the market.
Outside(s) ==
  \/ BuyFills(s) \/ BuyLapses(s) \/ PositionEnds(s)
  \/ \E q \in Qty : Adopted(s, q)
  \/ \E p \in Price : PriceMoves(s, p)

LEMMA OutsideType ==
  ASSUME TypeOK, NEW s \in Symbols, Outside(s)
  PROVE  TypeOK'
<1>1. ltp[s] \in Nat \ {0}
  BY ConstantTypes, Zenon DEF TypeOK
<1>2. CASE BuyFills(s)
  BY SMT, <1>1, <1>2 DEF BuyFills, TypeOK, history
<1>3. CASE BuyLapses(s)
  BY SMT, <1>3 DEF BuyLapses, TypeOK, history
<1>4. CASE PositionEnds(s)
  BY SMT, <1>4 DEF PositionEnds, TypeOK
<1>5. ASSUME NEW q \in Qty, Adopted(s, q) PROVE TypeOK'
  <2>1. q \in Nat
    BY SMT, ConstantTypes
  <2> QED BY SMT, <1>1, <1>5, <2>1 DEF Adopted, TypeOK, history
<1>6. ASSUME NEW p \in Price, PriceMoves(s, p) PROVE TypeOK'
  BY SMT, <1>6 DEF PriceMoves, TypeOK, history
<1> QED BY <1>2, <1>3, <1>4, <1>5, <1>6, Zenon DEF Outside

LEMMA TypeStep == TypeOK /\ [Next]_vars => TypeOK'
<1> SUFFICES ASSUME TypeOK, [Next]_vars PROVE TypeOK'
  OBVIOUS
<1>1. ASSUME NEW s \in Symbols, NEW q \in Qty, NEW b \in StopBps, NEW t \in TakeBps,
             NEW g \in GapBps, ExecuteBuy(s, q, b, t, g)
      PROVE  TypeOK'
  BY <1>1, BuyType, Zenon
<1>2. ASSUME NEW s \in Symbols, NEW q \in Qty, PyramidAdd(s, q) PROVE TypeOK'
  BY <1>2, AddType, Zenon
<1>3. ASSUME NEW s \in Symbols, CheckHolds(s) PROVE TypeOK'
  BY <1>3, HoldsType, Zenon
<1>4. ASSUME NEW s \in Symbols, CheckTriggers(s) PROVE TypeOK'
  BY <1>4, TriggersType, Zenon
<1>5. ASSUME NEW s \in Symbols, CloseAccepted(s) \/ CloseRejected(s) \/ ExecuteSell(s) PROVE TypeOK'
  BY <1>5, CloseType, Zenon
<1>6. ASSUME NEW s \in Symbols, Outside(s) PROVE TypeOK'
  BY <1>6, OutsideType, Zenon
<1>7. CASE Sync
  BY <1>7, SyncType, Zenon DEF Sync
<1>8. CASE Restart
  BY <1>8, RestartType, Zenon
<1>9. CASE RestartTorn
  BY <1>9, TornType, Zenon
<1>10. CASE UNCHANGED vars
  BY SMT, <1>10 DEF vars, broker, history, TypeOK
<1> QED BY <1>1, <1>2, <1>3, <1>4, <1>5, <1>6, <1>7, <1>8, <1>9, <1>10, Zenon DEF Next, Outside

\* Every reachable state is well typed: in particular no orphan counter
\* outlives its grace, and every tracker on disk is one that can be loaded.
THEOREM TypeCorrect == Spec => []TypeOK
  BY TypeInit, TypeStep, PTL DEF Spec

-----------------------------------------------------------------------------
(* The inductive invariant: what memory knows is on disk, and both are       *)
(* sound, for the file is memory after the next crash.                       *)

Sound(o, h, a) ==
  \A s \in Symbols :
    /\ o[s].entry > 0 => h[s] > 0
    /\ s \in a => o[s].entry > 0 /\ (o[s].adds = 0 => ReachesArm(h[s], o[s].entry))

SoundMemory == Sound(order, high, armed)
SoundDisk == Sound(disk.order, disk.high, disk.armed)

IInv == TypeOK /\ RestartLosesNothing /\ SoundMemory /\ SoundDisk

LEMMA InvInit == Init => IInv
  BY SMT, TypeInit DEF Init, IInv, TypeOK, NoOrder, Tracked, RestartLosesNothing, Sound,
     SoundMemory, SoundDisk

\* A dump carries the soundness of memory over to the file.
LEMMA DumpInv ==
  ASSUME SoundMemory', Dump
  PROVE  RestartLosesNothing' /\ SoundDisk'
  BY SMT DEF Dump, SoundMemory, SoundDisk, Sound, RestartLosesNothing, Tracked

\* Forgetting a tracker harms neither, whether or not the file hears of it.
LEMMA PopInv ==
  ASSUME IInv, NEW s \in Symbols, Pop(s)
  PROVE  SoundMemory' /\ (UNCHANGED disk => RestartLosesNothing' /\ SoundDisk')
<1>1. order \in [Symbols -> Order] /\ high \in [Symbols -> Nat] /\ NoOrder.entry = 0
  BY SMT DEF IInv, TypeOK, NoOrder
<1>2. SoundMemory'
  BY SMT, <1>1 DEF Pop, IInv, SoundMemory, Sound
<1>3. ASSUME UNCHANGED disk PROVE RestartLosesNothing' /\ SoundDisk'
  BY SMT, <1>1, <1>3 DEF Pop, IInv, RestartLosesNothing, Tracked, SoundDisk, Sound
<1> QED BY <1>2, <1>3

LEMMA BuyInv ==
  ASSUME IInv, NEW s \in Symbols, NEW q \in Qty, NEW b \in StopBps, NEW t \in TakeBps,
         NEW g \in GapBps, ExecuteBuy(s, q, b, t, g)
  PROVE  IInv'
<1>1. TypeOK'
  BY BuyType, Zenon DEF IInv
<1>2. ltp[s] \in Nat \ {0}
  BY HighAfterNat, Zenon DEF IInv
<1>3. SoundMemory'
  BY SMT, <1>2 DEF ExecuteBuy, IInv, TypeOK, SoundMemory, Sound
<1> QED BY <1>1, <1>3, DumpInv, Zenon DEF ExecuteBuy, IInv

LEMMA AddInv ==
  ASSUME IInv, NEW s \in Symbols, NEW q \in Qty, PyramidAdd(s, q)
  PROVE  IInv'
<1>1. TypeOK' /\ order'[s].entry > 0
  BY AddType, Zenon DEF IInv
<1>2. order'[s].adds # 0
  BY SMT DEF PyramidAdd, IInv, TypeOK, Order, Added
<1>3. /\ \A r \in Symbols \ {s} : order'[r] = order[r]
      /\ order[s].entry > 0 /\ high' = high /\ armed' = armed
  BY SMT DEF PyramidAdd, AddEarned, Tracked, IInv, TypeOK
<1>4. SoundMemory'
  BY SMT, <1>1, <1>2, <1>3 DEF IInv, SoundMemory, Sound
<1> QED BY <1>1, <1>4, DumpInv, Zenon DEF PyramidAdd, IInv

\* What a tick makes of the latch and the mark of a tracker.
LEMMA ArmingSound ==
  ASSUME IInv, NEW s \in Symbols, Tracked(s), NEW a,
         a \in {armed, ArmedAfter(s)}
  PROVE  Sound(order, [high EXCEPT ![s] = HighAfter(s)], a)
<1> DEFINE h == [high EXCEPT ![s] = HighAfter(s)]
<1>1. /\ HighAfter(s) \in Nat /\ high[s] <= HighAfter(s) /\ ltp[s] <= HighAfter(s)
      /\ ltp[s] \in Nat \ {0}
  BY HighAfterNat, Zenon DEF IInv
<1>2. high[s] \in Nat /\ order[s].entry \in Nat /\ ltp[s] \in Nat
  BY SMT, <1>1 DEF IInv, TypeOK, Order
<1>3. ReachesArm(high[s], order[s].entry) => ReachesArm(HighAfter(s), order[s].entry)
  BY <1>1, <1>2, ReachesArmMonotone, Zenon
<1>4. ReachesArm(ltp[s], order[s].entry) => ReachesArm(HighAfter(s), order[s].entry)
  BY <1>1, <1>2, ReachesArmMonotone, Zenon
<1>5. HighAfter(s) > 0
  BY SMT, <1>1
<1>6. /\ h[s] = HighAfter(s) /\ \A r \in Symbols \ {s} : h[r] = high[r]
  BY SMT DEF IInv, TypeOK
<1> HIDE DEF h
<1>7. a = armed \/ (a = armed \cup {s} /\ ReachesArm(ltp[s], order[s].entry))
  BY Zenon DEF ArmedAfter, Arms
<1>8. Sound(order, h, a)
  BY SMT, <1>3, <1>4, <1>5, <1>6, <1>7 DEF IInv, SoundMemory, Sound, Tracked
<1> QED BY <1>8 DEF h

LEMMA HoldsInv ==
  ASSUME IInv, NEW s \in Symbols, CheckHolds(s)
  PROVE  IInv'
<1>1. TypeOK'
  BY HoldsType, Zenon DEF IInv
<1>2. SoundMemory'
  <2>1. Sound(order, [high EXCEPT ![s] = HighAfter(s)], ArmedAfter(s))
    BY ArmingSound, Zenon DEF CheckHolds, Checkable
  <2> QED BY <2>1, Zenon DEF CheckHolds, SoundMemory, Sound
<1>3. CASE Dump
  BY <1>1, <1>2, <1>3, DumpInv, Zenon DEF IInv
<1>4. CASE UNCHANGED <<order, high, armed, disk>>
  BY SMT, <1>1, <1>2, <1>4 DEF IInv, RestartLosesNothing, Tracked, SoundDisk, Sound
<1> QED BY <1>3, <1>4, Zenon DEF CheckHolds

LEMMA TriggersInv ==
  ASSUME IInv, NEW s \in Symbols, CheckTriggers(s)
  PROVE  IInv'
<1>1. TypeOK'
  BY TriggersType, Zenon DEF IInv
<1>2. Pop(s) /\ Tracked(s)
  BY Zenon DEF CheckTriggers, Checkable
<1>3. CASE UNCHANGED disk
  BY <1>1, <1>2, <1>3, PopInv, Zenon DEF IInv
<1>4. CASE \E a \in {armed, ArmedAfter(s)} :
             disk' = [order |-> order, high |-> [high EXCEPT ![s] = HighAfter(s)], armed |-> a]
  <2>1. PICK a \in {armed, ArmedAfter(s)} :
          disk' = [order |-> order, high |-> [high EXCEPT ![s] = HighAfter(s)], armed |-> a]
    BY <1>4
  <2>2. Sound(order, [high EXCEPT ![s] = HighAfter(s)], a)
    BY <1>2, ArmingSound, Zenon
  <2>3. SoundDisk'
    BY SMT, <2>1, <2>2 DEF SoundDisk, Sound
  <2>4. SoundMemory'
    BY <1>2, PopInv, Zenon
  <2>5. \A r \in Symbols \ {s} : a \in {armed, armed \cup {s}} /\ (r \in a <=> r \in armed)
    BY SMT DEF ArmedAfter
  <2>6. RestartLosesNothing'
    <3>1. NoOrder.entry = 0
      BY SMT DEF NoOrder
    <3> QED BY SMT, <1>2, <2>1, <2>5, <3>1
            DEF RestartLosesNothing, Tracked, Pop, IInv, TypeOK
  <2> QED BY <1>1, <2>3, <2>4, <2>6, Zenon DEF IInv
<1>5. UNCHANGED disk \/ \E a \in {armed, ArmedAfter(s)} :
             disk' = [order |-> order, high |-> [high EXCEPT ![s] = HighAfter(s)], armed |-> a]
  BY SMT DEF CheckTriggers, ArmedAfter
<1> QED BY <1>3, <1>4, <1>5

LEMMA CloseInv ==
  ASSUME IInv, NEW s \in Symbols, CloseAccepted(s) \/ CloseRejected(s) \/ ExecuteSell(s)
  PROVE  IInv'
<1>1. TypeOK'
  BY CloseType, Zenon DEF IInv
<1>2. CASE CloseAccepted(s)
  BY <1>1, <1>2, PopInv, Zenon DEF CloseAccepted, IInv
<1>3. CASE CloseRejected(s)
  BY SMT, <1>1, <1>3
     DEF CloseRejected, IInv, RestartLosesNothing, Tracked, SoundMemory, SoundDisk, Sound
<1>4. CASE ExecuteSell(s)
  BY <1>1, <1>4, PopInv, DumpInv, Zenon DEF ExecuteSell, IInv
<1> QED BY <1>2, <1>3, <1>4, Zenon

LEMMA SyncInv ==
  ASSUME IInv, NEW quoted \in SUBSET Symbols, SyncPositions(quoted)
  PROVE  IInv'
<1>1. TypeOK'
  BY SyncType, Zenon DEF IInv
<1>2. ASSUME NEW s \in Symbols
      PROVE  /\ order'[s].entry > 0 => high'[s] > 0
             /\ s \in armed' => order'[s].entry > 0
                                /\ (order'[s].adds = 0 => ReachesArm(high'[s], order'[s].entry))
  <2>1. Rebuilt(s) \/ Kept(s) \/ Pruned(s) \/ Spared(s)
    BY SyncShape, Zenon DEF IInv
  <2>2. ltp[s] \in Nat \ {0}
    BY HighAfterNat, Zenon DEF IInv
  <2>3. /\ Restored(s).entry = avg[s] /\ NoOrder.entry = 0
        /\ Backfilled(order[s]).entry = order[s].entry
        /\ Backfilled(order[s]).adds = order[s].adds
    <3>1. order[s] \in Order
      BY Zenon DEF IInv, TypeOK
    <3>2. NoOrder.entry = 0
      BY SMT DEF NoOrder
    <3> QED BY <3>1, <3>2, RestoredType, BackfilledType, Zenon DEF IInv
  <2>4. avg[s] \in Nat /\ high[s] \in Nat
    BY SMT DEF IInv, TypeOK
  <2> QED BY SMT, <2>1, <2>2, <2>3, <2>4
          DEF Rebuilt, Kept, Pruned, Spared, IInv, SoundMemory, Sound
<1>3. SoundMemory'
  BY <1>2, Zenon DEF SoundMemory, Sound
<1>4. CASE Dump
  BY <1>1, <1>3, <1>4, DumpInv, Zenon DEF IInv
<1>5. CASE ~ \E s \in Symbols : Missing(s) \/ Prunes(s) \/ Backfills(s)
  <2>1. ASSUME NEW s \in Symbols
        PROVE  order'[s] = order[s] /\ high'[s] = high[s] /\ (s \in armed' <=> s \in armed)
    BY SMT, <1>5 DEF SyncPositions, SyncedOrder, SyncedHigh, Backfills
  <2>2. disk' = disk
    BY <1>5, Zenon DEF SyncPositions
  <2>3. RestartLosesNothing' /\ SoundDisk'
    BY SMT, <2>1, <2>2 DEF IInv, RestartLosesNothing, Tracked, SoundDisk, Sound
  <2> QED BY <1>1, <1>3, <2>3 DEF IInv
<1> QED BY <1>4, <1>5, Zenon DEF SyncPositions

LEMMA RestartInv == IInv /\ Restart => IInv'
<1> SUFFICES ASSUME IInv, Restart PROVE IInv'
  OBVIOUS
<1>1. TypeOK'
  BY RestartType, Zenon DEF IInv
<1> QED BY SMT, <1>1
        DEF IInv, Restart, RestartLosesNothing, Tracked, SoundMemory, SoundDisk, Sound

LEMMA TornInv == IInv /\ RestartTorn => IInv'
<1> SUFFICES ASSUME IInv, RestartTorn PROVE IInv'
  OBVIOUS
<1>1. TypeOK'
  BY TornType, Zenon DEF IInv
<1> QED BY SMT, <1>1 DEF IInv, RestartTorn, NoOrder, RestartLosesNothing, Tracked,
                         SoundMemory, SoundDisk, Sound

\* Nothing the broker or the market does touches a tracker.
LEMMA OutsideLeavesTrackers ==
  ASSUME NEW s \in Symbols, Outside(s)
  PROVE  UNCHANGED <<order, high, armed, disk>>
  BY Zenon DEF Outside, BuyFills, BuyLapses, PositionEnds, Adopted, PriceMoves

LEMMA InvStep == IInv /\ [Next]_vars => IInv'
<1> SUFFICES ASSUME IInv, [Next]_vars PROVE IInv'
  OBVIOUS
<1>1. ASSUME NEW s \in Symbols, NEW q \in Qty, NEW b \in StopBps, NEW t \in TakeBps,
             NEW g \in GapBps, ExecuteBuy(s, q, b, t, g)
      PROVE  IInv'
  BY <1>1, BuyInv, Zenon
<1>2. ASSUME NEW s \in Symbols, NEW q \in Qty, PyramidAdd(s, q) PROVE IInv'
  BY <1>2, AddInv, Zenon
<1>3. ASSUME NEW s \in Symbols, CheckHolds(s) PROVE IInv'
  BY <1>3, HoldsInv, Zenon
<1>4. ASSUME NEW s \in Symbols, CheckTriggers(s) PROVE IInv'
  BY <1>4, TriggersInv, Zenon
<1>5. ASSUME NEW s \in Symbols, CloseAccepted(s) \/ CloseRejected(s) \/ ExecuteSell(s) PROVE IInv'
  BY <1>5, CloseInv, Zenon
<1>6. ASSUME UNCHANGED <<order, high, armed, disk>> PROVE IInv'
  <2>1. TypeOK'
    BY TypeStep, Zenon DEF IInv
  <2> QED BY SMT, <1>6, <2>1 DEF IInv, RestartLosesNothing, Tracked, SoundMemory, SoundDisk, Sound
<1>7. ASSUME NEW s \in Symbols, Outside(s) PROVE IInv'
  BY <1>6, <1>7, OutsideLeavesTrackers, Zenon
<1>8. CASE Sync
  BY <1>8, SyncInv, Zenon DEF Sync
<1>9. CASE Restart
  BY <1>9, RestartInv, Zenon
<1>10. CASE RestartTorn
  BY <1>10, TornInv, Zenon
<1>11. CASE UNCHANGED vars
  BY <1>6, <1>11, Zenon DEF vars
<1> QED BY <1>1, <1>2, <1>3, <1>4, <1>5, <1>7, <1>8, <1>9, <1>10, <1>11, Zenon
    DEF Next, Outside

THEOREM Invariance == Spec => []IInv
  BY InvInit, InvStep, PTL DEF Spec

\* The file always holds all that a live tracker knows, so no crash, at any
\* point between two operations, disarms a trail or lowers a peak.
THEOREM RestartIsLossless == Spec => []RestartLosesNothing
<1>1. IInv => RestartLosesNothing
  BY DEF IInv
<1> QED BY Invariance, <1>1, PTL

\* No tracker is armed on another position's proof, not even one rebuilt by
\* a sync, replaced by a new BUY or read back from the file.
THEOREM LatchIsProven == Spec => []ArmedMeansProven
<1>1. IInv => ArmedMeansProven
  BY Zenon DEF IInv, SoundMemory, Sound, ArmedMeansProven, Tracked, TypeOK
<1> QED BY Invariance, <1>1, PTL

\* There is no price window in which an exit is due and unreachable.
LEMMA DueIsReachable == TypeOK => StopIsReachable
<1> SUFFICES ASSUME TypeOK, NEW s \in Symbols, Checkable(s), ltp[s] <= StopLevel(s)
             PROVE  HitsStop(s) \/ HitsTrail(s)
  BY Zenon DEF StopIsReachable
<1>1. /\ HighAfter(s) \in Nat /\ high[s] <= HighAfter(s) /\ ltp[s] <= HighAfter(s)
      /\ ltp[s] \in Nat \ {0} /\ high[s] \in Nat /\ order[s] \in Order
  BY HighAfterNat, Zenon DEF TypeOK
<1>2. order[s].stop \in Nat /\ ltp[s] \in Nat /\ ltp[s] > 0
  BY SMT, <1>1 DEF Order
<1>3. CASE ltp[s] <= order[s].stop
  BY SMT, <1>2, <1>3 DEF HitsStop
<1>4. CASE s \in armed /\ ltp[s] <= Trigger(high[s], order[s])
  <2>1. /\ Trigger(high[s], order[s]) \in Nat /\ Trigger(HighAfter(s), order[s]) \in Nat
        /\ Trigger(high[s], order[s]) <= Trigger(HighAfter(s), order[s])
    BY <1>1, TriggerMonotone, Zenon
  <2>2. s \in ArmedAfter(s)
    BY <1>4, Zenon DEF ArmedAfter, Arms
  <2> QED BY SMT, <1>2, <1>4, <2>1, <2>2 DEF HitsTrail
<1> QED BY <1>3, <1>4, Zenon DEF StopLevel, Larger

THEOREM ExitIsReachable == Spec => []StopIsReachable
  BY TypeCorrect, DueIsReachable, PTL

-----------------------------------------------------------------------------
(* Steps: the ratchet, and the refinement of ProfitLock. *)

\* All a step may do to the tracker of a held position, short of ending it.
Tightens(s) == /\ high[s] <= high'[s] /\ (s \in armed => s \in armed')
               /\ order'[s] \in {order[s], Backfilled(order[s])}
Rebases(s) == s \in armed /\ s \in armed' /\ high'[s] = high[s]

LEMMA GuardedStep ==
  ASSUME IInv, Next, NEW s \in Symbols, Guarded(s), order'[s].entry > 0
  PROVE  Tightens(s) \/ Rebases(s)
<1> USE DEF Guarded
<1>0. /\ order \in [Symbols -> Order] /\ high \in [Symbols -> Nat] /\ NoOrder.entry = 0
      /\ high[s] \in Nat /\ held[s] \in Nat
  BY SMT DEF IInv, TypeOK, NoOrder
<1>1. ASSUME NEW r \in Symbols, NEW q \in Qty, NEW b \in StopBps, NEW t \in TakeBps,
             NEW g \in GapBps, ExecuteBuy(r, q, b, t, g)
      PROVE  Tightens(s)
  BY SMT, <1>0, <1>1 DEF ExecuteBuy, Tightens
<1>2. ASSUME NEW r \in Symbols, NEW q \in Qty, PyramidAdd(r, q) PROVE Tightens(s) \/ Rebases(s)
  BY SMT, <1>0, <1>2 DEF PyramidAdd, AddEarned, Tightens, Rebases
<1>3. ASSUME NEW r \in Symbols, CheckHolds(r) PROVE Tightens(s)
  <2>1. HighAfter(r) \in Nat /\ high[r] <= HighAfter(r)
    BY HighAfterNat, Zenon DEF IInv
  <2> QED BY SMT, <1>0, <1>3, <2>1 DEF CheckHolds, ArmedAfter, Tightens
<1>4. ASSUME NEW r \in Symbols, Pop(r) PROVE Tightens(s)
  BY SMT, <1>0, <1>4 DEF Pop, Tightens
<1>5. ASSUME NEW r \in Symbols, CheckTriggers(r) \/ CloseAccepted(r) \/ ExecuteSell(r)
      PROVE  Tightens(s)
  BY <1>4, <1>5, Zenon DEF CheckTriggers, CloseAccepted, ExecuteSell
<1>6. ASSUME UNCHANGED <<order, high, armed>> PROVE Tightens(s)
  BY SMT, <1>0, <1>6 DEF Tightens
<1>7. ASSUME NEW r \in Symbols, CloseRejected(r) \/ Outside(r) PROVE Tightens(s)
  BY <1>6, <1>7, OutsideLeavesTrackers, Zenon DEF CloseRejected
<1>8. ASSUME NEW quoted \in SUBSET Symbols, SyncPositions(quoted) PROVE Tightens(s)
  <2>1. Rebuilt(s) \/ Kept(s) \/ Pruned(s) \/ Spared(s)
    BY <1>8, SyncShape, Zenon DEF IInv
  <2>2. high[s] > 0
    BY Zenon DEF IInv, SoundMemory, Sound, Tracked
  <2> QED BY SMT, <1>0, <2>1, <2>2 DEF Rebuilt, Kept, Pruned, Spared, Tightens
<1>9. CASE Restart
  BY SMT, <1>0, <1>9 DEF Restart, IInv, RestartLosesNothing, Tightens
<1>10. ~RestartTorn
  BY SMT, <1>0 DEF RestartTorn
<1> QED BY <1>1, <1>2, <1>3, <1>5, <1>7, <1>8, <1>9, <1>10, Zenon DEF Next, Sync, Outside

\* The high-water mark of a guarded position never falls, not even across a
\* refused exit, a sync or a crash: the peak is what the trail is cut from.
THEOREM HighIsRatchet == Spec => Ratchet
<1>1. ASSUME IInv, Next, NEW s \in Symbols, held[s] > 0, Tracked(s), order'[s].entry > 0
      PROVE  high'[s] >= high[s]
  <2>1. Tightens(s) \/ Rebases(s)
    BY <1>1, GuardedStep, Zenon DEF Guarded
  <2>2. high[s] \in Nat /\ high'[s] \in Nat
    <3>1. TypeOK /\ TypeOK'
      BY <1>1, TypeStep, Zenon DEF IInv
    <3> QED BY SMT, <3>1 DEF TypeOK
  <2> QED BY SMT, <2>1, <2>2 DEF Tightens, Rebases
<1>2. IInv /\ [Next]_vars =>
        [\A s \in Symbols : held[s] > 0 /\ Tracked(s) /\ Tracked(s)' => high'[s] >= high[s]]_vars
  BY <1>1, Zenon DEF Tracked
<1> QED BY Invariance, <1>2, PTL DEF Spec, Ratchet

LEMMA StopLevelNat == TypeOK => \A s \in Symbols : StopLevel(s) \in Nat
<1> SUFFICES ASSUME TypeOK, NEW s \in Symbols PROVE StopLevel(s) \in Nat
  OBVIOUS
<1>1. order[s] \in Order /\ high[s] \in Nat
  BY SMT DEF TypeOK
<1>2. Trigger(high[s], order[s]) \in Nat
  <2>1. high[s] <= high[s]
    BY SMT, <1>1
  <2> QED BY <1>1, <2>1, TriggerMonotone, Zenon
<1>3. order[s].stop \in Nat
  BY SMT, <1>1 DEF Order
<1> QED BY SMT, <1>2, <1>3 DEF StopLevel, Larger

\* A better stop and a higher peak never lower the level.
LEMMA TighteningRaises ==
  ASSUME TypeOK, TypeOK', NEW s \in Symbols, Tightens(s)
  PROVE  StopLevel(s) <= StopLevel(s)'
<1>1. /\ order[s] \in Order /\ order'[s] \in Order /\ high[s] \in Nat /\ high'[s] \in Nat
      /\ high[s] <= high'[s]
  BY SMT DEF TypeOK, Tightens
<1>2. /\ order'[s].entry = order[s].entry /\ order'[s].gap = order[s].gap
      /\ order[s].stop <= order'[s].stop
  <2>1. order[s].stop \in Nat
    BY SMT, <1>1 DEF Order
  <2>2. CASE order'[s] = order[s]
    BY SMT, <2>1, <2>2
  <2>3. CASE order'[s] = Backfilled(order[s])
    BY <1>1, <2>3, BackfilledType, Zenon
  <2> QED BY <2>2, <2>3, Zenon DEF Tightens
<1>3. Trigger(high'[s], order'[s]) = Trigger(high'[s], order[s])
  BY <1>2, Zenon DEF Trigger, Trail
<1>4. /\ Trigger(high[s], order[s]) \in Nat /\ Trigger(high'[s], order[s]) \in Nat
      /\ Trigger(high[s], order[s]) <= Trigger(high'[s], order[s])
  BY <1>1, TriggerMonotone, Zenon
<1>5. order[s].stop \in Nat /\ order'[s].stop \in Nat
  BY SMT, <1>1 DEF Order
<1> QED BY SMT, <1>2, <1>3, <1>4, <1>5 DEF StopLevel, Larger, Tightens

LEMMA RefinementInit == Init => Promise!Init
  BY SMT DEF Init, Promise!Init, PhaseOf, LevelOf, Guarded

LEMMA RefinementStep == IInv /\ IInv' /\ Next => Promise!Next
<1> SUFFICES ASSUME IInv, IInv', Next PROVE Promise!Next
  OBVIOUS
<1> DEFINE phase == [s \in Symbols |-> PhaseOf(s)]
           level == [s \in Symbols |-> LevelOf(s)]
<1>1. phase' \in [Symbols -> Promise!Phase] /\ level' \in [Symbols -> Nat]
  <2>0. (TypeOK => \A s \in Symbols : StopLevel(s) \in Nat)'
    BY StopLevelNat, PTL
  <2>1. ASSUME NEW s \in Symbols PROVE PhaseOf(s)' \in Promise!Phase /\ LevelOf(s)' \in Nat
    <3>1. StopLevel(s)' \in Nat
      BY <2>0, Zenon DEF IInv
    <3> QED BY SMT, <3>1 DEF PhaseOf, LevelOf, Promise!Phase
  <2> QED BY <2>1, Zenon
<1>2. ASSUME NEW s \in Symbols
      PROVE  \/ PhaseOf(s) = "none" /\ PhaseOf(s)' # "none"
             \/ /\ PhaseOf(s) # "none" /\ PhaseOf(s)' # "none"
                /\ PhaseOf(s) = "lock" => PhaseOf(s)' = "lock"
                /\ LevelOf(s)' >= LevelOf(s)
             \/ PhaseOf(s) = "lock" /\ PhaseOf(s)' = "lock"
             \/ PhaseOf(s) # "none" /\ PhaseOf(s)' = "none" /\ LevelOf(s)' = 0
             \/ PhaseOf(s)' = PhaseOf(s) /\ LevelOf(s)' = LevelOf(s)
  <2>1. CASE ~Guarded(s) \/ ~Guarded(s)'
    BY SMT, <2>1 DEF PhaseOf, LevelOf
  <2>2. CASE Guarded(s) /\ Guarded(s)'
    <3>1. Tightens(s) \/ Rebases(s)
      BY <2>2, GuardedStep, Zenon DEF Guarded, Tracked
    <3>2. CASE Tightens(s)
      <4>1. StopLevel(s) <= StopLevel(s)'
        BY <3>2, TighteningRaises, Zenon DEF IInv
      <4> QED BY SMT, <2>2, <3>2, <4>1 DEF PhaseOf, LevelOf, Tightens
    <3>3. CASE Rebases(s)
      BY SMT, <2>2, <3>3 DEF PhaseOf, Rebases
    <3> QED BY <3>1, <3>2, <3>3
  <2> QED BY <2>1, <2>2
<1> QED BY <1>1, <1>2, SMT
        DEF Promise!Next, Promise!Open, Promise!Tighten, Promise!Rebase, Promise!End, Promise!Idle

\* The executor implements the promise of "Patience Then Lock" for every
\* market, price grid and setting, crashes, refusals and syncs included.
THEOREM Implements == Spec => ImplementsProfitLock
<1>1. IInv /\ IInv' /\ [Next]_vars
        => [Promise!Next]_<<[s \in Symbols |-> PhaseOf(s)], [s \in Symbols |-> LevelOf(s)]>>
  <2>1. CASE Next
    BY <2>1, RefinementStep
  <2>2. CASE UNCHANGED vars
    BY SMT, <2>2 DEF vars, broker, PhaseOf, LevelOf, Guarded, Tracked, StopLevel, Trigger, Trail
  <2> QED BY <2>1, <2>2
<1> QED BY RefinementInit, Invariance, <1>1, PTL DEF Spec, ImplementsProfitLock, Promise!Spec
=============================================================================
