------------------------ MODULE EntryGatesProofs ------------------------
(***************************************************************************)
(* Theorems about EntryGates, for every set of symbols and every limit:    *)
(* types, the churn cap against orders that have not filled, and the       *)
(* day-trade budget against fills and log rows that come late.             *)
(***************************************************************************)
EXTENDS EntryGates, FiniteSetTheorems, TLAPS

(* A symbol has no more orders than the bound, filled ones included.       *)
WithinBound == \A s \in Symbols : bought[s] + buying[s] <= MaxBuys

(* The churn counter of a process that has not restarted counts at least   *)
(* every order that is filled or may still fill, and stays in its cap.     *)
Counted ==
  /\ ~restarted => \A s \in Symbols : bought[s] + buying[s] <= entries[s]
  /\ EntryCap > 0 => \A s \in Symbols : entries[s] <= EntryCap

(* TypeOK with the type of bought that does not depend on WithinBound.     *)
CountsOK ==
  /\ book \in Counts /\ adopting \in BOOLEAN /\ entries \in Counts
  /\ cooling \in SUBSET Symbols /\ opened \in SUBSET Symbols
  /\ logBuys \in Counts /\ logSells \in Counts /\ usedBefore \in 0..MaxDayTrades
  /\ held \in Counts /\ buying \in Counts /\ bought \in Counts /\ sold \in Counts
  /\ restarted \in BOOLEAN /\ reentered \in SUBSET Symbols

IInv == CountsOK /\ WithinBound /\ Counted

LEMMA OneMore ==
  ASSUME NEW f \in Counts, NEW s \in Symbols
  PROVE  [f EXCEPT ![s] = @ + 1] \in Counts
  BY DEF Counts

LEMMA OneLess ==
  ASSUME NEW f \in Counts, NEW s \in Symbols, f[s] > 0
  PROVE  [f EXCEPT ![s] = @ - 1] \in Counts
  BY DEF Counts

LEMMA InitInv == Init => IInv
<1> SUFFICES ASSUME Init PROVE IInv
  OBVIOUS
<1>1. Zero \in Counts /\ \A s \in Symbols : Zero[s] = 0
  BY DEF Zero, Counts
<1>2. held \in Counts
  BY DEF Init, Counts
<1>3. CountsOK
  BY <1>1, <1>2 DEF Init, CountsOK
<1>4. WithinBound /\ Counted
  BY <1>1, GateAssumption DEF Init, WithinBound, Counted
<1> QED BY <1>3, <1>4 DEF IInv

(* A purchase of one symbol, its counters and the bound.                   *)
LEMMA BuyInv ==
  ASSUME IInv, NEW s \in Symbols, Buy(s)
  PROVE  IInv'
<1>1. CountsOK'
  <2>1. buying' \in Counts /\ entries' \in Counts
    BY OneMore DEF Buy, Registered, IInv, CountsOK
  <2>2. reentered' \in SUBSET Symbols
    BY DEF Buy, AfterSale, IInv, CountsOK
  <2> QED BY <2>1, <2>2 DEF Buy, log, IInv, CountsOK
<1>2. ASSUME NEW t \in Symbols
      PROVE  /\ bought'[t] + buying'[t] <= MaxBuys
             /\ ~restarted' => bought'[t] + buying'[t] <= entries'[t]
             /\ EntryCap > 0 => entries'[t] <= EntryCap
  <2>1. CASE t = s
    BY <2>1, GateAssumption
       DEF Buy, MayBuy, Registered, IInv, CountsOK, WithinBound, Counted, Counts
  <2>2. CASE t # s
    BY <2>2 DEF Buy, Registered, IInv, CountsOK, WithinBound, Counted, Counts
  <2> QED BY <2>1, <2>2
<1> QED BY <1>1, <1>2 DEF IInv, WithinBound, Counted

LEMMA FillInv ==
  ASSUME IInv, NEW s \in Symbols, BuyFills(s)
  PROVE  IInv'
<1>1. CountsOK'
  <2>1. buying' \in Counts /\ held' \in Counts /\ bought' \in Counts
    BY OneMore, OneLess DEF BuyFills, IInv, CountsOK
  <2>2. reentered' \in SUBSET Symbols
    BY DEF BuyFills, AfterSale, IInv, CountsOK
  <2> QED BY <2>1, <2>2 DEF BuyFills, process, log, IInv, CountsOK
<1>2. ASSUME NEW t \in Symbols
      PROVE  bought'[t] + buying'[t] = bought[t] + buying[t]
  BY DEF BuyFills, IInv, CountsOK, Counts
<1> QED BY <1>1, <1>2 DEF BuyFills, process, IInv, WithinBound, Counted

LEMMA LapseInv ==
  ASSUME IInv, NEW s \in Symbols, BuyLapses(s)
  PROVE  IInv'
<1>1. CountsOK'
  <2>1. buying' \in Counts
    BY OneLess DEF BuyLapses, IInv, CountsOK
  <2> QED BY <2>1 DEF BuyLapses, process, log, history, IInv, CountsOK
<1>2. ASSUME NEW t \in Symbols
      PROVE  /\ bought'[t] + buying'[t] <= bought[t] + buying[t]
             /\ bought[t] + buying[t] \in Nat /\ bought'[t] + buying'[t] \in Nat
             /\ entries[t] \in Nat /\ entries' = entries /\ restarted' = restarted
  BY DEF BuyLapses, process, history, IInv, CountsOK, Counts
<1>3. WithinBound'
  BY <1>2, GateAssumption DEF IInv, WithinBound
<1>4. Counted'
  BY <1>2 DEF IInv, Counted
<1> QED BY <1>1, <1>3, <1>4 DEF IInv

(* Steps that leave orders and churn counters alone.                       *)
LEMMA OrdersAlone ==
  ASSUME IInv, CountsOK', UNCHANGED <<bought, buying, entries, restarted>>
  PROVE  IInv'
  BY DEF IInv, WithinBound, Counted

LEMMA ExitInv ==
  ASSUME IInv, NEW s \in Symbols, Exit(s)
  PROVE  IInv'
<1>1. held' \in Counts
  BY DEF Exit, IInv, CountsOK, Counts
<1>2. sold' \in Counts
  BY OneMore DEF Exit, IInv, CountsOK
<1>3. CountsOK'
  BY <1>1, <1>2 DEF Exit, Cooled, log, history, IInv, CountsOK
<1> QED BY <1>3, OrdersAlone DEF Exit, history

LEMMA CooldownInv ==
  ASSUME IInv, NEW s \in Symbols, SellRefused(s) \/ CooldownEnds(s)
  PROVE  IInv'
<1>1. CountsOK'
  BY DEF SellRefused, CooldownEnds, Cooled, InBook, log, account, history, IInv, CountsOK
<1> QED BY <1>1, OrdersAlone DEF SellRefused, CooldownEnds, account, history

LEMMA SyncInv ==
  ASSUME IInv, Sync
  PROVE  IInv'
<1>1. ASSUME NEW s \in Symbols PROVE BuyRows(s) \in Nat /\ SellRows(s) \in Nat
  BY DEF BuyRows, SellRows, IInv, CountsOK, Counts
<1>2. logBuys' \in Counts /\ logSells' \in Counts
  BY <1>1 DEF Sync, IInv, CountsOK, Counts
<1>3. CountsOK'
  BY <1>2 DEF Sync, account, history, IInv, CountsOK
<1> QED BY <1>3, OrdersAlone DEF Sync, account, history

LEMMA RestartInv ==
  ASSUME IInv, Restart
  PROVE  IInv'
<1>1. Zero \in Counts /\ \A s \in Symbols : Zero[s] = 0
  BY DEF Zero, Counts
<1>2. CountsOK'
  BY <1>1 DEF Restart, log, account, IInv, CountsOK
<1> QED BY <1>1, <1>2, GateAssumption
        DEF Restart, account, IInv, WithinBound, Counted

LEMMA StepInv == IInv /\ [Next]_vars => IInv'
<1> SUFFICES ASSUME IInv, [Next]_vars PROVE IInv'
  OBVIOUS
<1>1. ASSUME NEW s \in Symbols,
             Buy(s) \/ Exit(s) \/ SellRefused(s) \/ CooldownEnds(s)
               \/ BuyFills(s) \/ BuyLapses(s)
      PROVE  IInv'
  BY <1>1, BuyInv, ExitInv, CooldownInv, FillInv, LapseInv
<1>2. CASE UNCHANGED vars
  BY <1>2 DEF vars, process, log, account, history, IInv, CountsOK, WithinBound, Counted
<1> QED BY <1>1, <1>2, SyncInv, RestartInv DEF Next

LEMMA Invariant == Spec => []IInv
  BY InitInv, StepInv, PTL DEF Spec

(* Types: no symbol is filled more often than MaxBuys lets it be ordered.  *)
THEOREM TypeCorrect == Spec => []TypeOK
<1>1. IInv => TypeOK
  <2> SUFFICES ASSUME IInv PROVE TypeOK
    OBVIOUS
  <2>1. bought \in [Symbols -> 0..MaxBuys]
    <3>1. ASSUME NEW s \in Symbols PROVE bought[s] \in 0..MaxBuys
      BY GateAssumption DEF IInv, CountsOK, WithinBound, Counts
    <3> QED BY <3>1 DEF IInv, CountsOK, Counts
  <2> QED BY <2>1 DEF IInv, CountsOK, TypeOK
<1> QED BY <1>1, Invariant, PTL

(* The churn cap of make_decision counts orders when they are accepted, so *)
(* filled and working orders together stay within it until a restart.      *)
THEOREM ChurnIsCapped == Spec => []ChurnCapped
<1>1. IInv => ChurnCapped
  <2> SUFFICES ASSUME IInv, EntryCap > 0, ~restarted, NEW s \in Symbols
               PROVE  bought[s] + buying[s] <= EntryCap
    BY DEF ChurnCapped
  <2> QED BY GateAssumption DEF IInv, CountsOK, Counted, Counts
<1> QED BY <1>1, Invariant, PTL

-----------------------------------------------------------------------------
(* The day-trade budget.                                                   *)

(* A row of the log stands for a fill, and the fills behind a position the *)
(* book does not show yet have no row.                                     *)
RowsFollowFills ==
  \A s \in Symbols :
    /\ logBuys[s] <= bought[s]
    /\ ~adopting /\ held[s] > book[s] => logBuys[s] < bought[s]
    /\ logSells[s] > 0 => sold[s] > 0
    /\ book[s] > 0 /\ held[s] = 0 => sold[s] > 0

(* What the guard has noted: every symbol ordered, and of those the ones   *)
(* whose position shows in book or log have a BUY row.                     *)
Noted ==
  /\ adopting => opened = {}
  /\ \A s \in Symbols : bought[s] + buying[s] > 0 => s \in opened
  /\ \A s \in opened : book[s] > 0 \/ logSells[s] > 0 => logBuys[s] > 0

(* A symbol is sold once a day, and not held afterwards.                   *)
SoldOnce == \A s \in Symbols : sold[s] <= 1 /\ (held[s] > 0 => sold[s] = 0)

(* One day trade is kept for each symbol the guard has noted.              *)
Reserved == usedBefore + Cardinality(opened) <= MaxDayTrades

(* They hold while the process has not restarted and no symbol came back   *)
(* after a sale.                                                           *)
Untouched == ~restarted /\ reentered = {}
Budgeted == Noted /\ SoldOnce /\ Reserved

BudgetInv == RowsFollowFills /\ (Untouched => Budgeted)

LEMMA LeastOfTwo ==
  ASSUME NEW a \in Nat, NEW b \in Nat
  PROVE  /\ Least(a, b) \in Nat /\ Least(a, b) <= a /\ Least(a, b) <= b
         /\ a > 0 /\ b > 0 => Least(a, b) >= 1
  BY DEF Least

(* The day trades of finitely many symbols are finitely many.              *)
LEMMA DayTradesFinite ==
  ASSUME NEW b \in Counts, NEW c \in Counts, \A s \in Symbols : b[s] <= MaxBuys
  PROVE  IsFiniteSet(DayTrades(b, c))
<1>1. IsFiniteSet(1..MaxBuys)
  BY GateAssumption, FS_Interval
<1>2. IsFiniteSet(Symbols \X (1..MaxBuys))
  BY <1>1, GateAssumption, FS_Product
<1>3. ASSUME NEW s \in Symbols PROVE 1..Least(b[s], c[s]) \subseteq 1..MaxBuys
  <2>1. b[s] \in Nat /\ c[s] \in Nat
    BY DEF Counts
  <2>2. Least(b[s], c[s]) \in Nat /\ Least(b[s], c[s]) <= b[s]
    BY <2>1, LeastOfTwo
  <2>3. b[s] <= MaxBuys /\ MaxBuys \in Nat
    BY GateAssumption
  <2> QED BY <2>1, <2>2, <2>3
<1>4. DayTrades(b, c) \subseteq Symbols \X (1..MaxBuys)
  BY <1>3 DEF DayTrades
<1> QED BY <1>2, <1>4, FS_Subset

(* One pair for each member of a finite set.                               *)
LEMMA OnePairEach ==
  ASSUME NEW S, IsFiniteSet(S)
  PROVE  /\ IsFiniteSet(S \X {1})
         /\ Cardinality(S \X {1}) = Cardinality(S) /\ Cardinality(S) \in Nat
<1>1. IsFiniteSet({1}) /\ Cardinality({1}) = 1
  BY FS_Singleton
<1>2. Cardinality(S) \in Nat
  BY FS_CardinalityType
<1>3. IsFiniteSet(S \X {1}) /\ Cardinality(S \X {1}) = Cardinality(S) * Cardinality({1})
  BY <1>1, FS_Product
<1> QED BY <1>1, <1>2, <1>3

(* Symbols bought and sold are day trades, one each at least.              *)
LEMMA TradedAtLeast ==
  ASSUME NEW b \in Counts, NEW c \in Counts, \A s \in Symbols : b[s] <= MaxBuys,
         NEW S \in SUBSET Symbols, \A s \in S : b[s] > 0 /\ c[s] > 0
  PROVE  Cardinality(S) <= RoundTrips(b, c) /\ RoundTrips(b, c) \in Nat
<1>1. IsFiniteSet(DayTrades(b, c))
  BY DayTradesFinite
<1>2. IsFiniteSet(S)
  BY GateAssumption, FS_Subset
<1>3. ASSUME NEW s \in S PROVE 1 \in 1..Least(b[s], c[s])
  <2>1. b[s] \in Nat /\ c[s] \in Nat
    BY DEF Counts
  <2>2. Least(b[s], c[s]) \in Nat /\ Least(b[s], c[s]) >= 1
    BY <2>1, LeastOfTwo
  <2> QED BY <2>2
<1>4. S \X {1} \subseteq DayTrades(b, c)
  BY <1>3 DEF DayTrades
<1>5. Cardinality(S \X {1}) <= Cardinality(DayTrades(b, c))
  BY <1>1, <1>4, FS_Subset
<1> QED BY <1>1, <1>2, <1>5, OnePairEach, FS_CardinalityType DEF RoundTrips

(* Symbols sold once make one day trade each at most.                      *)
LEMMA TradedAtMost ==
  ASSUME NEW b \in Counts, NEW c \in Counts, NEW S \in SUBSET Symbols,
         \A s \in Symbols : c[s] <= 1 /\ (b[s] > 0 => s \in S)
  PROVE  RoundTrips(b, c) <= Cardinality(S) /\ RoundTrips(b, c) \in Nat
<1>1. IsFiniteSet(S)
  BY GateAssumption, FS_Subset
<1>2. ASSUME NEW s \in Symbols, NEW n \in 1..Least(b[s], c[s]) PROVE s \in S /\ n = 1
  <2>1. b[s] \in Nat /\ c[s] \in Nat /\ c[s] <= 1
    BY DEF Counts
  <2>2. Least(b[s], c[s]) \in Nat /\ Least(b[s], c[s]) <= b[s] /\ Least(b[s], c[s]) <= c[s]
    BY <2>1, LeastOfTwo
  <2>3. n = 1 /\ b[s] > 0
    BY <2>1, <2>2
  <2> QED BY <2>3
<1>3. DayTrades(b, c) \subseteq S \X {1}
  BY <1>2 DEF DayTrades
<1>4. /\ IsFiniteSet(DayTrades(b, c))
      /\ Cardinality(DayTrades(b, c)) <= Cardinality(S \X {1})
  BY <1>1, <1>3, OnePairEach, FS_Subset
<1> QED BY <1>1, <1>4, OnePairEach, FS_CardinalityType DEF RoundTrips

(* A free slot is one beyond the symbols noted so far: those sold already  *)
(* are among the day trades of the log, the others hold a reservation.     *)
LEMMA SlotIsFree ==
  ASSUME IInv, RowsFollowFills, Noted, Slots > 0
  PROVE  usedBefore + Cardinality(opened) < MaxDayTrades
<1> DEFINE closed == {s \in Symbols : logSells[s] > 0}
<1>1. IsFiniteSet(opened) /\ Cardinality(opened) \in Nat
  BY GateAssumption, FS_Subset, FS_CardinalityType DEF IInv, CountsOK
<1>2. /\ IsFiniteSet(opened \ closed)
      /\ Cardinality(opened \ closed) = Cardinality(opened) - Cardinality(opened \cap closed)
  BY <1>1, FS_Difference
<1>3. ASSUME NEW s \in opened \cap closed PROVE logBuys[s] > 0 /\ logSells[s] > 0
  BY DEF Noted
<1>4. ASSUME NEW s \in Symbols PROVE logBuys[s] <= MaxBuys
  BY GateAssumption DEF IInv, CountsOK, WithinBound, RowsFollowFills, Counts
<1>5. logBuys \in Counts /\ logSells \in Counts /\ opened \cap closed \in SUBSET Symbols
  BY DEF IInv, CountsOK
<1>6. /\ Cardinality(opened \cap closed) <= RoundTrips(logBuys, logSells)
      /\ RoundTrips(logBuys, logSells) \in Nat
  BY <1>3, <1>4, <1>5, TradedAtLeast
<1>7. MaxDayTrades - usedBefore - RoundTrips(logBuys, logSells)
        - Cardinality(opened \ closed) > 0
  BY DEF Slots
<1>8. Cardinality(opened \cap closed) \in Nat
  BY <1>1, FS_Intersection, FS_CardinalityType
<1>9. usedBefore \in Nat /\ MaxDayTrades \in Nat
  BY GateAssumption DEF IInv, CountsOK
<1> HIDE DEF closed
<1> QED BY <1>1, <1>2, <1>6, <1>7, <1>8, <1>9

LEMMA RowsInit == Init => RowsFollowFills
  BY DEF Init, Zero, RowsFollowFills

(* Rows are written from the book and the position of the moment.          *)
LEMMA RowsStep == IInv /\ RowsFollowFills /\ [Next]_vars => RowsFollowFills'
<1> SUFFICES ASSUME IInv, RowsFollowFills, [Next]_vars PROVE RowsFollowFills'
  OBVIOUS
<1>1. ASSUME NEW s \in Symbols, Buy(s) PROVE RowsFollowFills'
  BY <1>1 DEF Buy, log, RowsFollowFills
<1>2. ASSUME NEW s \in Symbols, Exit(s) PROVE RowsFollowFills'
  <2> SUFFICES ASSUME NEW t \in Symbols
               PROVE  /\ logBuys[t] <= bought[t]
                      /\ ~adopting /\ held'[t] > book[t] => logBuys[t] < bought[t]
                      /\ logSells[t] > 0 => sold'[t] > 0
                      /\ book[t] > 0 /\ held'[t] = 0 => sold'[t] > 0
    BY <1>2 DEF Exit, log, RowsFollowFills
  <2>1. CASE t = s
    BY <1>2, <2>1 DEF Exit, InBook, IInv, CountsOK, Counts, RowsFollowFills
  <2>2. CASE t # s
    BY <1>2, <2>2 DEF Exit, IInv, CountsOK, Counts, RowsFollowFills
  <2> QED BY <2>1, <2>2
<1>3. ASSUME NEW s \in Symbols, SellRefused(s) \/ CooldownEnds(s) \/ BuyLapses(s)
      PROVE  RowsFollowFills'
  BY <1>3 DEF SellRefused, CooldownEnds, BuyLapses, process, log, account, RowsFollowFills
<1>4. ASSUME NEW s \in Symbols, BuyFills(s) PROVE RowsFollowFills'
  <2> SUFFICES ASSUME NEW t \in Symbols
               PROVE  /\ logBuys[t] <= bought'[t]
                      /\ ~adopting /\ held'[t] > book[t] => logBuys[t] < bought'[t]
                      /\ logSells[t] > 0 => sold[t] > 0
                      /\ book[t] > 0 /\ held'[t] = 0 => sold[t] > 0
    BY <1>4 DEF BuyFills, process, log, RowsFollowFills
  <2>1. CASE t = s
    BY <1>4, <2>1 DEF BuyFills, IInv, CountsOK, Counts, RowsFollowFills
  <2>2. CASE t # s
    BY <1>4, <2>2 DEF BuyFills, IInv, CountsOK, Counts, RowsFollowFills
  <2> QED BY <2>1, <2>2
<1>5. CASE Sync
  <2> SUFFICES ASSUME NEW t \in Symbols
               PROVE  /\ logBuys'[t] <= bought[t]
                      /\ logSells'[t] > 0 => sold[t] > 0
    BY <1>5 DEF Sync, account, IInv, CountsOK, Counts, RowsFollowFills
  <2>1. CASE adopting
    BY <1>5, <2>1 DEF Sync, RowsFollowFills
  <2>2. CASE ~adopting
    BY <1>5, <2>2 DEF Sync, BuyRows, SellRows, IInv, CountsOK, Counts, RowsFollowFills
  <2> QED BY <2>1, <2>2 DEF IInv, CountsOK
<1>6. CASE Restart
  BY <1>6 DEF Restart, Zero, log, account, RowsFollowFills
<1>7. CASE UNCHANGED vars
  BY <1>7 DEF vars, process, log, account, RowsFollowFills
<1> QED BY <1>1, <1>2, <1>3, <1>4, <1>5, <1>6, <1>7 DEF Next

LEMMA BudgetInit == Init => BudgetInv
<1> SUFFICES ASSUME Init PROVE Budgeted
  BY RowsInit DEF BudgetInv
<1>1. Cardinality(opened) = 0
  BY FS_EmptySet DEF Init
<1> QED BY <1>1, GateAssumption DEF Init, Zero, Budgeted, Noted, SoldOnce, Reserved

(* Neither a restart nor a return after a sale is ever forgotten.          *)
LEMMA UntouchedBefore == [Next]_vars /\ Untouched' => Untouched
<1> SUFFICES ASSUME [Next]_vars, Untouched' PROVE Untouched
  OBVIOUS
<1>1. ASSUME NEW s \in Symbols, Buy(s) \/ BuyFills(s) PROVE Untouched
  BY <1>1 DEF Buy, BuyFills, AfterSale, Untouched
<1>2. ASSUME NEW s \in Symbols, Exit(s) \/ SellRefused(s) \/ CooldownEnds(s) \/ BuyLapses(s)
      PROVE  Untouched
  BY <1>2 DEF Exit, SellRefused, CooldownEnds, BuyLapses, history, Untouched
<1>3. CASE Sync \/ Restart \/ UNCHANGED vars
  BY <1>3 DEF Sync, Restart, vars, history, Untouched
<1> QED BY <1>1, <1>2, <1>3 DEF Next

(* A purchase takes a slot that was free, for a symbol not sold today.     *)
LEMMA BuyBudget ==
  ASSUME IInv, RowsFollowFills, Budgeted, Untouched', NEW s \in Symbols, Buy(s)
  PROVE  Budgeted'
<1>1. sold[s] = 0
  <2>1. ~(sold[s] > 0)
    BY DEF Buy, AfterSale, Untouched
  <2> QED BY <2>1 DEF IInv, CountsOK, Counts
<1>2. book[s] = 0 /\ logSells[s] = 0
  BY <1>1 DEF Buy, MayBuy, InBook, RowsFollowFills, IInv, CountsOK, Counts
<1>3. Noted'
  <2>1. ~adopting' /\ opened' = opened \cup {s}
    BY DEF Buy
  <2>2. ASSUME NEW t \in Symbols, bought'[t] + buying'[t] > 0 PROVE t \in opened'
    BY <2>2, <2>1 DEF Buy, IInv, CountsOK, Counts, Budgeted, Noted
  <2>3. ASSUME NEW t \in opened', book'[t] > 0 \/ logSells'[t] > 0 PROVE logBuys'[t] > 0
    BY <2>3, <2>1, <1>2 DEF Buy, log, Budgeted, Noted
  <2> QED BY <2>1, <2>2, <2>3 DEF Noted
<1>4. SoldOnce'
  BY DEF Buy, Budgeted, SoldOnce
<1>5. Reserved'
  <2>1. IsFiniteSet(opened)
    BY GateAssumption, FS_Subset DEF IInv, CountsOK
  <2>2. Cardinality(opened) \in Nat
    BY <2>1, FS_CardinalityType
  <2>3. Cardinality(opened \cup {s}) \in {Cardinality(opened), Cardinality(opened) + 1}
    BY <2>1, FS_AddElement
  <2>4. usedBefore + Cardinality(opened) < MaxDayTrades
    BY SlotIsFree DEF Buy, MayBuy, Budgeted
  <2>5. usedBefore \in Nat /\ MaxDayTrades \in Nat
    BY GateAssumption DEF IInv, CountsOK
  <2> QED BY <2>2, <2>3, <2>4, <2>5 DEF Buy, log, Reserved
<1> QED BY <1>3, <1>4, <1>5 DEF Budgeted

(* A sale closes the whole position of a symbol not sold before.           *)
LEMMA ExitBudget ==
  ASSUME IInv, Budgeted, NEW s \in Symbols, Exit(s)
  PROVE  Budgeted'
<1>1. Noted'
  BY DEF Exit, log, Budgeted, Noted
<1>2. SoldOnce'
  <2> SUFFICES ASSUME NEW t \in Symbols PROVE sold'[t] <= 1 /\ (held'[t] > 0 => sold'[t] = 0)
    BY DEF SoldOnce
  <2> QED BY DEF Exit, IInv, CountsOK, Counts, Budgeted, SoldOnce
<1>3. Reserved'
  BY DEF Exit, log, Budgeted, Reserved
<1> QED BY <1>1, <1>2, <1>3 DEF Budgeted

LEMMA FillBudget ==
  ASSUME IInv, Budgeted, Untouched', NEW s \in Symbols, BuyFills(s)
  PROVE  Budgeted'
<1>1. sold[s] = 0
  <2>1. ~(sold[s] > 0)
    BY DEF BuyFills, AfterSale, Untouched
  <2> QED BY <2>1 DEF IInv, CountsOK, Counts
<1>2. Noted'
  <2>1. ASSUME NEW t \in Symbols PROVE bought'[t] + buying'[t] = bought[t] + buying[t]
    BY DEF BuyFills, IInv, CountsOK, Counts
  <2> QED BY <2>1 DEF BuyFills, process, log, Budgeted, Noted
<1>3. SoldOnce'
  <2> SUFFICES ASSUME NEW t \in Symbols PROVE sold'[t] <= 1 /\ (held'[t] > 0 => sold'[t] = 0)
    BY DEF SoldOnce
  <2> QED BY <1>1 DEF BuyFills, IInv, CountsOK, Counts, Budgeted, SoldOnce
<1>4. Reserved'
  BY DEF BuyFills, process, log, Budgeted, Reserved
<1> QED BY <1>2, <1>3, <1>4 DEF Budgeted

LEMMA LapseBudget ==
  ASSUME IInv, Budgeted, NEW s \in Symbols, BuyLapses(s)
  PROVE  Budgeted'
<1>1. ASSUME NEW t \in Symbols, bought'[t] + buying'[t] > 0 PROVE bought[t] + buying[t] > 0
  BY <1>1 DEF BuyLapses, IInv, CountsOK, Counts
<1> QED BY <1>1 DEF BuyLapses, process, log, Budgeted, Noted, SoldOnce, Reserved

LEMMA CooldownBudget ==
  ASSUME Budgeted, NEW s \in Symbols, SellRefused(s) \/ CooldownEnds(s)
  PROVE  Budgeted'
  BY DEF SellRefused, CooldownEnds, log, account, Budgeted, Noted, SoldOnce, Reserved

(* The sync that shows a position or its sale has logged the purchase.     *)
LEMMA SyncBudget ==
  ASSUME IInv, Budgeted, Sync
  PROVE  Budgeted'
<1>1. opened' = opened /\ ~adopting'
  BY DEF Sync
<1>2. ASSUME NEW t \in opened, book'[t] > 0 \/ logSells'[t] > 0 PROVE logBuys'[t] > 0
  <2>1. ~adopting /\ t \in Symbols
    BY DEF IInv, CountsOK, Budgeted, Noted
  <2>2. book'[t] = held[t] /\ logBuys'[t] = BuyRows(t) /\ logSells'[t] = SellRows(t)
    BY <2>1 DEF Sync
  <2>3. /\ book[t] \in Nat /\ held[t] \in Nat /\ logBuys[t] \in Nat /\ logSells[t] \in Nat
        /\ book[t] > 0 \/ logSells[t] > 0 => logBuys[t] > 0
    BY <2>1 DEF IInv, CountsOK, Counts, Budgeted, Noted
  <2> QED BY <1>2, <2>2, <2>3 DEF BuyRows, SellRows
<1>3. Noted'
  BY <1>1, <1>2 DEF Sync, account, Budgeted, Noted
<1> QED BY <1>1, <1>3 DEF Sync, account, Budgeted, SoldOnce, Reserved

LEMMA BudgetStep == IInv /\ BudgetInv /\ [Next]_vars => BudgetInv'
<1> SUFFICES ASSUME IInv, BudgetInv, [Next]_vars PROVE BudgetInv'
  OBVIOUS
<1>1. RowsFollowFills /\ RowsFollowFills'
  BY RowsStep DEF BudgetInv
<1> SUFFICES ASSUME Untouched' PROVE Budgeted'
  BY <1>1 DEF BudgetInv
<1>2. Budgeted
  BY UntouchedBefore DEF BudgetInv
<1>3. ASSUME NEW s \in Symbols,
             Buy(s) \/ Exit(s) \/ SellRefused(s) \/ CooldownEnds(s)
               \/ BuyFills(s) \/ BuyLapses(s)
      PROVE  Budgeted'
  BY <1>1, <1>2, <1>3, BuyBudget, ExitBudget, CooldownBudget, FillBudget, LapseBudget
<1>4. ~Restart
  BY DEF Restart, Untouched
<1>5. CASE UNCHANGED vars
  BY <1>2, <1>5 DEF vars, process, log, account, Budgeted, Noted, SoldOnce, Reserved
<1> QED BY <1>2, <1>3, <1>4, <1>5, SyncBudget DEF Next

LEMMA BudgetInvariant == Spec => [](IInv /\ BudgetInv)
<1>1. Init => IInv /\ BudgetInv
  BY InitInv, BudgetInit
<1>2. IInv /\ BudgetInv /\ [Next]_vars => (IInv /\ BudgetInv)'
  BY StepInv, BudgetStep
<1> QED BY <1>1, <1>2, PTL DEF Spec

(* Closing every position today stays within the day-trade budget, while   *)
(* orders are unfilled and rows of the trade log late: the symbols the     *)
(* guard has noted bound the day trades, and each keeps its reservation.   *)
(* It needs a process that runs on and no return of a symbol after a sale. *)
THEOREM RoomIsKept == Spec => []RoomWithoutReentry
<1>1. IInv /\ BudgetInv => RoomWithoutReentry
  <2> SUFFICES ASSUME IInv, BudgetInv, Untouched PROVE RoomToClose
    BY DEF RoomWithoutReentry, Untouched
  <2>1. Noted /\ SoldOnce /\ Reserved
    BY DEF BudgetInv, Budgeted
  <2>2. ASSUME NEW s \in Symbols
        PROVE  /\ AllSold[s] \in Nat /\ AllSold[s] <= 1
               /\ bought[s] > 0 => s \in opened
    BY <2>1 DEF AllSold, Noted, SoldOnce, IInv, CountsOK, Counts
  <2>3. AllSold \in Counts /\ bought \in Counts /\ opened \in SUBSET Symbols
    <3>1. AllSold = [s \in Symbols |-> AllSold[s]]
      BY DEF AllSold
    <3> QED BY <2>2, <3>1 DEF IInv, CountsOK, Counts
  <2>4. /\ RoundTrips(bought, AllSold) <= Cardinality(opened)
        /\ RoundTrips(bought, AllSold) \in Nat
    BY <2>2, <2>3, TradedAtMost
  <2>5. Cardinality(opened) \in Nat
    BY <2>3, GateAssumption, FS_Subset, FS_CardinalityType
  <2>6. usedBefore \in Nat /\ MaxDayTrades \in Nat
    BY GateAssumption DEF IInv, CountsOK
  <2> QED BY <2>1, <2>4, <2>5, <2>6 DEF Reserved, RoomToClose, Worst
<1> QED BY <1>1, BudgetInvariant, PTL
=============================================================================
