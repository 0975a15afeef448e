----------------------------- MODULE EntryGates -----------------------------
(***************************************************************************)
(* What a BUY has to pass in one session of a US margin account: the       *)
(* gates of decision_engine.make_decision (held, churn cap, cooldown,      *)
(* capacity, heat) and the trader's pattern-day-trader guard               *)
(* (agents/pdt_guard.py).  They read the book of the latest sync, the      *)
(* trade log and per-process counters, while orders fill behind them.      *)
(* Signals, funds and vetting are left open: they only refuse more.        *)
(***************************************************************************)
EXTENDS Integers, FiniteSets

CONSTANTS Symbols,
          EntryCap,       \* max_entries_per_symbol_per_day, 0 = unlimited
          MaxOpen,        \* max_open_positions after the directive
          TradeRisk,      \* max_risk_per_trade_pct, in hundredths of a percent
          HeatCap,        \* max_portfolio_heat_pct, likewise
          MaxDayTrades,   \* max_day_trades_per_5d
          MaxBuys         \* bound: BUY orders of one symbol in the session

ASSUME GateAssumption ==
  /\ IsFiniteSet(Symbols)
  /\ EntryCap \in Nat /\ MaxOpen \in Nat /\ MaxBuys \in Nat
  /\ TradeRisk \in Nat /\ HeatCap \in Nat /\ MaxDayTrades \in Nat

VARIABLES book,        \* open_positions of the latest sync, in lots
          adopting,    \* _is_first_update
          entries,     \* _entries_today
          cooling,     \* symbols under a sell cooldown
          opened,      \* PDTGuard._opened_today
          logBuys,     \* BUY rows of today in the trade log
          logSells,    \* SELL rows of today
          usedBefore,  \* day trades of the four earlier business days
          held,        \* the broker's position, in lots
          buying,      \* accepted BUY orders that have not filled
          bought,      \* BUY orders filled today
          sold,        \* SELL orders filled today
          restarted,   \* history: the process has restarted today
          reentered    \* history: symbols ordered or filled after a sale of the day

process == <<book, adopting, entries, cooling, opened>>
log == <<logBuys, logSells, usedBefore>>
account == <<held, buying, bought, sold>>
history == <<restarted, reentered>>
vars == <<process, log, account, history>>

Zero == [s \in Symbols |-> 0]

Init ==
  /\ book = Zero /\ adopting = TRUE /\ entries = Zero /\ cooling = {} /\ opened = {}
  /\ logBuys = Zero /\ logSells = Zero /\ usedBefore \in 0..MaxDayTrades
  /\ held \in [Symbols -> {0, 1}]
  /\ buying = Zero /\ bought = Zero /\ sold = Zero
  /\ restarted = FALSE /\ reentered = {}

InBook == {s \in Symbols : book[s] > 0}

-----------------------------------------------------------------------------
(* The PDT guard. *)

Least(a, b) == IF a <= b THEN a ELSE b

\* count_day_trades: each pair of a buy and a sell of one symbol is one.
DayTrades(buys, sells) == UNION {{s} \X (1..Least(buys[s], sells[s])) : s \in Symbols}
RoundTrips(buys, sells) == Cardinality(DayTrades(buys, sells))

\* Mutant: positions opened today reserve nothing until they are closed.
UnreservedSlots == MaxDayTrades - usedBefore - RoundTrips(logBuys, logSells)

Slots ==
  LET closedToday == {s \in Symbols : logSells[s] > 0}
  IN MaxDayTrades - usedBefore - RoundTrips(logBuys, logSells)
       - Cardinality(opened \ closedToday)

-----------------------------------------------------------------------------
(* The gates of one BUY decision. *)

\* available_risk_pct leaves something for one more position.
HeatLeft ==
  TradeRisk = 0 \/ HeatCap = 0 \/ Cardinality(InBook) * TradeRisk < HeatCap

HasCapacity == Cardinality(InBook) < MaxOpen

MayBuy(s) ==
  /\ s \notin InBook
  /\ EntryCap = 0 \/ entries[s] < EntryCap
  /\ s \notin cooling
  /\ HasCapacity
  /\ HeatLeft
  /\ Slots > 0

\* register_entry and register_cooldown; a day that rolls over is left out.
Registered(s) == [entries EXCEPT ![s] = @ + 1]
Cooled(s) == cooling \cup {s}

\* The history of a purchase, ordered or filled.
AfterSale(s) == IF sold[s] > 0 THEN reentered \cup {s} ELSE reentered

\* Mutant: register_entry waits for the sync that shows the position.
BuyUnregistered(s) ==
  /\ ~adopting /\ MayBuy(s)
  /\ bought[s] + buying[s] < MaxBuys
  /\ buying' = [buying EXCEPT ![s] = @ + 1]
  /\ opened' = opened \cup {s}
  /\ reentered' = AfterSale(s)
  /\ UNCHANGED <<book, adopting, entries, cooling, log, held, bought, sold, restarted>>

\* _process_symbol, an accepted BUY: register_entry and note_buy.
Buy(s) ==
  /\ ~adopting /\ MayBuy(s)
  /\ bought[s] + buying[s] < MaxBuys
  /\ buying' = [buying EXCEPT ![s] = @ + 1]
  /\ entries' = Registered(s)
  /\ opened' = opened \cup {s}
  /\ reentered' = AfterSale(s)
  /\ UNCHANGED <<book, adopting, cooling, log, held, bought, sold, restarted>>

\* Mutant: an exit gives its entry back to the churn cap.
ExitRefunds(s) ==
  /\ s \in InBook /\ held[s] > 0
  /\ held' = [held EXCEPT ![s] = 0]
  /\ sold' = [sold EXCEPT ![s] = @ + 1]
  /\ cooling' = Cooled(s)
  /\ entries' = [entries EXCEPT ![s] = @ - 1]
  /\ UNCHANGED <<book, adopting, opened, log, buying, bought, history>>

\* A whole position is sold at once and the symbol put on cooldown.
Exit(s) ==
  /\ s \in InBook /\ held[s] > 0
  /\ held' = [held EXCEPT ![s] = 0]
  /\ sold' = [sold EXCEPT ![s] = @ + 1]
  /\ cooling' = Cooled(s)
  /\ UNCHANGED <<book, adopting, entries, opened, log, buying, bought, history>>

\* A SELL decision at a loss starts the cooldown before its sale is attempted;
\* here the sale is refused.
SellRefused(s) ==
  /\ s \in InBook
  /\ cooling' = Cooled(s)
  /\ UNCHANGED <<book, adopting, entries, opened, log, account, history>>

CooldownEnds(s) ==
  /\ s \in cooling
  /\ cooling' = cooling \ {s}
  /\ UNCHANGED <<book, adopting, entries, opened, log, account, history>>

BuyRows(s) == IF held[s] > book[s] THEN logBuys[s] + 1 ELSE logBuys[s]
SellRows(s) == IF book[s] > 0 /\ held[s] = 0 THEN logSells[s] + 1 ELSE logSells[s]

\* update(): adopts after a start, else logs what appeared, grew or vanished.
Sync ==
  /\ book' = held /\ adopting' = FALSE
  /\ logBuys' = IF adopting THEN logBuys ELSE [s \in Symbols |-> BuyRows(s)]
  /\ logSells' = IF adopting THEN logSells ELSE [s \in Symbols |-> SellRows(s)]
  /\ UNCHANGED <<entries, cooling, opened, usedBefore, account, history>>

\* The counters of the process are lost, the log and the orders are not.
Restart ==
  /\ book' = Zero /\ adopting' = TRUE /\ entries' = Zero /\ cooling' = {} /\ opened' = {}
  /\ restarted' = TRUE
  /\ UNCHANGED <<log, account, reentered>>

BuyFills(s) ==
  /\ buying[s] > 0
  /\ buying' = [buying EXCEPT ![s] = @ - 1]
  /\ held' = [held EXCEPT ![s] = @ + 1]
  /\ bought' = [bought EXCEPT ![s] = @ + 1]
  /\ reentered' = AfterSale(s)
  /\ UNCHANGED <<process, log, sold, restarted>>

BuyLapses(s) ==
  /\ buying[s] > 0
  /\ buying' = [buying EXCEPT ![s] = @ - 1]
  /\ UNCHANGED <<process, log, held, bought, sold, history>>

Next ==
  \/ \E s \in Symbols : Buy(s) \/ Exit(s) \/ SellRefused(s) \/ CooldownEnds(s)
                    \/ BuyFills(s) \/ BuyLapses(s)
  \/ Sync \/ Restart

Spec == Init /\ [][Next]_vars

-----------------------------------------------------------------------------
Counts == [Symbols -> Nat]

TypeOK ==
  /\ book \in Counts /\ adopting \in BOOLEAN /\ entries \in Counts
  /\ cooling \in SUBSET Symbols /\ opened \in SUBSET Symbols
  /\ logBuys \in Counts /\ logSells \in Counts /\ usedBefore \in 0..MaxDayTrades
  /\ held \in Counts /\ buying \in Counts
  /\ bought \in [Symbols -> 0..MaxBuys] /\ sold \in Counts
  /\ restarted \in BOOLEAN /\ reentered \in SUBSET Symbols

\* Sales of the day if every position were closed before it ends, and the day
\* trades they make.
AllSold == [s \in Symbols |-> IF held[s] > 0 THEN sold[s] + 1 ELSE sold[s]]
Worst == usedBefore + RoundTrips(bought, AllSold)

\* "every open position holds a reservation, so a same-day close always has
\* a slot to consume": closing everything stays within the rule.
RoomToClose == Worst <= MaxDayTrades

\* It does as long as the process runs on and no symbol is bought again after
\* a sale of the same day, by a new order or by an earlier one that fills only
\* then, however many orders are out and however late the log rows arrive.
RoomWithoutReentry == ~restarted /\ reentered = {} => RoomToClose

\* The churn cap counts orders at the moment they are accepted: unfilled
\* duplicates of a symbol the book does not show yet are inside the cap.
ChurnCapped ==
  EntryCap > 0 /\ ~restarted => \A s \in Symbols : bought[s] + buying[s] <= EntryCap
=============================================================================
