------------------------------- MODULE Sizing -------------------------------
(***************************************************************************)
(* How large a purchase the decision engine makes (src/decision_engine.py) *)
(* and what it costs (src/trading_costs.py), over the scans of one         *)
(* session.  The engine keeps no portfolio: every decision of a scan sees  *)
(* the book, the funds and the net asset value of the sync before it.  A   *)
(* live order reaches the book only when a later sync finds it filled; a   *)
(* simulated one is entered at once by record_trade.  Shares are counted   *)
(* in units, Fraction of them to a share where the broker sells fractions; *)
(* rates are in basis points.                                              *)
(***************************************************************************)
EXTENDS Integers, FiniteSetsExt

CONSTANTS Symbol,
          Setups,        \* <<market, simulated>> pairs
          Fraction,      \* bound: units of a US share, the code keeps 4 decimals
          Price, Atr,    \* bound: what the feed may show
          Cash,          \* the account at the start
          Leverage, SizePct, StopLoss, TradeRisk, HeatCap, MaxOpen,
          MaxAdds,       \* pyramid_max_adds, 0 when pyramiding is off
          SmallNav, SmallDeploy, MaxDeploy,
          EdgeMultiple, FlatCost, Brokerage, BrokerageCap,
          MaxDecisions,  \* bound: orders accepted in the session
          MaxScans       \* bound

VARIABLES setup,      \* the market and the mode of the process
          price,      \* the last price of each symbol
          snap,       \* what the last sync left: units, cost, value, funds, nav
          todo,       \* the symbols this scan has yet to process
          adds,       \* add_count of the position's OpenOrder
          cooling,    \* symbols under a sell cooldown
          half,       \* the directive halves the size of positions
          held, paid, cash, \* the broker's truth: units, average price, money
          buying,     \* units of accepted live orders that have not filled
          decisions, scans,
          entries,    \* history: purchases a position, or its orders, came from
          heat,       \* history: their risk when decided, in points of nav
          addHeat,    \* history: risk its adds brought, likewise
          unseen      \* history: most purchases a BUY was decided without seeing

vars == <<setup, price, snap, todo, adds, cooling, half, held, paid, cash,
          buying, decisions, scans, entries, heat, addHeat, unseen>>

market == setup[1]
isSimulated == setup[2]

Least(a, b) == IF a <= b THEN a ELSE b
Greatest(a, b) == IF a <= b THEN b ELSE a
Total(f) == MapThenSumSet(LAMBDA s : f[s], Symbol)

Zero == [s \in Symbol |-> 0]
Unit == IF market = "IN" THEN 1 ELSE Fraction

\* math.floor where shares are whole, round(..., 4) where they are not.
Rounded(num, den) == IF market = "IN" THEN num \div den ELSE (2 * num + den) \div (2 * den)

Book == {s \in Symbol : snap.units[s] > 0}

-----------------------------------------------------------------------------
(* Sizes. *)

StopPct(p, atr) ==
  Greatest(StopLoss, Least(500, IF atr > 0 THEN (20000 * atr) \div p ELSE StopLoss))

\* Mutant: the positions already open use up no heat.
AvailableRiskPerTradeOnly ==
  IF TradeRisk = 0 THEN 0 ELSE IF HeatCap = 0 THEN TradeRisk ELSE Least(TradeRisk, HeatCap)

AvailableRisk ==
  IF TradeRisk = 0 THEN 0
  ELSE IF HeatCap = 0 THEN TradeRisk
  ELSE Greatest(0, Least(TradeRisk, HeatCap - Cardinality(Book) * TradeRisk))

MaxNotional == (snap.nav * SizePct * Leverage) \div 100

Quantity(p, atr) ==
  LET size == Rounded(MaxNotional * Unit * (IF half THEN 1 ELSE 2),
                      2 * Greatest(p, 2 * atr))
  IN IF MaxNotional < 1 THEN 0 ELSE IF market = "IN" THEN size ELSE Greatest(1, size)

\* Units whose loss at the stop is risk points of the net asset value.
RiskUnits(risk, p, atr) == Rounded(snap.nav * risk * Unit, p * StopPct(p, atr))

\* The cap only ever lowers the quantity; nothing is left of a spent budget.
Capped(q, p, atr) ==
  IF TradeRisk = 0 THEN q
  ELSE IF AvailableRisk = 0 THEN 0
  ELSE Least(q, RiskUnits(AvailableRisk, p, atr))

AddQuantity(s, p, atr) ==
  LET shrunk == AvailableRisk \div 2 ^ (adds[s] + 1)
      headroom == Greatest(0, MaxNotional * Unit - held[s] * p)
  IN IF MaxAdds = 0 \/ AvailableRisk = 0 THEN 0
     ELSE Least(RiskUnits(shrunk, p, atr), Rounded(headroom, p))

-----------------------------------------------------------------------------
(* Gates. *)

\* round_trip_cost_pct of an intraday trade, in points of its notional.
RoundTripCost(notional) ==
  IF notional <= 0 THEN 10000
  ELSE IF market = "US" THEN FlatCost
  ELSE FlatCost + (20000 * Least(BrokerageCap, (Brokerage * notional) \div 10000)) \div notional

WorthTheCost(q, p, atr) ==
  (20000 * atr) \div p >= EdgeMultiple * RoundTripCost((q * p) \div Unit)

CanAfford(q, p) == 1001 * q * p <= 1000 * snap.funds * Leverage * Unit

UnderDeployed ==
  Total(snap.value) * 100
    < snap.nav * (IF snap.nav < SmallNav THEN SmallDeploy ELSE MaxDeploy)

BuyQuantity(p, atr) == Capped(Quantity(p, atr), p, atr)

MayBuy(s, atr) ==
  /\ s \notin Book
  /\ s \notin cooling
  /\ Cardinality(Book) < MaxOpen
  /\ UnderDeployed
  /\ BuyQuantity(price[s], atr) > 0
  /\ WorthTheCost(BuyQuantity(price[s], atr), price[s], atr)
  /\ CanAfford(BuyQuantity(price[s], atr), price[s])

-----------------------------------------------------------------------------
(* A simulated order is entered in the book and paid for at once. *)

Entered(s, q) ==
  IF ~isSimulated THEN snap
  ELSE LET units == snap.units[s] + q
       IN [snap EXCEPT !.units[s] = units,
                       !.cost[s] = (snap.units[s] * @ + q * price[s]) \div units,
                       !.value[s] = units * price[s],
                       !.funds = @ - q * price[s]]

Removed(s) ==
  IF ~isSimulated THEN snap
  ELSE [snap EXCEPT !.units[s] = 0, !.cost[s] = 0, !.value[s] = 0,
                    !.funds = @ + snap.units[s] * price[s]]

\* The loss at the stop in points of nav, rounded up; a size rounded to the
\* nearest fraction counts without the half of one it may be too large by.
RiskOf(q, p, atr) ==
  LET loss == (IF market = "IN" THEN 2 * q ELSE 2 * q - 1) * (p * StopPct(p, atr))
      whole == 2 * snap.nav * Unit
  IN (loss + whole - 1) \div whole

\* A position counts once in the book, however many orders it came from.
Unseen ==
  MapThenSumSet(LAMBDA t : IF t \in Book THEN entries[t] - 1 ELSE entries[t],
                {t \in Symbol : entries[t] > 0})

Visits(s) == s \in todo /\ todo' = todo \ {s}

\* Both modes: an accepted purchase of q units.
Ordered(s, q) ==
  /\ decisions < MaxDecisions
  /\ decisions' = decisions + 1
  /\ snap' = Entered(s, q)
  /\ IF isSimulated
     THEN /\ held' = [held EXCEPT ![s] = @ + q]
          /\ cash' = cash - (q * price[s]) \div Unit
          /\ paid' = snap'.cost
          /\ UNCHANGED buying
     ELSE buying' = [buying EXCEPT ![s] = @ + q] /\ UNCHANGED <<held, paid, cash>>

\* _process_symbol, a BUY that every gate let through.
Buy(s) ==
  \E atr \in Atr :
    LET q == BuyQuantity(price[s], atr)
    IN /\ Visits(s)
       /\ MayBuy(s, atr)
       /\ Ordered(s, q)
       /\ adds' = [adds EXCEPT ![s] = 0]
       /\ heat' = [heat EXCEPT ![s] = @ + RiskOf(q, price[s], atr)]
       /\ entries' = [entries EXCEPT ![s] = @ + 1]
       /\ unseen' = Greatest(unseen, Unseen)
       /\ UNCHANGED <<setup, scans, price, cooling, half, addHeat>>

\* The add of a position in profit; its own heat counts, its adds do not.
PyramidAdd(s) ==
  \E atr \in Atr :
    LET q == AddQuantity(s, price[s], atr)
    IN /\ Visits(s)
       /\ s \in Book /\ held[s] > 0
       /\ price[s] > snap.cost[s]
       /\ adds[s] < MaxAdds
       /\ q > 0
       /\ Ordered(s, q)
       /\ adds' = [adds EXCEPT ![s] = @ + 1]
       /\ addHeat' = [addHeat EXCEPT ![s] = @ + RiskOf(q, price[s], atr)]
       /\ UNCHANGED <<setup, scans, price, cooling, half, entries, heat, unseen>>

Gone(s) ==
  /\ held' = [held EXCEPT ![s] = 0]
  /\ paid' = [paid EXCEPT ![s] = 0]
  /\ cash' = cash + (held[s] * price[s]) \div Unit
  /\ snap' = Removed(s)
  /\ entries' = [entries EXCEPT ![s] = 0]
  /\ heat' = [heat EXCEPT ![s] = 0]
  /\ addHeat' = [addHeat EXCEPT ![s] = 0]

\* detect_reversal sells only what is held and not at a loss; the indicators
\* it reads are left open.
MayReverse(s) == s \in Book /\ price[s] >= snap.cost[s]

\* A loss starts a cooldown when the SELL is decided, whatever becomes of it.
Cooled(s) == IF MayReverse(s) THEN cooling ELSE cooling \cup {s}

\* A SELL by score, or a reversal of a position in profit.  Once accepted it
\* starts a cooldown either way, a shorter one after a gain.
Sell(s) ==
  /\ Visits(s)
  /\ s \in Book
  /\ cooling' = cooling \cup {s}
  /\ IF held[s] > 0 /\ buying[s] = 0 THEN Gone(s)
     ELSE UNCHANGED <<held, paid, cash, snap, entries, heat, addHeat>>
  /\ UNCHANGED <<setup, scans, price, adds, half, buying, decisions, unseen>>

SellRefused(s) ==
  /\ Visits(s)
  /\ s \in Book
  /\ cooling' = Cooled(s)
  /\ UNCHANGED <<setup, scans, price, snap, adds, half, held, paid, cash, buying, decisions,
                 entries, heat, addHeat, unseen>>

Hold(s) ==
  /\ Visits(s)
  /\ UNCHANGED <<setup, scans, price, snap, adds, cooling, half, held, paid, cash, buying,
                 decisions, entries, heat, addHeat, unseen>>

\* A software stop, between two decisions.
StopExit(s) ==
  /\ s \in Book /\ held[s] > 0 /\ buying[s] = 0
  /\ Gone(s)
  /\ cooling' = cooling \cup {s}
  /\ UNCHANGED <<setup, scans, price, todo, adds, half, buying, decisions, unseen>>

CooldownEnds(s) ==
  /\ s \in cooling
  /\ cooling' = cooling \ {s}
  /\ UNCHANGED <<setup, scans, price, snap, todo, adds, half, held, paid, cash, buying, decisions,
                 entries, heat, addHeat, unseen>>

\* update() and a fresh directive, then the next scan starts.
Sync ==
  LET synced == [s \in Symbol |-> (held[s] * price[s]) \div Unit]
      value == IF isSimulated THEN snap.value ELSE synced
      funds == IF isSimulated THEN snap.funds ELSE cash
  IN /\ todo = {}
     /\ scans < MaxScans
     /\ scans' = scans + 1
     /\ todo' = Symbol
     /\ half' \in BOOLEAN
     /\ snap' = [snap EXCEPT
                   !.units = IF isSimulated THEN @ ELSE held,
                   !.cost = IF isSimulated THEN @ ELSE paid,
                   !.value = value,
                   !.funds = funds,
                   !.nav = funds + Total(value)]
     /\ UNCHANGED <<setup, price, adds, cooling, held, paid, cash, buying, decisions,
                    entries, heat, addHeat, unseen>>

\* The broker.  It refuses, or lets lapse, what the account cannot pay.
BuyFills(s) ==
  /\ buying[s] > 0
  /\ cash * Unit >= buying[s] * price[s]
  /\ held' = [held EXCEPT ![s] = @ + buying[s]]
  /\ paid' = [paid EXCEPT ![s] = (held[s] * @ + buying[s] * price[s]) \div held'[s]]
  /\ cash' = cash - (buying[s] * price[s]) \div Unit
  /\ buying' = [buying EXCEPT ![s] = 0]
  /\ UNCHANGED <<setup, scans, price, snap, todo, adds, cooling, half, decisions,
                 entries, heat, addHeat, unseen>>

BuyLapses(s) ==
  /\ buying[s] > 0
  /\ buying' = [buying EXCEPT ![s] = 0]
  /\ IF held[s] > 0 THEN UNCHANGED <<entries, heat>>
     ELSE entries' = [entries EXCEPT ![s] = 0] /\ heat' = [heat EXCEPT ![s] = 0]
  /\ UNCHANGED <<setup, scans, price, snap, todo, adds, cooling, half, held, paid, cash, decisions,
                 addHeat, unseen>>

PriceMoves ==
  /\ todo = {}
  /\ \E s \in Symbol, p \in Price : p # price[s] /\ price' = [price EXCEPT ![s] = p]
  /\ UNCHANGED <<setup, scans, snap, todo, adds, cooling, half, held, paid, cash, buying, decisions,
                 entries, heat, addHeat, unseen>>

Init ==
  /\ setup \in Setups
  /\ \E p \in Price : price = [s \in Symbol |-> p]
  /\ snap = [units |-> Zero, cost |-> Zero, value |-> Zero, funds |-> Cash, nav |-> Cash]
  /\ todo = {} /\ adds = Zero /\ cooling = {} /\ half = FALSE
  /\ held = Zero /\ paid = Zero /\ cash = Cash /\ buying = Zero
  /\ decisions = 0 /\ scans = 0 /\ entries = Zero /\ heat = Zero /\ addHeat = Zero /\ unseen = 0

Next ==
  \/ Sync \/ PriceMoves
  \/ \E s \in Symbol : Buy(s) \/ PyramidAdd(s) \/ Sell(s) \/ SellRefused(s) \/ Hold(s)
                    \/ StopExit(s) \/ CooldownEnds(s) \/ BuyFills(s) \/ BuyLapses(s)

Spec == Init /\ [][Next]_vars

\* With leverage a balance may fall below zero.
TypeOK ==
  /\ setup \in Setups
  /\ price \in [Symbol -> Price]
  /\ {snap.nav, snap.funds, cash} \subseteq Int
  /\ {held, paid, buying, adds, entries, heat, addHeat, snap.units, snap.cost, snap.value}
       \subseteq [Symbol -> Nat]
  /\ todo \subseteq Symbol /\ cooling \subseteq Symbol
  /\ half \in BOOLEAN /\ decisions \in 0..MaxDecisions /\ scans \in 0..MaxScans /\ unseen \in Nat

(* The losses at the initial stops add up to no more than the heat cap,    *)
(* plus one full trade for every earlier purchase that a purchase was      *)
(* decided without seeing: those of one scan share a budget, and so do     *)
(* orders slow to fill, even of one symbol.  Only a simulated book sees    *)
(* everything.  Adds bring less than one more trade to each position.      *)
(* (A limit of zero switches the mechanism off.)                           *)
OvershootBounded ==
  /\ TradeRisk > 0 /\ HeatCap > 0 => Total(heat) <= HeatCap + unseen * TradeRisk
  /\ isSimulated => unseen = 0
  /\ \A s \in Symbol : addHeat[s] <= TradeRisk

(* Why: a purchase takes one trade's risk at most, and of the book's       *)
(* positions no more than one purchase each has been seen;                 *)
Figures ==
  /\ setup \in Setups /\ price \in [Symbol -> Price] /\ cash \in Int
  /\ DOMAIN snap = {"units", "cost", "value", "funds", "nav"}
  /\ {snap.units, snap.value, held, buying} \subseteq [Symbol -> Int]
  /\ {snap.funds, snap.nav} \subseteq Int
  /\ {entries, heat, addHeat, adds} \subseteq [Symbol -> Nat] /\ unseen \in Nat

OneTradeEach == TradeRisk > 0 => \A s \in Symbol : heat[s] <= entries[s] * TradeRisk

\* a simulated purchase is in the book at once;
SimulatedIsSeen ==
  isSimulated => /\ unseen = 0 /\ \A s \in Symbol : buying[s] = 0 /\ entries[s] <= 1
                 /\ \A s \in Symbol : snap.units[s] >= 0 /\ (entries[s] = 1 => s \in Book)

\* and what the next add may bring is left of one trade's risk.
AddsShrink ==
  \A s \in Symbol :
    /\ addHeat[s] + TradeRisk \div 2 ^ adds[s] <= TradeRisk
    /\ addHeat[s] > 0 => held[s] > 0 /\ s \in Book

HeatIsSpent == Figures /\ OneTradeEach /\ SimulatedIsSeen /\ AddsShrink /\ OvershootBounded
=============================================================================
