----------------------------- MODULE UkPlanner -----------------------------
(***************************************************************************)
(* Which lines the UK growth bot sells and buys, cycle after cycle         *)
(* (uk_growth_bot/planner.py): rotation of core funds, growth stocks, the  *)
(* bear regime, rebalancing, the allowance harvest and the purchases, in a *)
(* general account.                                                        *)
(*                                                                         *)
(* Amounts are left out: a line is held or not, and how a sale would do    *)
(* (at a loss, over the allowance) is what the market chose for the day.   *)
(* Which slots are over target, and which get money, is left open.         *)
(***************************************************************************)
EXTENDS Integers, FiniteSets, FiniteSetsExt, Functions

CONSTANTS
    Fund,           \* U.CORE_POOL: one slot each
    Twin,           \* [Fund -> Line]: the fund's twin, or the fund itself
    Group,          \* [Fund -> theme]
    Stock,          \* U.SATELLITE_CANDIDATES
    Gilts,          \* U.DEFENSIVE
    CoreFunds,      \* core_funds
    ExitRank,       \* core_exit_rank
    Settings,       \* [action: regime_action, stocks: max_satellite_stocks]
    MaxPause,       \* max_pause_months, in cycles
    Window          \* the thirty days, in cycles

Line == Fund \cup {Twin[f] : f \in Fund} \cup Stock \cup {Gilts}
Core == Line \ (Stock \cup {Gilts})
Slot(t) == IF t \in Core THEN CHOOSE f \in Fund : t \in {f, Twin[f]} ELSE t
LinesOf(s) == {t \in Line : Slot(t) = s}

VARIABLES
    settings,   \* of this installation; action is "pause", "derisk" or "ignore"
    held,       \* lines the ledger holds
    ago,        \* cycles since a line was last sold, at most Window + 1
    paused,     \* cycles since paused_since; 0 when not paused
    at,         \* the step of Planner.run that comes next
    plan,       \* the plan so far: sold, held_at_loss, members, purchases
    failed      \* history: a sale was not carried out

vars == <<settings, held, ago, paused, at, plan, failed>>

NoPlan == [sold |-> {}, trim |-> {}, atLoss |-> {}, keep |-> {}, buys |-> {}]

Init == /\ settings \in Settings
        /\ held = {} /\ ago = [t \in Line |-> Window + 1] /\ paused = 0
        /\ at = "satellite" /\ plan = NoPlan
        /\ failed = FALSE

---------------------------------------------------------------------------
(* A sale: refused under cost, deferred when its gain is over the          *)
(* allowance left.  Which it is, the market decides.                       *)

\* Sold today or in the last thirty days.
RecentlySold(t) == ago[t] <= Window
Blocked(p, t) == t \in p.sold \/ RecentlySold(t)

Fates(lines) == {f \in [lines -> {"gain", "loss", "taxed"}] : \A t \in lines \cap plan.atLoss : f[t] = "loss"}

\* The plan once _sell was asked for these lines; they pay tax unless forced.
SellAll(p, f, force) ==
    LET left == DOMAIN f \ p.sold
        loss == {t \in left : f[t] = "loss"}
    IN [p EXCEPT !.atLoss = @ \cup loss,
                 !.sold = @ \cup {t \in left \ loss : force \/ f[t] = "gain"}]

---------------------------------------------------------------------------
(* The satellite sleeve.                                                   *)

HeldStocks == held \cap Stock

\* A broken thesis is sold at any price; what ranks too low is sold if it may
\* be; a sale deferred for tax leaves it a full member.
Satellite(broken, f) ==
    LET p == SellAll([plan EXCEPT !.sold = broken], f, FALSE)
    IN [p EXCEPT !.keep = HeldStocks \ (p.sold \cup p.atLoss)]

Candidates(p, good) == {t \in good : ~Blocked(p, t) /\ t \notin p.keep \cup p.atLoss}

\* In a bear market with "derisk" the sleeve is sold and gilts take its place.
Derisked(p, f) ==
    [SellAll(p, f, FALSE) EXCEPT !.keep = {Gilts}]

PauseAfter(bear) == IF ~bear \/ settings.action = "ignore" THEN 0 ELSE Min({paused + 1, MaxPause + 1})

PlanSatellite ==
    /\ at = "satellite"
    /\ \E bear \in BOOLEAN, broken \in SUBSET HeldStocks, good \in SUBSET Stock :
         \E out \in SUBSET (HeldStocks \ broken) : \E f \in Fates(out) :
           LET p == Satellite(broken, f)
               room == Max({0, settings.stocks - Cardinality(p.keep)})
               fresh == Candidates(p, good)
           IN \E new \in {n \in SUBSET fresh : Cardinality(n) = Min({room, Cardinality(fresh)})} :
                /\ paused' = PauseAfter(bear)
                /\ IF bear /\ settings.action = "derisk"
                   THEN \E g \in Fates(p.keep) : plan' = Derisked(p, g)
                   ELSE plan' = [p EXCEPT !.keep = @ \cup new]
    /\ at' = "core"
    /\ UNCHANGED <<settings, held, ago, failed>>

---------------------------------------------------------------------------
(* The core.  rank: the funds, best first.                                 *)

Ranks == {r \in [1 .. Cardinality(Fund) -> Fund] : Range(r) = Fund}
HeldSlots == {Slot(t) : t \in held \cap Core}
LastRanked(r) == {r[i] : i \in ExitRank + 1 .. Cardinality(Fund)}

\* A slot that leaves stays a member when it was deferred, not when a line
\* of it is held at a loss.
CoreKept(p, leaving) ==
    (HeldSlots \ leaving) \cup
    {s \in leaving : ~(held \cap LinesOf(s) \subseteq p.sold) /\ held \cap LinesOf(s) \cap p.atLoss = {}}

\* Mutant: a fund held at a loss does not occupy its group.
TakenByKept(p, kept) == {Group[s] : s \in kept}

Taken(p, kept) == {Group[s] : s \in kept} \cup {Group[Slot(t)] : t \in p.atLoss \cap Core}

\* The best-ranked fund of each group that is not taken.
Leading(p, kept, rank) ==
    {i \in DOMAIN rank : /\ Group[rank[i]] \notin Taken(p, kept)
                         /\ \A j \in 1 .. i - 1 : Group[rank[j]] # Group[rank[i]]}

\* Best-ranked first, one per group, until core_funds are kept.
CoreChosen(p, kept, rank) ==
    LET lead == Leading(p, kept, rank)
        chosen == {i \in lead : Cardinality(kept) + Cardinality({j \in lead : j < i}) < CoreFunds}
    IN kept \cup {rank[i] : i \in chosen}

\* Below the exit rank, and past the minimum hold.
PlanCore ==
    /\ at = "core"
    /\ \E rank \in Ranks : \E leaving \in SUBSET (HeldSlots \cap LastRanked(rank)) :
         \E f \in Fates({t \in held : Slot(t) \in leaving}) :
           LET p == SellAll(plan, f, FALSE)
           IN plan' = [p EXCEPT !.keep = @ \cup CoreChosen(p, CoreKept(p, leaving), rank)]
    /\ at' = "season"
    /\ UNCHANGED <<settings, held, ago, paused, failed>>

---------------------------------------------------------------------------
(* Rebalancing, harvest, purchases.                                        *)

\* The first run of a quarter trims slots; what is over target by twice the
\* drift is sold whatever the tax.
Rebalance ==
    /\ at = "season"
    /\ \E over \in SUBSET {Slot(t) : t \in held \ plan.atLoss}, force \in BOOLEAN :
         \E f \in Fates({t \in held : Slot(t) \in over}) :
           LET p == SellAll(plan, f, force) IN plan' = [p EXCEPT !.trim = p.sold \ plan.sold]
    /\ at' = "harvest"
    /\ UNCHANGED <<settings, held, ago, paused, failed>>

\* A core line with a gain is switched into its twin; one that was trimmed, or
\* whose gain was too small for a sale, may be too.
OtherLine(t) == IF t = Slot(t) THEN Twin[t] ELSE Slot(t)
Harvestable(t) == OtherLine(t) # t /\ ~Blocked(plan, OtherLine(t)) /\ t \notin plan.sold \ plan.trim

Harvest ==
    /\ at = "harvest"
    /\ \E ts \in SUBSET {t \in held \cap Core : Harvestable(t)} :
         /\ \A t \in ts : OtherLine(t) \notin ts
         /\ plan' = [plan EXCEPT !.sold = @ \cup ts, !.buys = {OtherLine(t) : t \in ts}]
    /\ at' = "invest"
    /\ UNCHANGED <<settings, held, ago, paused, failed>>

\* _ticker_for_slot: a line that is not blocked, one already held first.
TickerFor(s) ==
    LET open == {t \in LinesOf(s) : ~Blocked(plan, t)}
    IN IF open \cap held # {} THEN open \cap held ELSE open

\* Slots frozen by a loss get no money; nor does anything during a pause.
Purchases ==
    IF paused \in 1 .. MaxPause THEN {}
    ELSE UNION {TickerFor(s) : s \in plan.keep \ {Slot(t) : t \in plan.atLoss}}

\* The orders, sales first.  Each is booked at once or not carried out, a sale
\* may leave part of the line, and not every slot gets money.
Invest ==
    /\ at = "invest"
    /\ \E gone \in SUBSET plan.sold : \E cut \in SUBSET (plan.sold \ gone) :
       \E done \in SUBSET (plan.buys \cup Purchases) :
         /\ held' = (held \ gone) \cup done
         /\ ago' = [t \in Line |-> IF t \in gone \cup cut THEN 0 ELSE Min({ago[t] + 1, Window + 1})]
         /\ failed' = (failed \/ ~(plan.sold \subseteq gone \cup plan.trim))
    /\ plan' = NoPlan /\ at' = "satellite"
    /\ UNCHANGED <<settings, paused>>

Next == PlanSatellite \/ PlanCore \/ Rebalance \/ Harvest \/ Invest
Spec == Init /\ [][Next]_vars

---------------------------------------------------------------------------

TypeOK == /\ settings \in Settings /\ held \subseteq Line /\ failed \in BOOLEAN
          /\ ago \in [Line -> 0 .. Window + 1] /\ paused \in 0 .. MaxPause + 1
          /\ at \in {"satellite", "core", "season", "harvest", "invest"}
          /\ plan.sold \subseteq held /\ plan.atLoss \subseteq held

\* "at most one fund per group" (universe.py) holds for the holdings of any
\* cycle, not only for its targets, through rotations at a loss, deferrals
\* and twins, as long as every sale planned was carried out in full.
OneFundPerGroup ==
    ~failed => \A t, u \in held \cap Core : Group[Slot(t)] = Group[Slot(u)] => Slot(t) = Slot(u)
---------------------------------------------------------------------------
(* Why it holds: what is true of the plan after each of its steps.         *)

LinesChosen == [sold : SUBSET held, atLoss : SUBSET held, trim : SUBSET Line,
                keep : SUBSET Line, buys : SUBSET Line]

\* The satellite comes before the core, and nothing is switched before the end.
StepsInOrder ==
    /\ settings \in Settings /\ held \subseteq Line /\ failed \in BOOLEAN /\ plan \in LinesChosen
    /\ at \in {"satellite", "core", "season", "harvest", "invest"}
    /\ at = "satellite" => plan = NoPlan
    /\ at = "core" => (plan.sold \cup plan.atLoss \cup plan.keep) \cap Core = {}
    /\ at # "invest" => plan.buys = {}
    /\ at \in {"satellite", "core", "season"} => plan.trim = {}

\* No fund kept but t's own is of t's group: t may stay beside them.
Settled(t) == \A s \in plan.keep \cap Fund : Group[s] = Group[Slot(t)] => s = Slot(t)

\* The funds kept differ in group, and what of the core is not sold outright
\* may stay beside them.
KeptFundsDiffer == \A s, u \in plan.keep \cap Fund : Group[s] = Group[u] => s = u
LeaversGo == \A t \in held \cap Core : t \notin plan.sold \ plan.trim => Settled(t)

\* A switch buys the other line of a slot that may stay.
SwitchesSettle ==
    \A b \in plan.buys : \E t \in held \cap Core : b \in Core /\ Slot(b) = Slot(t) /\ Settled(t)

OneFundPlanned ==
    /\ StepsInOrder /\ OneFundPerGroup
    /\ ~failed /\ at \notin {"satellite", "core"} => KeptFundsDiffer /\ LeaversGo /\ SwitchesSettle
============================================================================
