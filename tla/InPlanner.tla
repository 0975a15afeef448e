----------------------------- MODULE InPlanner -----------------------------
(***************************************************************************)
(* Which shares the India growth bot holds, cycle after cycle              *)
(* (in_growth_bot/planner.py): the best-ranked ones, at most a few of a    *)
(* sector, with the shares harvested yesterday still counted in.           *)
(*                                                                         *)
(* Amounts are left out, as in UkPlanner; GrowthCycle has those of the     *)
(* buy-backs.                                                              *)
(***************************************************************************)
EXTENDS Integers, FiniteSets, Functions

CONSTANTS
    Share,          \* U.pool()
    Sector,         \* [Share -> sector]
    Positions,      \* positions
    MaxPerSector    \* max_per_group

VARIABLES
    held,       \* shares in the ledger
    rebuy,      \* harvested, to be bought back
    at,         \* the step of Planner.run that comes next
    plan,       \* sold, trimmed, harvested, held_at_loss, members
    failed      \* history: a sale was not carried out

vars == <<held, rebuy, at, plan, failed>>

NoPlan == [sold |-> {}, trim |-> {}, harvested |-> {}, atLoss |-> {}, keep |-> {}]

Init == held = {} /\ rebuy = {} /\ at = "portfolio" /\ plan = NoPlan /\ failed = FALSE

\* _sell: under cost it is refused and remembered, a large tax defers it.
Fates(shares) == {f \in [shares -> {"gain", "loss", "taxed"}] :
                    \A t \in shares \cap plan.atLoss : f[t] = "loss"}
Sell(p, f) ==
    LET left == DOMAIN f \ p.sold
    IN [p EXCEPT !.atLoss = @ \cup {t \in left : f[t] = "loss"},
                 !.sold = @ \cup {t \in left : f[t] = "gain"}]

\* Mutant: what is held at a loss has no place in its sector.
KeptPeers(p, keep, g) == {t \in keep : Sector[t] = g}

Peers(p, keep, g) == {t \in keep \cup p.atLoss : Sector[t] = g}

Eligible(p, keep, rank, good) == {i \in DOMAIN rank : rank[i] \in good \ (keep \cup p.atLoss \cup p.sold)}

\* The eligible ranks whose sector is not full by their turn.
Fitting(p, keep, rank, good) ==
    LET eligible == Eligible(p, keep, rank, good)
    IN {i \in eligible :
          LET g == Sector[rank[i]]
              before == {j \in eligible : j < i /\ Sector[rank[j]] = g}
          IN Cardinality(Peers(p, keep, g)) + Cardinality(before) < MaxPerSector}

\* The best-ranked of them fill the free places.
Picked(p, keep, rank, good) ==
    LET fit == Fitting(p, keep, rank, good)
        chosen == {i \in fit : Cardinality(keep) + Cardinality({j \in fit : j < i}) < Positions}
    IN keep \cup {rank[i] : i \in chosen}

\* _portfolio: a crash is sold at any price and tax, what ranks too low after
\* the minimum hold is sold if it may be, what awaits its buy-back stays.
PlanPortfolio ==
    /\ at = "portfolio"
    /\ \E rank \in {r \in [1 .. Cardinality(Share) -> Share] : Range(r) = Share},
          good \in SUBSET Share, crashed \in SUBSET (held \ rebuy) :
       \E out \in SUBSET (held \ (rebuy \cup crashed)) : \E f \in Fates(out) :
         LET p == Sell([plan EXCEPT !.sold = crashed], f)
             keep == (held \cup rebuy) \ (p.sold \cup p.atLoss)
         IN plan' = [p EXCEPT !.keep = Picked(p, keep, rank, good)]
    /\ at' = "season"
    /\ UNCHANGED <<held, rebuy, failed>>

\* _rebalance: shares over their target are trimmed, to the long-term ones.
Rebalance ==
    /\ at = "season"
    /\ \E over \in SUBSET held : \E f \in Fates(over) :
         LET p == Sell(plan, f) IN plan' = [p EXCEPT !.trim = p.sold \ plan.sold]
    /\ at' = "invest"
    /\ UNCHANGED <<held, rebuy, failed>>

\* _harvest: long-term gains, sold to be bought back on the next run.
Harvest ==
    /\ at = "season"
    /\ \E ts \in SUBSET (held \ (plan.sold \cup plan.atLoss)) :
         plan' = [plan EXCEPT !.sold = @ \cup ts, !.trim = ts, !.harvested = ts]
    /\ at' = "invest"
    /\ UNCHANGED <<held, rebuy, failed>>

\* Shares bought back come first; the rest of the money, if the regime lets
\* it, goes to members that are not frozen, sold or awaiting their buy-back.
Buyable(p) == p.keep \ (p.atLoss \cup p.sold \cup rebuy)

\* A sale may leave part of a holding; a harvest that was not carried out is
\* struck off the list, and so is any other sale of a share on it.
Invest ==
    /\ at = "invest"
    /\ \E gone \in SUBSET plan.sold : \E cut \in SUBSET (plan.sold \ gone) :
       \E back \in SUBSET rebuy, new \in SUBSET Buyable(plan) :
         LET struck == plan.sold \ (gone \cup cut)
         IN /\ held' = (held \ gone) \cup back \cup new
            /\ \E dropped \in SUBSET back :
                 rebuy' = ((rebuy \ (dropped \cup struck)) \cup plan.harvested) \ struck
            /\ failed' = (failed \/ ~(plan.sold \subseteq gone \cup plan.trim))
    /\ plan' = NoPlan /\ at' = "portfolio"

Next == PlanPortfolio \/ Rebalance \/ Harvest \/ Invest
Spec == Init /\ [][Next]_vars

---------------------------------------------------------------------------

TypeOK == /\ held \subseteq Share /\ rebuy \subseteq Share /\ failed \in BOOLEAN
          /\ at \in {"portfolio", "season", "invest"} /\ plan.sold \subseteq held

\* "at most max_per_group per sector" (config.py) holds for what the bot owns,
\* the shares on their way back from a harvest included, through rotations at
\* a loss and deferrals, as long as every sale was carried out.
SectorCap ==
    ~failed => \A t \in held \cup rebuy :
                 Cardinality({u \in held \cup rebuy : Sector[u] = Sector[t]}) <= MaxPerSector

---------------------------------------------------------------------------
(* Why it holds: what is true of the plan after each of its steps.         *)

Members == plan.keep \cup plan.atLoss
SharesChosen == [sold : SUBSET held, trim : SUBSET held, harvested : SUBSET held,
                 atLoss : SUBSET held, keep : SUBSET Share]

StepsInOrder ==
    /\ held \subseteq Share /\ rebuy \subseteq Share /\ failed \in BOOLEAN /\ plan \in SharesChosen
    /\ at \in {"portfolio", "season", "invest"}
    /\ at = "portfolio" => plan = NoPlan
    /\ at = "season" => plan.trim = {} /\ plan.harvested = {}

\* What is not sold outright, what waits to be bought back and what is about to
\* wait are members.
OwnedAreMembers ==
    /\ held \subseteq Members \cup (plan.sold \ plan.trim)
    /\ rebuy \cup plan.harvested \subseteq Members

MembersCapped ==
    \A t \in Share : Cardinality({u \in Members : Sector[u] = Sector[t]}) <= MaxPerSector

SectorsPlanned ==
    /\ StepsInOrder /\ SectorCap
    /\ at # "portfolio" => OwnedAreMembers
    /\ ~failed /\ at # "portfolio" => MembersCapped
============================================================================
