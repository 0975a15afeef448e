---------------------------- MODULE GrowthCycle ----------------------------
(***************************************************************************)
(* The daily cycle of the India growth bot in live mode                    *)
(* (in_growth_bot/main.py, ledger.py, broker.py), its ledger, and the      *)
(* Zerodha account it shares with the intraday agent.  What the agent may  *)
(* touch is decided by a file: the reservation the bot writes and          *)
(* zerodha_connector.py subtracts.                                         *)
(*                                                                         *)
(* A share costs one unit of money.  Charges, slippage and price moves are *)
(* left out: a plan the account cannot pay for arises from what the agent  *)
(* spends and from a balance that cannot be read.                          *)
(***************************************************************************)
EXTENDS Integers, FiniteSets, FiniteSetsExt, Functions

CONSTANTS
    Ticker,         \* the shares of the pool
    Contribution,   \* the monthly contribution, in shares
    AgentCash,      \* what the intraday agent has in the account at the start
    MaxBooked       \* bound: contributions booked in a run

VARIABLES
    ran,        \* ledger state "last_run" is today
    ledger,     \* cash, holdings, contribution of the month, state "rebuy"
    fence,      \* in_growth_reserved.json: cash and holdings
    acct,       \* the account: cash, the bot's shares, the agent's shares
    transfers,  \* contributions booked (first) and arrived (second)
    run,        \* the cycle in memory: orders to send, pending buy-backs
    stray,      \* orders alive at the broker that nobody waits for
    debt,       \* history: shares harvested, not bought back, not given up
    crossed,    \* history: tickers sold while they awaited a buy-back
    mishap      \* history: what went wrong

vars == <<ran, ledger, fence, acct, transfers, run, stray, debt, crossed, mishap>>

Nothing == [t \in Ticker |-> 0]
Idle == [at |-> "idle", todo |-> {}, pending |-> Nothing, order |-> {}]
Add(f, t, n) == [f EXCEPT ![t] = @ + n]

TypeOK ==
    /\ ran \in BOOLEAN
    /\ ledger \in [cash : Int, qty : [Ticker -> Nat], booked : BOOLEAN, rebuy : [Ticker -> Nat]]
    /\ fence \in [cash : Nat, qty : [Ticker -> Nat]]
    /\ acct \in [cash : Nat, mine : [Ticker -> Nat], theirs : [Ticker -> Nat]]
    /\ run.at \in {"idle", "orders", "sent"} /\ (run.at = "sent") = (run.order # {})

---------------------------------------------------------------------------
(* The reservation, and what it leaves of the account to the agent.        *)

Reservation(l) == [cash |-> Max({0, l.cash}), qty |-> l.qty]
Holding(t) == acct.theirs[t] + acct.mine[t]
Visible(t) == Max({0, Holding(t) - fence.qty[t]})
Spendable == Max({0, acct.cash - fence.cash})

Init ==
    /\ ran = FALSE
    /\ ledger = [cash |-> 0, qty |-> Nothing, booked |-> FALSE, rebuy |-> Nothing]
    /\ fence = Reservation(ledger)
    /\ acct = [cash |-> AgentCash, mine |-> Nothing, theirs |-> Nothing]
    /\ transfers = <<0, 0>>
    /\ run = Idle /\ stray = {}
    /\ debt = Nothing /\ crossed = {} /\ mishap = {}

---------------------------------------------------------------------------
(* What Planner.run may ask for: sales and harvests of what the ledger     *)
(* holds, buy-backs of yesterday's harvest, and purchases for the rest.    *)
(* Harvested shares are taken off the budget, which never held their       *)
(* proceeds.                                                               *)

UpTo(f) == {g \in [Ticker -> 0 .. Max(Range(f) \cup {0})] : \A t \in Ticker : g[t] <= f[t]}

Budget(cash, p) == Max({0, cash + SumFunction(p.sale) - SumFunction(p.harvest)})

BackOK(l, cash, p, priced) ==
    /\ SumFunction(p.back) <= Budget(cash, p)
    /\ \A t \in Ticker : \/ p.back[t] = l.rebuy[t]
                         \/ p.back[t] = 0 /\ t \notin priced
                         \/ t \in priced /\ SumFunction(p.back) = Budget(cash, p)

InvestOK(l, cash, p, priced) ==
    /\ SumFunction(p.invest) <= Budget(cash, p) - SumFunction(p.back)
    /\ \A t \in Ticker : p.invest[t] > 0 => /\ t \in priced /\ l.rebuy[t] = 0
                                            /\ p.sale[t] = 0 /\ p.harvest[t] = 0

Plans(l, cash, priced) ==
    {p \in UNION {[sale : {s}, harvest : UpTo(l.qty), back : UpTo(l.rebuy),
                   invest : UpTo([t \in Ticker |-> Budget(cash, [sale |-> s, harvest |-> Nothing])])] :
                    s \in UpTo(l.qty)} :
        /\ \A t \in Ticker : /\ p.harvest[t] = 0 \/ p.sale[t] = 0
                             /\ t \notin priced => p.harvest[t] = 0 /\ p.sale[t] = 0
        /\ BackOK(l, cash, p, priced)
        /\ InvestOK(l, cash, p, priced)}

Orders(side, why, f) == {[side |-> side, why |-> why, t |-> t, q |-> f[t], left |-> f[t]] :
                            t \in {u \in Ticker : f[u] > 0}}

OrdersOf(p) == Orders("SELL", "sale", p.sale) \cup Orders("SELL", "harvest", p.harvest)
                 \cup Orders("BUY", "buyback", p.back) \cup Orders("BUY", "invest", p.invest)

\* The buy-backs a plan leaves for the next run.
Carried(l, p) == [t \in Ticker |-> IF l.rebuy[t] > 0 /\ p.back[t] = 0 THEN l.rebuy[t] ELSE p.harvest[t]]

CashFor(l, readable) == IF readable THEN Min({l.cash, acct.cash}) ELSE 0

\* Contributions are booked when due, whether or not the transfer arrived.
Booked(l) == IF l.booked THEN l ELSE [l EXCEPT !.cash = @ + Contribution, !.booked = TRUE]

\* The history of harvests is kept until a cycle dies or a fill is missed.
Followed == mishap \cap {"interrupted", "unrecorded"} = {}

StartCycle ==
    /\ run.at = "idle" /\ ~ran
    /\ ran' = TRUE
    /\ ledger' = Booked(ledger)
    /\ fence' = Reservation(ledger')
    /\ transfers' = [transfers EXCEPT ![1] = IF ledger.booked THEN @ ELSE @ + 1]
    /\ \E readable \in BOOLEAN, priced \in {Ticker, {}} :
         \E p \in Plans(ledger', CashFor(ledger', readable), priced) :
            /\ run' = [at |-> "orders", todo |-> OrdersOf(p), pending |-> Carried(ledger', p), order |-> {}]
            /\ crossed' = crossed \cup {t \in Ticker : ledger.rebuy[t] > 0 /\ p.sale[t] + p.harvest[t] > 0}
            /\ debt' = [t \in Ticker |-> IF t \in crossed' \/ ~Followed THEN 0
                                           ELSE IF p.back[t] = 0 THEN debt[t]
                                           ELSE debt[t] - (ledger.rebuy[t] - p.back[t])]
    /\ mishap' = mishap \ {"stale"}
    /\ UNCHANGED <<acct, stray>>

\* The broker cannot be reached, or there is no market data: the day is lost.
SkipCycle ==
    /\ run.at = "idle" /\ ~ran
    /\ ran' = TRUE
    /\ UNCHANGED <<ledger, fence, acct, transfers, run, stray, debt, crossed, mishap>>

---------------------------------------------------------------------------
(* One order after the other, sales first.                                 *)

NextOrder(o) == /\ run.at = "orders" /\ o \in run.todo
                /\ o.side = "BUY" => \A u \in run.todo : u.side = "BUY"

\* Refuses to sell more than the account holds; the exchange wants the cash.
Covered(o) == IF o.side = "SELL" THEN Holding(o.t) >= o.q ELSE acct.cash >= o.q

\* Mutant: a harvest that was refused is bought back all the same.
PendingAfterFailureKept(o) ==
    IF o.why = "buyback" THEN Add(run.pending, o.t, o.q) ELSE run.pending

PendingAfterFailure(o) ==
    CASE o.why = "buyback" -> Add(run.pending, o.t, o.q)
      [] o.side = "SELL"   -> [run.pending EXCEPT ![o.t] = 0]
      [] OTHER             -> run.pending

PendingAfterFill(o, filled) ==
    CASE o.why = "buyback" -> Add(run.pending, o.t, o.q - filled)
      [] o.side = "SELL" /\ run.pending[o.t] > 0 -> [run.pending EXCEPT ![o.t] = filled]
      [] OTHER             -> run.pending

SendOrder(o) ==
    /\ NextOrder(o) /\ Covered(o)
    /\ run' = [run EXCEPT !.at = "sent", !.todo = @ \ {o}, !.order = {o}]
    /\ UNCHANGED <<ran, ledger, fence, acct, transfers, stray, debt, crossed, mishap>>

\* Rejected, or the holdings could not be read.
RefuseOrder(o) ==
    /\ NextOrder(o)
    /\ run' = [run EXCEPT !.todo = @ \ {o}, !.pending = PendingAfterFailure(o)]
    /\ UNCHANGED <<ran, ledger, fence, acct, transfers, stray, debt, crossed, mishap>>

\* No answer from place_order, and the look-up in the order book fails too:
\* never sent again, but it may be alive.
LoseOrder(o) ==
    /\ NextOrder(o) /\ Covered(o) /\ stray = {}
    /\ run' = [run EXCEPT !.todo = @ \ {o}, !.pending = PendingAfterFailure(o)]
    /\ stray' = {o}
    /\ UNCHANGED <<ran, ledger, fence, acct, transfers, debt, crossed, mishap>>

Fill(o) ==
    /\ o.left > 0
    /\ IF o.side = "BUY"
       THEN acct.cash > 0 /\ acct' = [acct EXCEPT !.cash = @ - 1, !.mine[o.t] = @ + 1]
       ELSE /\ Holding(o.t) > 0
            /\ acct' = IF acct.mine[o.t] > 0
                       THEN [acct EXCEPT !.cash = @ + 1, !.mine[o.t] = @ - 1]
                       ELSE [acct EXCEPT !.cash = @ + 1, !.theirs[o.t] = @ - 1]
    /\ debt' = IF ~Followed \/ o.t \in crossed THEN debt
               ELSE IF o.why = "harvest" THEN Add(debt, o.t, 1)
               ELSE IF o.why = "buyback" THEN Add(debt, o.t, -1) ELSE debt

OrderFills ==
    /\ \E o \in run.order : Fill(o) /\ run' = [run EXCEPT !.order = {[o EXCEPT !.left = @ - 1]}]
    /\ UNCHANGED <<ran, ledger, fence, transfers, stray, crossed, mishap>>

StrayFills ==
    /\ \E o \in stray : Fill(o) /\ stray' = {[o EXCEPT !.left = @ - 1]}
    /\ mishap' = mishap \cup {"unrecorded"}
    /\ UNCHANGED <<ran, ledger, fence, transfers, run, crossed>>

Recorded(o, filled) ==
    LET n == IF o.side = "BUY" THEN filled ELSE -filled
    IN [ledger EXCEPT !.cash = @ - n, !.qty[o.t] = @ + n]

\* After the wait: what is still open is cancelled, or the cancellation fails.
SettleOrder ==
    /\ run.at = "sent"
    /\ \E o \in run.order, cancelled \in BOOLEAN :
         LET filled == o.q - o.left
         IN /\ run' = [run EXCEPT !.at = "orders", !.order = {},
                          !.pending = IF filled = 0 THEN PendingAfterFailure(o) ELSE PendingAfterFill(o, filled)]
            /\ ledger' = Recorded(o, filled)
            /\ cancelled \/ (o.left > 0 /\ stray = {})
            /\ stray' = IF cancelled THEN stray ELSE {o}
    /\ UNCHANGED <<ran, fence, acct, transfers, debt, crossed, mishap>>

FinishCycle ==
    /\ run.at = "orders" /\ run.todo = {}
    /\ ledger' = [ledger EXCEPT !.rebuy = run.pending]
    /\ fence' = Reservation(ledger')
    /\ run' = Idle
    /\ mishap' = mishap \ {"stale"}
    /\ UNCHANGED <<ran, acct, transfers, stray, debt, crossed>>

---------------------------------------------------------------------------
(* Failures.  An exception ends the cycle and is logged by loop(); a crash *)
(* is followed by a start, which rewrites the reservation.                 *)

Abandoned == {"interrupted"} \cup (IF \E o \in run.order : o.left < o.q THEN {"unrecorded"} ELSE {})

CycleFails ==
    /\ run.at # "idle" /\ (run.order = {} \/ stray = {})
    /\ run' = Idle /\ stray' = stray \cup run.order
    /\ mishap' = mishap \cup Abandoned \cup {"stale"}
    /\ debt' = Nothing /\ crossed' = {}
    /\ UNCHANGED <<ran, ledger, fence, acct, transfers>>

Restart ==
    /\ run.at # "idle" \/ "stale" \in mishap
    /\ run.order = {} \/ stray = {}
    /\ run' = Idle /\ stray' = stray \cup run.order
    /\ fence' = Reservation(ledger)
    /\ mishap' = (mishap \cup (IF run.at = "idle" THEN {} ELSE Abandoned)) \ {"stale"}
    /\ debt' = Nothing /\ crossed' = {}
    /\ UNCHANGED <<ran, ledger, acct, transfers>>

---------------------------------------------------------------------------
(* The world: days and months, the transfer, the intraday agent.           *)

\* Orders are valid for the day.
NextDay ==
    /\ run.at = "idle" /\ ran /\ mishap \cap {"unrecorded", "poached"} = {}
    /\ ran' = FALSE /\ stray' = {}
    /\ \E newMonth \in BOOLEAN : /\ newMonth => transfers[1] < MaxBooked
                                 /\ ledger' = [ledger EXCEPT !.booked = @ /\ ~newMonth]
    /\ UNCHANGED <<fence, acct, transfers, run, debt, crossed, mishap>>

\* _check_positions asks the owner to put the books right after a fill that
\* is missing from the ledger: a fresh account and ledger.
Reconcile ==
    /\ run.at = "idle" /\ mishap \cap {"unrecorded", "poached"} # {}
    /\ ran' = FALSE
    /\ ledger' = [cash |-> 0, qty |-> Nothing, booked |-> FALSE, rebuy |-> Nothing]
    /\ fence' = Reservation(ledger')
    /\ acct' = [cash |-> AgentCash, mine |-> Nothing, theirs |-> Nothing]
    /\ transfers' = <<0, 0>> /\ run' = Idle /\ stray' = {}
    /\ debt' = Nothing /\ crossed' = {} /\ mishap' = {}

MoneyLands ==
    /\ transfers[2] < MaxBooked
    /\ transfers' = [transfers EXCEPT ![2] = @ + 1]
    /\ acct' = [acct EXCEPT !.cash = @ + Contribution]
    /\ UNCHANGED <<ran, ledger, fence, run, stray, debt, crossed, mishap>>

AgentBuys(t) ==
    /\ Spendable > 0
    /\ acct' = [acct EXCEPT !.cash = @ - 1, !.theirs[t] = @ + 1]
    /\ UNCHANGED <<ran, ledger, fence, transfers, run, stray, debt, crossed, mishap>>

\* Its own shares first; what remains visible beyond them is the bot's.
AgentSells(t) ==
    /\ Visible(t) > 0
    /\ acct' = IF acct.theirs[t] > 0
               THEN [acct EXCEPT !.cash = @ + 1, !.theirs[t] = @ - 1]
               ELSE [acct EXCEPT !.cash = @ + 1, !.mine[t] = @ - 1]
    /\ mishap' = IF acct.theirs[t] > 0 THEN mishap ELSE mishap \cup {"poached"}
    /\ UNCHANGED <<ran, ledger, fence, transfers, run, stray, debt, crossed>>

Next ==
    \/ StartCycle \/ SkipCycle \/ FinishCycle \/ SettleOrder \/ OrderFills \/ StrayFills
    \/ \E o \in run.todo : SendOrder(o) \/ RefuseOrder(o) \/ LoseOrder(o)
    \/ CycleFails \/ Restart \/ NextDay \/ Reconcile \/ MoneyLands
    \/ \E t \in Ticker : AgentBuys(t) \/ AgentSells(t)

Spec == Init /\ [][Next]_vars

---------------------------------------------------------------------------

\* Every share harvested for tax is bought back or still on the list, and none
\* is bought back twice, through partial fills, refusals and empty purses; but
\* for a cycle that died half-way (main.py:176 comes after the orders) and for
\* a ticker sold again while it was on the list.
HarvestComesBack ==
    run.at = "idle" /\ mishap \cap {"interrupted", "unrecorded"} = {}
        => \A t \in Ticker \ crossed : ledger.rebuy[t] = debt[t]

\* Why: at any point of a cycle, what is pending, with what an open buy-back
\* has not bought yet and without what an open harvest has not sold yet, is
\* what is owed; no ticker has two orders of this kind.
Ongoing == run.todo \cup run.order
OrderType == [side : {"BUY", "SELL"}, why : {"sale", "harvest", "buyback", "invest"},
              t : Ticker, q : Nat \ {0}, left : Nat]

OrderExplains(o) ==
    /\ o.why = "buyback" => run.pending[o.t] + o.left = debt[o.t]
    /\ o.why = "harvest" => run.pending[o.t] = o.q /\ debt[o.t] = o.q - o.left
    /\ o.why = "sale"    => run.pending[o.t] = 0 /\ debt[o.t] = 0

CycleIsOrderly ==
    /\ ledger.rebuy \in [Ticker -> Nat] /\ run.pending \in [Ticker -> Nat] /\ debt \in [Ticker -> Int]
    /\ DOMAIN ledger = {"cash", "qty", "booked", "rebuy"}
    /\ DOMAIN run = {"at", "todo", "pending", "order"}
    /\ Ongoing \subseteq OrderType /\ stray \subseteq OrderType
    /\ run.at = "idle" => Ongoing = {}
    /\ run.at = "orders" => run.order = {}
    /\ \A o, u \in run.order : o = u
    /\ run.todo \cap run.order = {}
    /\ \A o \in run.todo : o.left = o.q
    /\ \A o \in Ongoing : o.left <= o.q /\ (o.side = "BUY" <=> o.why \in {"buyback", "invest"})
    /\ "stale" \in mishap => "interrupted" \in mishap

PendingIsOwed(t) ==
    /\ run.at = "idle" => ledger.rebuy[t] = debt[t]
    /\ \A o \in Ongoing : o.t = t => OrderExplains(o)
    /\ \A o, u \in Ongoing : o.t = t /\ u.t = t /\ "invest" \notin {o.why, u.why} => o = u
    /\ run.at # "idle" => \/ run.pending[t] = debt[t]
                          \/ \E o \in Ongoing : o.t = t /\ o.why \in {"buyback", "harvest"}

OwedIsPending ==
    CycleIsOrderly /\ (Followed => \A t \in Ticker \ crossed : PendingIsOwed(t))
============================================================================
