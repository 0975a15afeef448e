------------------------------ MODULE TaxLots ------------------------------
(***************************************************************************)
(* The tax engines of the two growth bots over a history of trades in one  *)
(* share: in_growth_bot/tax.py (first in, first out; short- and long-term  *)
(* gains) and uk_growth_bot/tax.py, whose copy is in_growth_bot/uk_tax.py  *)
(* (same day, thirty days, section 104 pool), with the two harvests that   *)
(* sell inside the yearly allowance (planner.py of each).                  *)
(*                                                                         *)
(* Time is coarse: Window days stand for thirty, Year days for a year.     *)
(* Charges are left out.  Money is in Parts of a unit, so that averages of *)
(* the few shares of a run stay whole.                                     *)
(***************************************************************************)
EXTENDS Integers, FiniteSets, FiniteSetsExt, Sequences

CONSTANTS
    Regimes,        \* the engines to run: subset of {"india", "uk"}
    Price,          \* share prices
    Allowance,      \* tax-free gains of a year
    Window,         \* BED_AND_BREAKFAST_DAYS
    Year,           \* days of a year
    MaxTrades,      \* bound: trades of a history
    MaxLot,         \* bound: shares of one trade
    LastDay         \* bound: days of a history

VARIABLES
    regime, today,
    trades,         \* the ledger's transactions of the share
    harvested       \* history: the harvest sold today, and how even the lots were

vars == <<regime, today, trades, harvested>>

Parts == 12
Days == 1 .. LastDay
InYear(d) == (d - 1) \div Year
Of(side, h) == {i \in DOMAIN h : h[i].side = side}
On(d, side, h) == {i \in Of(side, h) : h[i].day = d}
Total(f, S) == MapThenSumSet(LAMBDA x : f[x], S)
Shares(h, S) == Total([i \in S |-> h[i].qty], S)
Paid(h, S) == Total([i \in S |-> h[i].qty * h[i].price * Parts], S)
Held(h) == Shares(h, Of("BUY", h)) - Shares(h, Of("SELL", h))
SaleOf(d, n, p) == [day |-> d, side |-> "SELL", qty |-> n, price |-> p]

---------------------------------------------------------------------------
(* India: the oldest lot first.  A lot is a purchase and what is left of   *)
(* it.  Trades are replayed by day, the purchases of a day before its      *)
(* sales.                                                                  *)

IsLongTerm(bought, sold) == sold > bought + Year

Before(h, i, j) ==
    \/ h[i].day < h[j].day
    \/ h[i].day = h[j].day /\ h[i].side = h[j].side /\ i < j
    \/ h[i].day = h[j].day /\ h[i].side = "BUY" /\ h[j].side = "SELL"
Latest(h, S) == CHOOSE i \in S : \A j \in S : i = j \/ Before(h, j, i)

\* What is left of sale t against the lot i.
TakeLot(h, t, i, acc) ==
    LET n == Min({acc.left, acc.lots[i]})
        gain == n * (t.price - h[i].price) * Parts
        long == IsLongTerm(h[i].day, t.day)
    IN [left |-> acc.left - n,
        lots |-> [acc.lots EXCEPT ![i] = @ - n],
        lt |-> acc.lt + (IF long THEN gain ELSE 0),
        st |-> acc.st + (IF long THEN 0 ELSE gain)]

Unsold(t, lots) == [left |-> t.qty, lots |-> lots, lt |-> 0, st |-> 0]

\* Mutant: the newest lot goes first.
SellLotsNewest(h, lots, t) ==
    MapThenFoldSet(LAMBDA i, acc : TakeLot(h, t, i, acc), Unsold(t, lots), LAMBDA i : i,
                   LAMBDA S : CHOOSE i \in S : \A j \in S : i = j \/ Before(h, i, j),
                   {i \in DOMAIN lots : lots[i] > 0})

SellLots(h, lots, t) ==
    MapThenFoldSet(LAMBDA i, acc : TakeLot(h, t, i, acc), Unsold(t, lots), LAMBDA i : i,
                   LAMBDA S : Latest(h, S), {i \in DOMAIN lots : lots[i] > 0})

Replayed(h, i, acc) ==
    IF h[i].side = "BUY" THEN [acc EXCEPT !.lots[i] = h[i].qty]
    ELSE LET s == SellLots(h, acc.lots, h[i])
         IN [lots |-> s.lots, lt |-> [acc.lt EXCEPT ![i] = s.lt], st |-> [acc.st EXCEPT ![i] = s.st]]

Unplayed(h) == LET zero == [i \in DOMAIN h |-> 0] IN [lots |-> zero, lt |-> zero, st |-> zero]

\* What is left of every purchase, and the two gains of every sale.
Replay(h) ==
    MapThenFoldSet(LAMBDA i, acc : Replayed(h, i, acc), Unplayed(h), LAMBDA i : i,
                   LAMBDA S : Latest(h, S), DOMAIN h)

OpenLots(h) == Replay(h).lots
LongTermQty(h, d) ==
    Total(OpenLots(h), {i \in DOMAIN h : IsLongTerm(h[i].day, d)})

\* The last disposal of the history with the sale added.
EstimateSale(h, n, p, d) ==
    LET r == Replay(Append(h, SaleOf(d, n, p)))
    IN [lt |-> r.lt[Len(h) + 1], st |-> r.st[Len(h) + 1]]

YearSum(h, d, gains) ==
    Total(gains, {i \in Of("SELL", h) : InYear(h[i].day) = InYear(d)})

LtAfterSetoff(h, d) ==
    LET r == Replay(h) IN YearSum(h, d, r.lt) + Min({0, YearSum(h, d, r.st)})
ExemptionRemaining(h, d) == Max({0, Allowance * Parts - Max({0, LtAfterSetoff(h, d)})})

\* _harvest: all long-term shares, or the part of them that fits.
HarvestQty(h, p, d) ==
    LET n == LongTermQty(h, d)
        gain == EstimateSale(h, n, p, d).lt
        left == ExemptionRemaining(h, d)
    IN IF n = 0 \/ gain <= 0 THEN 0 ELSE IF gain <= left THEN n ELSE (n * left) \div gain

\* _sell: the tax of a sale, in tenths of a percent, is small beside its
\* proceeds: 20 and 12.5 percent, with 4 percent cess on top.
SmallTax(h, n, p, d) ==
    LET s == EstimateSale(h, n, p, d)
        beyond == Max({0, Max({0, s.lt}) - ExemptionRemaining(h, d)})
    IN 208 * Max({0, s.st}) + 130 * beyond <= 20 * n * p * Parts

---------------------------------------------------------------------------
(* UK: the purchases of a day are one lot, and so are its sales.  A sale   *)
(* is matched with the purchases of its day, then with those of the days   *)
(* that follow, and what is left goes through the pool.                    *)

DayLots(h) ==
    [bought |-> [d \in Days |-> Shares(h, On(d, "BUY", h))],
     sold   |-> [d \in Days |-> Shares(h, On(d, "SELL", h))],
     paid   |-> [d \in Days |-> Paid(h, On(d, "BUY", h))]]

Unit(m0, d) == IF m0.bought[d] = 0 THEN 0 ELSE m0.paid[d] \div m0.bought[d]

\* bought and sold are what is not matched yet, cost what the matches cost.
SameDay(m0) ==
    LET n == [d \in Days |-> Min({m0.bought[d], m0.sold[d]})]
    IN [bought |-> [d \in Days |-> m0.bought[d] - n[d]],
        sold   |-> [d \in Days |-> m0.sold[d] - n[d]],
        cost   |-> [d \in Days |-> n[d] * Unit(m0, d)]]

MatchDays(m0, e, m) ==
    LET s == e[1]
        b == e[2]
        n == Min({m.bought[b], m.sold[s]})
    IN [m EXCEPT !.bought[b] = @ - n, !.sold[s] = @ - n, !.cost[s] = @ + n * Unit(m0, b)]

\* Earliest disposal first, earliest acquisition first.
Pairs == {e \in Days \X Days : e[1] < e[2] /\ e[2] <= e[1] + Window}
LastPair(S) == CHOOSE e \in S : \A f \in S : f[1] < e[1] \/ (f[1] = e[1] /\ f[2] <= e[2])
ThirtyDays(m0, m1) ==
    MapThenFoldSet(LAMBDA e, m : MatchDays(m0, e, m), m1, LAMBDA e : e, LAMBDA S : LastPair(S), Pairs)

\* Purchases of a day before its sales.
PoolDay(m0, m, d, pool) ==
    LET qty == pool.qty + m.bought[d]
        cost == pool.cost + m.bought[d] * Unit(m0, d)
        n == Min({m.sold[d], qty})
        used == IF qty = 0 THEN 0 ELSE (cost * n) \div qty
    IN [qty |-> qty - n, cost |-> cost - used, used |-> [pool.used EXCEPT ![d] = used]]

EmptyPool == [qty |-> 0, cost |-> 0, used |-> [d \in Days |-> 0]]
Section104(m0, m) ==
    MapThenFoldSet(LAMBDA d, pool : PoolDay(m0, m, d, pool), EmptyPool, LAMBDA d : d, LAMBDA S : Max(S), Days)

\* disposals_for_symbol: the allowable cost of the sales of each day.
CostsOf(h) ==
    LET m0 == DayLots(h)
        m == ThirtyDays(m0, SameDay(m0))
        pool == Section104(m0, m)
    IN [d \in Days |-> m.cost[d] + pool.used[d]]
GainOf(h, d) == Paid(h, On(d, "SELL", h)) - CostsOf(h)[d]
CostsTotal(h) == Total(CostsOf(h), Days)

\* pool_cost_basis
PoolCost(h) == IF Held(h) = 0 THEN 0 ELSE Max({0, Paid(h, Of("BUY", h)) - CostsTotal(h)})

NetGains(h, d) ==
    LET costs == CostsOf(h)
    IN Total([e \in Days |-> Paid(h, On(e, "SELL", h)) - costs[e]], {e \in Days : InYear(e) = InYear(d)})

\* Mutant: gains already realised this year do not use the allowance up.
AllowanceFresh(h, d) == Allowance * Parts

AllowanceRemaining(h, d) == Max({0, Allowance * Parts - Max({0, NetGains(h, d)})})

RecentlySold(h, d) == \E i \in Of("SELL", h) : d - h[i].day \in 0 .. Window

\* _sell: the gain of the sale, as the matching rules give it, fits.
FitsAllowance(h, n, p, d) == GainOf(Append(h, SaleOf(d, n, p)), d) <= AllowanceRemaining(h, d)

\* _harvest: as many shares as the allowance takes at the average cost.
UkHarvestQty(h, p, d) ==
    LET perShare == IF Held(h) = 0 THEN 0 ELSE p * Parts - PoolCost(h) \div Held(h)
    IN IF perShare <= 0 THEN 0 ELSE Min({Held(h), AllowanceRemaining(h, d) \div perShare})

---------------------------------------------------------------------------
Init ==
    /\ regime \in Regimes /\ today = 1 /\ trades = <<>>
    /\ harvested = "no"

\* In the UK a share that was sold is blocked for thirty days.
Buy ==
    /\ Len(trades) < MaxTrades
    /\ regime = "uk" => ~RecentlySold(trades, today)
    /\ \E n \in 1 .. MaxLot, p \in Price :
         trades' = Append(trades, [day |-> today, side |-> "BUY", qty |-> n, price |-> p])
    /\ UNCHANGED <<regime, today, harvested>>

Sell ==
    /\ Len(trades) < MaxTrades /\ harvested = "no"
    /\ \E n \in 1 .. Min({MaxLot, Held(trades)}), p \in Price :
         trades' = Append(trades, SaleOf(today, n, p))
    /\ UNCHANGED <<regime, today, harvested>>

OnePrice(h, lots) == \A i, j \in DOMAIN lots : lots[i] > 0 /\ lots[j] > 0 => h[i].price = h[j].price

\* One sale of a share in a cycle.
Harvest ==
    /\ Len(trades) < MaxTrades /\ On(today, "SELL", trades) = {}
    /\ \E p \in Price :
         LET n == IF regime = "uk" THEN UkHarvestQty(trades, p, today) ELSE HarvestQty(trades, p, today)
         IN /\ n > 0
            /\ IF regime = "uk" THEN FitsAllowance(trades, n, p, today) ELSE SmallTax(trades, n, p, today)
            /\ trades' = Append(trades, SaleOf(today, n, p))
    /\ harvested' = IF regime = "uk" \/ OnePrice(trades, OpenLots(trades)) THEN "even" ELSE "uneven"
    /\ UNCHANGED <<regime, today>>

NextDay ==
    /\ today < LastDay
    /\ today' = today + 1 /\ harvested' = "no"
    /\ UNCHANGED <<regime, trades>>

Next == Buy \/ Sell \/ Harvest \/ NextDay
Spec == Init /\ [][Next]_vars

---------------------------------------------------------------------------
TypeOK ==
    /\ regime \in {"india", "uk"} /\ today \in Days /\ harvested \in {"no", "even", "uneven"}
    /\ trades \in Seq([day : Days, side : {"BUY", "SELL"}, qty : Nat \ {0}, price : Price])
    /\ Held(trades) >= 0

\* The first-in-first-out replay agrees with its definition share by share:
\* the k-th share sold is the k-th share bought.  So a sale has of each
\* purchase the shares whose numbers they have in common, and what is left
\* of a purchase are the numbers beyond those sold.
Prior(h, side, i) == Shares(h, {k \in Of(side, h) : k < i})
Numbers(h, i) == LET n == Prior(h, h[i].side, i) IN n + 1 .. n + h[i].qty
GainsOver(h, j, S) ==
    Total([i \in S |-> Cardinality(Numbers(h, i) \cap Numbers(h, j)) * (h[j].price - h[i].price) * Parts], S)
FifoIsShareByShare ==
    regime = "india" =>
        LET r == Replay(trades)
            bought == Of("BUY", trades)
            sold == 1 .. Shares(trades, Of("SELL", trades))
            long(j) == {i \in bought : IsLongTerm(trades[i].day, trades[j].day)}
        IN /\ \A j \in Of("SELL", trades) :
                /\ r.lt[j] = GainsOver(trades, j, long(j))
                /\ r.st[j] = GainsOver(trades, j, bought \ long(j))
           /\ \A i \in bought : r.lots[i] = Cardinality(Numbers(trades, i) \ sold)

\* A harvest leaves no tax to pay.  India trims it in proportion to the gain
\* of all long-term shares, which is right only if the lots cost the same.
HarvestIsTaxFree ==
    harvested = "even" =>
        Allowance * Parts >= IF regime = "uk" THEN NetGains(trades, today) ELSE LtAfterSetoff(trades, today)
============================================================================
