----------------------------- MODULE TradeLedger -----------------------------
(***************************************************************************)
(* The SELL rows of the trade log of one symbol: what portfolio_tracker.py *)
(* records of a sale, the net figure src/db.py keeps beside the gross one, *)
(* the migration every process runs when it opens the database, and        *)
(* backfill_pnl.py, run by hand beside the trader, which replaces recorded *)
(* prices by those of the broker's fills.  A fill and its row are joined   *)
(* by nothing but quantity and time.                                       *)
(***************************************************************************)
EXTENDS Integers, Sequences, FiniteSets

CONSTANTS Price, Qty,
          Cost,         \* what the position was bought at
          Gap,          \* least time from one sale to the next, a cooldown
          Delay,        \* a sale is recorded at most this late, by the next sync
          MaxSales, MaxCrashes   \* bounds

VARIABLES clock,
          fills,      \* filled SELL orders, as the broker lists them
          rows,       \* SELL rows of the table trades
          column,     \* the column pnl_net exists
          revision,   \* PRAGMA user_version is 2
          proc,       \* process -> where it is, what its migration will write
          plan,       \* corrections the backfill has still to apply
          overlap,    \* history: a correction came between a migration's read and write
          crashes

vars == <<clock, fills, rows, column, revision, proc, plan, overlap, crashes>>

Process == {"trader", "backfill"}
Down == [at |-> "down", nets |-> <<>>]
Up == [at |-> "up", nets |-> <<>>]
Unknown == <<>>

\* What a figure was computed from, and with which fees.
Net(schedule, pnl, notional) == <<schedule, pnl, notional>>
NoNet == <<>>

\* _net_pnl: fees of today's schedule, for a known gross figure only.
NetPnl(pnl, notional) == IF pnl = Unknown THEN NoNet ELSE Net("billed", pnl, notional)

Row(fill, price, pnl, net) ==
  [of |-> fill, qty |-> fills[fill].qty, price |-> price, pnl |-> pnl, net |-> net, at |-> clock]

-----------------------------------------------------------------------------
(* The trader. *)

Sale(qty, price) == Append(fills, [qty |-> qty, price |-> price, at |-> clock])

Recorded == {rows[i].of : i \in DOMAIN rows}
Unrecorded == {f \in DOMAIN fills : f \notin Recorded /\ clock <= fills[f].at + Delay}

SaleFills ==
  /\ proc["trader"] = Up
  /\ Len(fills) < MaxSales
  /\ fills = <<>> \/ clock >= fills[Len(fills)].at + Gap
  /\ \E q \in Qty, p \in Price : fills' = Sale(q, p)
  /\ UNCHANGED <<clock, rows, column, revision, proc, plan, overlap, crashes>>

\* update() finds the position gone: the price of the fill, or the cost of the
\* position when no fill is known; and the size the position had, of which the
\* last order perhaps sold only a part.
Insert ==
  \E f \in Unrecorded, known \in BOOLEAN, q \in Qty :
    LET price == IF known THEN fills[f].price ELSE Cost
        pnl == IF known THEN <<(fills[f].price - Cost) * q>> ELSE Unknown
        row == Row(f, price, pnl, NetPnl(pnl, q * price))
    IN /\ proc["trader"] = Up
       /\ q >= fills[f].qty
       /\ rows' = Append(rows, [row EXCEPT !.qty = q])
       /\ UNCHANGED <<clock, fills, column, revision, proc, plan, overlap, crashes>>

\* The next instant.  A sale that is not recorded by then stays out of the
\* log: its INSERT failed, or the trader was down.
Tick ==
  /\ fills # <<>> /\ clock < fills[Len(fills)].at + Gap
  /\ clock' = clock + 1
  /\ UNCHANGED <<fills, rows, column, revision, proc, plan, overlap, crashes>>

-----------------------------------------------------------------------------
(* Opening the database. *)

Current == revision

\* ALTER TABLE commits by itself; the rows are read before the transaction.
Open(p) ==
  /\ proc[p] = Down
  /\ column' = TRUE
  /\ proc' = [proc EXCEPT ![p] =
       IF Current THEN Up
       ELSE [at |-> "migrating",
             nets |-> [i \in DOMAIN rows |-> NetPnl(rows[i].pnl, rows[i].qty * rows[i].price)]]]
  /\ UNCHANGED <<clock, fills, rows, revision, plan, overlap, crashes>>

\* Every figure and the revision in one transaction; rows whose gross figure
\* is unknown are not touched.
Migrate(p) ==
  /\ proc[p].at = "migrating"
  /\ rows' = [i \in DOMAIN rows |->
               IF i \in DOMAIN proc[p].nets /\ proc[p].nets[i] # NoNet
               THEN [rows[i] EXCEPT !.net = proc[p].nets[i]] ELSE rows[i]]
  /\ revision' = TRUE
  /\ proc' = [proc EXCEPT ![p] = Up]
  /\ UNCHANGED <<clock, fills, column, plan, overlap, crashes>>

\* Anywhere: what was not committed is gone, and so is a plan.
Crash(p) ==
  /\ proc[p] # Down
  /\ crashes < MaxCrashes /\ crashes' = crashes + 1
  /\ proc' = [proc EXCEPT ![p] = Down]
  /\ plan' = IF p = "backfill" THEN {} ELSE plan
  /\ UNCHANGED <<clock, fills, rows, column, revision, overlap>>

-----------------------------------------------------------------------------
(* backfill_pnl.py --apply. *)

Distance(a, b) == IF a < b THEN b - a ELSE a - b

\* The fills of the row's quantity; of several, the one clearly nearest in time.
Matches(row) ==
  LET same == {f \in DOMAIN fills : fills[f].qty = row.qty}
  IN {f \in same : \A g \in same \ {f} :
        Distance(fills[f].at, row.at) + 1 < Distance(fills[g].at, row.at)}

\* plan_corrections: nothing is done where the price is right already.
Plan ==
  /\ proc["backfill"] = Up /\ plan = {}
  /\ plan' = {[row |-> i, fill |-> f] : i \in DOMAIN rows, f \in DOMAIN fills}
               \cap UNION {{[row |-> i, fill |-> f] : f \in
                              {g \in Matches(rows[i]) : fills[g].price # rows[i].price}}
                           : i \in DOMAIN rows}
  /\ plan' # {}
  /\ UNCHANGED <<clock, fills, rows, column, revision, proc, overlap, crashes>>

\* Mutant: the net figure of a corrected row stays what it was.
UpdatedGrossOnly(row, price) ==
  [row EXCEPT !.price = price, !.pnl = <<(price - Cost) * row.qty>>]

\* update_trade_price_pnl.
Updated(row, price) ==
  LET pnl == <<(price - Cost) * row.qty>>
  IN [row EXCEPT !.price = price, !.pnl = pnl, !.net = NetPnl(pnl, row.qty * price)]

Apply ==
  \E c \in plan :
    /\ plan' = plan \ {c}
    /\ rows' = [rows EXCEPT ![c.row] = Updated(@, fills[c.fill].price)]
    /\ overlap' = (overlap \/ \E p \in Process : proc[p].at = "migrating")
    /\ UNCHANGED <<clock, fills, column, revision, proc, crashes>>

-----------------------------------------------------------------------------
\* A database without the column, or with figures of an older schedule; one
\* sale in it, recorded at a quote and not at its fill.
Init ==
  /\ clock = 0
  /\ \E q \in Qty, p \in Price : fills = <<[qty |-> q, price |-> p, at |-> 0]>>
  /\ column \in BOOLEAN
  /\ \E quote \in Price :
       LET pnl == <<(quote - Cost) * fills[1].qty>>
       IN rows = <<Row(1, quote, pnl,
                       IF column THEN Net("older", pnl, fills[1].qty * quote) ELSE NoNet)>>
  /\ revision = FALSE
  /\ proc = [p \in Process |-> Down] /\ plan = {}
  /\ overlap = FALSE /\ crashes = 0

Next ==
  \/ SaleFills \/ Insert \/ Tick \/ Plan \/ Apply
  \/ \E p \in Process : Open(p) \/ Migrate(p) \/ Crash(p)

Spec == Init /\ [][Next]_vars

TypeOK ==
  /\ clock \in Nat /\ Len(fills) <= MaxSales
  /\ \A f \in DOMAIN fills : fills[f].qty \in Qty /\ fills[f].price \in Price
  /\ \A i \in DOMAIN rows : rows[i].of \in DOMAIN fills /\ rows[i].qty \in Qty
  /\ column \in BOOLEAN /\ revision \in BOOLEAN
  /\ \A p \in Process : proc[p].at \in {"down", "migrating", "up"}
  /\ \A c \in plan : c.row \in DOMAIN rows /\ c.fill \in DOMAIN fills
  /\ overlap \in BOOLEAN /\ crashes \in 0..MaxCrashes

(* Once any process has the database open, every known gross figure has a  *)
(* net figure, of the fees billed today and of the row's price as it is    *)
(* now, through crashes between the new column and its figures, two        *)
(* processes that migrate at once, and corrections; only a correction      *)
(* committed between a migration's read and its write is not counted.      *)
NetFollowsTheRow ==
  ~overlap /\ (\E p \in Process : proc[p] = Up) =>
    \A i \in DOMAIN rows : rows[i].net = NetPnl(rows[i].pnl, rows[i].qty * rows[i].price)

(* Why: nobody is up before the first figures are in; an open migration    *)
(* will write what the rows it read still ask for, and rows that came      *)
(* since were recorded with their figure.                                  *)
Figure == {NoNet} \cup ({"billed", "older"} \X Seq(Int) \X Int)
Fill == [qty : Qty, price : Price, at : Nat]
LedgerRow == [of : Nat, qty : Int, price : Int, pnl : Seq(Int), net : Figure, at : Nat]

LedgerTypeOK ==
  /\ clock \in Nat /\ fills \in Seq(Fill) /\ rows \in Seq(LedgerRow)
  /\ DOMAIN proc = Process
  /\ \A p \in Process : \A i \in DOMAIN proc[p].nets :
       i \in DOMAIN rows /\ proc[p].nets[i] \in Figure
  /\ \A c \in plan : c.fill \in DOMAIN fills

NetOf(row) == NetPnl(row.pnl, row.qty * row.price)
RightRow(i) == rows[i].net = NetOf(rows[i])

UnknownHasNoNet == \A i \in DOMAIN rows : rows[i].pnl = Unknown => rows[i].net = NoNet

UpIsMigrated == \A p \in Process : proc[p] = Up => revision

MigrationIsCurrent(p) ==
  \A i \in DOMAIN rows :
    IF i \in DOMAIN proc[p].nets THEN proc[p].nets[i] = NetOf(rows[i]) ELSE RightRow(i)

LedgerHolds ==
  /\ LedgerTypeOK /\ UpIsMigrated
  /\ ~overlap =>
       /\ UnknownHasNoNet
       /\ revision => \A i \in DOMAIN rows : RightRow(i)
       /\ \A p \in Process : proc[p].at = "migrating" => MigrationIsCurrent(p)
=============================================================================
