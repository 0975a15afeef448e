----------------------------- MODULE UkFunding -----------------------------
(***************************************************************************)
(* How the UK growth bot learns what money it has (uk_growth_bot/main.py,  *)
(* ledger.py, broker.py), under its three kinds of funding:                *)
(*   sim   the contributions are made up by the bot                        *)
(*   t212  Trading 212 lists deposits and dividends, with a reference      *)
(*   ibkr  what IBKR holds beyond the ledger is taken for a deposit        *)
(* and how its orders, whose outcome may stay unknown, get into the        *)
(* ledger.  Money is counted in units of a pound or more, the smallest     *)
(* difference the code looks at.                                           *)
(***************************************************************************)
EXTENDS Integers, FiniteSets, FiniteSetsExt

CONSTANTS
    Funding,        \* the kinds of funding to run
    OldMoney,       \* deposits too old for Trading 212's history (at most)
    MaxDeposits,    \* bound: deposits the owner makes
    MaxDays         \* bound: days of a run

VARIABLES
    funding,    \* settings.simulated_funding, settings.broker
    day, ran,   \* today, and whether "last_run" says so
    flows,      \* the table cash_flows: UNIQUE (day, kind, note)
    shares,     \* the table txns, as shares held
    marks,      \* the ledger's states "opened" and "initial_funded"
    bank,       \* the broker: cash, shares, what was paid in, paid and due
    at,         \* where the cycle is
    purse,      \* what this cycle may spend
    order,      \* the order at the broker
    informed,   \* history: this cycle read the balance and the list of deposits
    mishap      \* history: what went wrong

vars == <<funding, day, ran, flows, shares, marks, bank, at, purse, order, informed, mishap>>

NoOrder == [side |-> "none", open |-> FALSE, filled |-> FALSE]

Init ==
    /\ funding \in Funding
    /\ day = 1 /\ ran = FALSE /\ flows = {} /\ shares = 0 /\ marks = {}
    /\ \E old \in IF funding = "t212" THEN 0 .. OldMoney ELSE {0} :
         bank = [cash |-> old, shares |-> 0, old |-> old, paidIn |-> {}, ex |-> {}, paid |-> {}]
    /\ at = "idle" /\ purse = 0 /\ order = NoOrder /\ informed = FALSE /\ mishap = {}

---------------------------------------------------------------------------
(* The ledger.                                                             *)

Flow(d, kind, note, n) == [day |-> d, kind |-> kind, note |-> note, amount |-> n]

\* INSERT OR IGNORE: a second row of a day, kind and note is dropped.
Insert(rows, new) ==
    rows \cup {f \in new : ~\E g \in rows : g.day = f.day /\ g.kind = f.kind /\ g.note = f.note}

Amounts(rows) == MapThenSumSet(LAMBDA f : f.amount, rows)
CashOf(rows) == Amounts(rows) - shares
LedgerCash == CashOf(flows)
NetContributions == Amounts({f \in flows : f.kind # "dividend"})

---------------------------------------------------------------------------
(* The record step of run_cycle.                                           *)

Deposited == Cardinality(bank.paidIn) + bank.old
PaidDividends == {Flow(d, "dividend", "paid", 1) : d \in bank.paid}
Deposits == {Flow(d, "contribution", "ref", 1) : d \in bank.paidIn}

\* _record_dividends books by ex-date, for a holding of the ledger.
ExDividends == IF shares > 0 THEN {Flow(d, "dividend", "ex", 1) : d \in bank.ex} ELSE {}

\* _record_contributions, simulated: the initial sum and one due per month;
\* here every day is a month.
Simulated ==
    Insert(flows, {Flow(day, "contribution", "monthly", 1)}
                    \cup IF "funded" \in marks THEN {} ELSE {Flow(day, "contribution", "initial", 1)})

\* Trading 212: its list, then on the first run what the list does not explain.
Listed(listRead) == IF listRead THEN Insert(flows, Deposits \cup PaidDividends) ELSE flows

Opening(rows, cashRead) ==
    IF "opened" \notin marks /\ cashRead /\ shares = 0 /\ bank.cash > CashOf(rows)
    THEN {Flow(day, "contribution", "opening", bank.cash - CashOf(rows))} ELSE {}

\* Mutant: the dividends are booked after the cash was reconciled.
ReconciledFirst(cashRead) ==
    LET diff == bank.cash - LedgerCash
    IN Insert(flows, ExDividends \cup
         IF cashRead /\ diff # 0
         THEN {Flow(day, IF diff > 0 THEN "contribution" ELSE "withdrawal", "reconciled", diff)} ELSE {})

\* IBKR: the difference is a contribution or a withdrawal.
Reconciled(cashRead) ==
    LET rows == Insert(flows, ExDividends)
        diff == bank.cash - CashOf(rows)
    IN Insert(rows, IF cashRead /\ diff # 0
                    THEN {Flow(day, IF diff > 0 THEN "contribution" ELSE "withdrawal", "reconciled", diff)}
                    ELSE {})

\* The scheduled cycle of the day, or "run-once" by hand at any time.
StartCycle ==
    /\ at = "idle"
    /\ \/ ~ran /\ UNCHANGED mishap
       \/ ran /\ mishap' = mishap \cup {"twice"}
    /\ ran' = TRUE /\ at' = "record"
    /\ UNCHANGED <<funding, day, flows, shares, marks, bank, purse, order, informed>>

\* Not reachable, or no market data: nothing happens today.
SkipCycle ==
    /\ at = "record"
    /\ at' = "idle"
    /\ UNCHANGED <<funding, day, ran, flows, shares, marks, bank, purse, order, informed, mishap>>

RecordSimulated ==
    /\ at = "record" /\ funding = "sim"
    /\ flows' = Simulated
    /\ at' = "funded"
    /\ UNCHANGED <<funding, day, ran, shares, marks, bank, purse, order, informed, mishap>>

\* set_state("initial_funded") is a transaction of its own.
MarkFunded ==
    /\ at = "funded"
    /\ marks' = marks \cup {"funded"}
    /\ purse' = LedgerCash /\ at' = "trade"
    /\ UNCHANGED <<funding, day, ran, flows, shares, bank, order, informed, mishap>>

Blind(listRead, cashRead) ==
    IF "opened" \in marks THEN {}
    ELSE (IF ~listRead THEN {"unlisted"} ELSE {}) \cup (IF ~cashRead THEN {"unopened"} ELSE {})

\* The balance is read twice: to record, and to plan.  What cannot be read
\* is not spent.
Purse(rows, readable) ==
    IF readable THEN Min({CashOf(rows), bank.cash}) ELSE 0

RecordT212 ==
    /\ at = "record" /\ funding = "t212"
    /\ \E listRead, cashRead, again \in BOOLEAN :
         LET rows == Listed(listRead)
             new == rows \cup Opening(rows, cashRead)
         IN /\ flows' = new
            /\ purse' = Purse(new, again)
            /\ mishap' = mishap \cup Blind(listRead, cashRead)
            /\ informed' = (listRead /\ cashRead)
    /\ marks' = marks \cup {"opened"}
    /\ at' = "trade"
    /\ UNCHANGED <<funding, day, ran, shares, bank, order>>

RecordIbkr ==
    /\ at = "record" /\ funding = "ibkr"
    /\ \E cashRead, again \in BOOLEAN :
         /\ flows' = Reconciled(cashRead)
         /\ purse' = Purse(Reconciled(cashRead), again)
         /\ informed' = cashRead
    /\ at' = "trade"
    /\ UNCHANGED <<funding, day, ran, shares, marks, bank, order, mishap>>

---------------------------------------------------------------------------
(* Orders.  A market order is never sent again when its outcome is         *)
(* unknown; it is looked for, and otherwise left alone.                    *)

SendBuy ==
    /\ at = "trade" /\ purse > 0 /\ order = NoOrder
    /\ purse' = purse - 1
    /\ order' = [side |-> "BUY", open |-> TRUE, filled |-> FALSE]
    /\ at' = "sent"
    /\ UNCHANGED <<funding, day, ran, flows, shares, marks, bank, informed, mishap>>

\* execute() refuses to sell what the broker does not show.
SendSell ==
    /\ at = "trade" /\ order = NoOrder /\ shares > 0 /\ bank.shares > 0
    /\ order' = [side |-> "SELL", open |-> TRUE, filled |-> FALSE]
    /\ at' = "sent"
    /\ UNCHANGED <<funding, day, ran, flows, shares, marks, bank, purse, informed, mishap>>

Fills ==
    /\ order.open
    /\ IF at = "sent" THEN order' = [order EXCEPT !.open = FALSE, !.filled = TRUE] /\ UNCHANGED mishap
                      ELSE order' = NoOrder /\ mishap' = mishap \cup {"missed"}
    /\ IF funding = "sim" THEN UNCHANGED bank
       ELSE IF order.side = "BUY"
       THEN bank.cash > 0 /\ bank' = [bank EXCEPT !.cash = @ - 1, !.shares = @ + 1]
       ELSE bank' = [bank EXCEPT !.cash = @ + 1, !.shares = @ - 1]
    /\ UNCHANGED <<funding, day, ran, flows, shares, marks, at, purse, informed>>

Rejected ==
    /\ order.open /\ funding # "sim"
    /\ order' = IF at = "sent" THEN [order EXCEPT !.open = FALSE] ELSE NoOrder
    /\ UNCHANGED <<funding, day, ran, flows, shares, marks, bank, at, purse, informed, mishap>>

\* _await_fill returns a fill, or a final refusal.
Answered ==
    /\ at = "sent" /\ ~order.open
    /\ shares' = IF ~order.filled THEN shares
                 ELSE IF order.side = "BUY" THEN shares + 1 ELSE shares - 1
    /\ order' = NoOrder /\ at' = "trade"
    /\ UNCHANGED <<funding, day, ran, flows, marks, bank, purse, informed, mishap>>

\* No answer and not found, still pending after five minutes, or filled and
\* not in the history yet: "re-planned next run".
Unanswered ==
    /\ at = "sent" /\ funding # "sim"
    /\ at' = "trade" /\ purse' = 0
    /\ IF order.open THEN UNCHANGED <<order, mishap>>
       ELSE order' = NoOrder /\ mishap' = mishap \cup (IF order.filled THEN {"missed"} ELSE {})
    /\ UNCHANGED <<funding, day, ran, flows, shares, marks, bank, informed>>

EndCycle ==
    /\ at = "trade"
    /\ at' = "idle" /\ purse' = 0 /\ informed' = FALSE
    /\ UNCHANGED <<funding, day, ran, flows, shares, marks, bank, order, mishap>>

\* The process dies, or loop() logs an exception; not tried again today.
Dies ==
    /\ at # "idle"
    /\ at' = "idle" /\ purse' = 0 /\ informed' = FALSE
    /\ mishap' = mishap \cup (IF at = "sent" /\ order.filled THEN {"missed"} ELSE {})
    /\ order' = IF order.open THEN order ELSE NoOrder
    /\ UNCHANGED <<funding, day, ran, flows, shares, marks, bank>>

---------------------------------------------------------------------------
(* The world.                                                              *)

NextDay ==
    /\ at = "idle" /\ ran /\ day < MaxDays /\ order = NoOrder
    /\ day' = day + 1 /\ ran' = FALSE
    /\ UNCHANGED <<funding, flows, shares, marks, bank, at, purse, order, informed, mishap>>

Deposit ==
    /\ funding # "sim" /\ Cardinality(bank.paidIn) < MaxDeposits /\ day \notin bank.paidIn
    /\ bank' = [bank EXCEPT !.paidIn = @ \cup {day}, !.cash = @ + 1]
    /\ UNCHANGED <<funding, day, ran, flows, shares, marks, at, purse, order, informed, mishap>>

\* A share goes ex-dividend while the bot holds it: one dividend of a run.
GoesEx ==
    /\ funding # "sim" /\ bank.ex = {} /\ bank.shares > 0 /\ shares > 0 /\ at = "idle" /\ ~ran
    /\ bank' = [bank EXCEPT !.ex = {day}]
    /\ UNCHANGED <<funding, day, ran, flows, shares, marks, at, purse, order, informed, mishap>>

DividendPaid ==
    /\ bank.paid = {} /\ \E d \in bank.ex : d < day
    /\ bank' = [bank EXCEPT !.paid = {day}, !.cash = @ + 1]
    /\ UNCHANGED <<funding, day, ran, flows, shares, marks, at, purse, order, informed, mishap>>

Next ==
    \/ StartCycle \/ SkipCycle \/ RecordSimulated \/ MarkFunded \/ RecordT212 \/ RecordIbkr
    \/ SendBuy \/ SendSell \/ Fills \/ Rejected \/ Answered \/ Unanswered
    \/ EndCycle \/ Dies \/ NextDay \/ Deposit \/ GoesEx \/ DividendPaid

Spec == Init /\ [][Next]_vars

---------------------------------------------------------------------------

TypeOK ==
    /\ funding \in {"sim", "t212", "ibkr"} /\ day \in 1 .. MaxDays /\ ran \in BOOLEAN
    /\ \A f \in flows : f.day \in 1 .. MaxDays /\ f.amount \in Int
    /\ \A f, g \in flows : f.day = g.day /\ f.kind = g.kind /\ f.note = g.note => f = g
    /\ shares \in Nat /\ purse \in Int /\ bank.cash \in Nat /\ bank.shares \in Nat
    /\ at \in {"idle", "record", "funded", "trade", "sent"}
    /\ (at = "sent" => order # NoOrder) /\ marks \subseteq {"opened", "funded"}

(* What the argument for BooksExplain rests on: dates and amounts;         *)
LedgerInOrder ==
    /\ day \in Nat /\ shares \in Int /\ IsFiniteSet(flows)
    /\ \A f \in flows : f.amount \in Int /\ f.day \in 0 .. day

(* the balance, every share bought for one unit of it;                     *)
BankAddsUp ==
    /\ bank \in [cash : Int, shares : Int, old : Nat, paidIn : SUBSET (0 .. day),
                 ex : SUBSET (0 .. day), paid : SUBSET (0 .. day)]
    /\ bank.cash + bank.shares = bank.old + Cardinality(bank.paidIn) + Cardinality(bank.paid)

(* a cycle of today and its order, and the shares it has yet to enter;     *)
CycleInOrder ==
    /\ at # "idle" => ran
    /\ order \in [side : {"none", "BUY", "SELL"}, open : BOOLEAN, filled : BOOLEAN]
    /\ ~(order.open /\ order.filled)

Unbooked == IF at = "sent" /\ order.filled THEN (IF order.side = "BUY" THEN 1 ELSE -1) ELSE 0
FillsAreBooked ==
    funding # "sim" /\ "missed" \notin mishap => bank.shares = shares + Unbooked

(* IBKR: the first cycle of a day finds no difference booked today;        *)
ReconciledLater ==
    (at = "idle" /\ ~ran) \/ (at = "record" /\ "twice" \notin mishap) =>
      \A f \in flows : f.note = "reconciled" => f.day # day

(* Trading 212: nothing happens before the account is opened, and then     *)
(* its list and the opening balance are all there is.                      *)
IdleUntilOpened ==
    funding = "t212" /\ "opened" \notin marks =>
      /\ at \in {"idle", "record"} /\ order = NoOrder /\ flows = {}
      /\ shares = 0 /\ bank.shares = 0 /\ bank.ex = {} /\ bank.paid = {}

Opened == {f \in flows : f.note = "opening"}
ListExplains ==
    funding = "t212" /\ "opened" \in marks /\ mishap \cap {"unlisted", "unopened"} = {} =>
      /\ flows \ Opened \subseteq Deposits \cup PaidDividends
      /\ Amounts(Opened) = bank.old

FundingInv ==
    /\ LedgerInOrder /\ BankAddsUp /\ CycleInOrder /\ FillsAreBooked
    /\ ReconciledLater /\ IdleUntilOpened /\ ListExplains

Excuses == IF funding = "ibkr" THEN {"twice"} ELSE {"unlisted", "unopened", "missed"}

\* Once the broker's figures of a cycle are in, the ledger explains the whole
\* balance, dividends of every kind of broker included.
BooksExplain == informed' /\ ~informed /\ mishap' \cap Excuses = {} => CashOf(flows)' = bank.cash
BooksExplainTheBalance == [][BooksExplain]_vars
============================================================================
