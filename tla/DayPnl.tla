------------------------------- MODULE DayPnl -------------------------------
(***************************************************************************)
(* The day's profit in three places: the equity of the Alpaca account, the *)
(* DailyPnL the connector reports after taking out the money that came in  *)
(* or went out (src/alpaca_connector.py), and the SELL rows of the trade   *)
(* log, which the tracker compares with it at each sync and warns about    *)
(* (src/portfolio_tracker.py).  One share of one symbol is traded; another *)
(* agent of the account may hold the symbol the connector hides.  Fees of  *)
(* trading are within the tolerance of the comparison and are left out,    *)
(* and so are the syncs a missing symbol is given before its sale is       *)
(* recorded: it stays in the book until then.                              *)
(***************************************************************************)
EXTENDS Integers

CONSTANTS Price, Amount,               \* prices, and the sums that come in or go out
          MaxPnl, MaxMoney, MaxUnknown \* bounds

VARIABLES evening,         \* the last equity is taken, the date has not changed
          first,           \* the account has no last equity yet
          price,
          cost, overnight, \* the share held: what it cost, and if it is of an earlier day
          fill,            \* the price of the latest sale
          change,          \* of equity since the last one, but for money moved
          moved, dated,    \* money moved since the last equity; money dated today
          cache,           \* _transfers_amount of today, <<>> before a lookup worked
          summary,         \* what the running update() was given; Idle between syncs
          book,            \* open_positions: the cost of the share, None without one
          adopting,        \* _is_first_update
          recorded, unknown,   \* today's SELL rows: their P&L, and how many have none
          alarm,           \* the comparison just made warned
          wrong,           \* history: a sale of today is missing, or has another price
          outside,         \* history: a share of an earlier day was sold today, the hidden
                           \* symbol moved, money moved after the lookup or last evening
          torn             \* history: this update() is without the lookup or the positions,
                           \* or the price moved inside it

account == <<evening, first, price, cost, overnight, fill, change, moved, dated>>
tracker == <<book, adopting, recorded, unknown, alarm>>
history == <<wrong, outside, torn>>
vars == <<account, cache, summary, tracker, history>>

None == 0
Idle == [at |-> "idle", pnl |-> 0]
Empty == [at |-> "empty", pnl |-> 0]

Session == ~evening
Holds == cost # None

PriceMoves ==
  /\ Session
  /\ \E p \in Price \ {price} :
       /\ price' = p
       /\ change' = IF Holds THEN change + p - price ELSE change
       /\ torn' = (torn \/ (summary # Idle /\ Holds))
  /\ change' \in -MaxPnl..MaxPnl
  /\ UNCHANGED <<evening, first, cost, overnight, fill, moved, dated, cache, summary, tracker,
                 wrong, outside>>

\* The hidden symbol: get_positions() leaves it out, the equity does not.
FlowMoves ==
  /\ Session
  /\ change' \in {change - 1, change + 1} \cap -MaxPnl..MaxPnl
  /\ outside' = TRUE
  /\ UNCHANGED <<evening, first, price, cost, overnight, fill, moved, dated, cache, summary,
                 tracker, wrong, torn>>

\* A sale that is still to be recorded when the next share is bought stays out
\* of the log: the symbol was never seen to be gone.
Pending == ~Holds /\ book # None

BuyFills ==
  /\ Session /\ ~Holds
  /\ cost' = price /\ overnight' = FALSE
  /\ wrong' = (wrong \/ Pending)
  /\ UNCHANGED <<evening, first, price, fill, change, moved, dated, cache, summary, tracker,
                 outside, torn>>

\* A sale the book does not know of is recorded by nobody, nor is one of a
\* share bought and sold between two syncs.
SellFills ==
  /\ Session /\ Holds
  /\ cost' = None /\ overnight' = FALSE /\ fill' = price
  /\ outside' = (outside \/ overnight)
  /\ wrong' = (wrong \/ book # cost \/ adopting)
  /\ UNCHANGED <<evening, first, price, change, moved, dated, cache, summary, tracker, torn>>

\* A deposit, a withdrawal, or the fee of one.
MoneyMoves ==
  /\ \E a \in Amount :
       /\ moved + a \in -MaxMoney..MaxMoney /\ dated + a \in -MaxMoney..MaxMoney
       /\ moved' = moved + a /\ dated' = dated + a
  /\ outside' = (outside \/ cache # <<>> \/ summary # Idle)
  /\ UNCHANGED <<evening, first, price, cost, overnight, fill, change, cache, summary, tracker,
                 wrong, torn>>

-----------------------------------------------------------------------------
\* Mutant: an answer that did not come is remembered as one.
LookupRemembered(found) == IF cache # <<>> THEN cache ELSE <<IF found THEN dated ELSE 0>>

\* net_cash_transfers_today(): cached for the day once the lookup has worked.
Lookup(found) ==
  IF cache # <<>> THEN cache ELSE IF found THEN <<dated>> ELSE <<>>

\* get_account_summary(), the first of update()'s two calls.
Summary ==
  /\ Session /\ summary = Idle
  /\ \/ /\ summary' = Empty /\ torn' = FALSE
        /\ UNCHANGED cache
     \/ \E found \in BOOLEAN :
          LET known == Lookup(found)
              stripped == IF known = <<>> THEN 0 ELSE known[1]
          IN /\ summary' = [at |-> "known",
                            pnl |-> (IF first THEN 0 ELSE change + moved) - stripped]
             /\ cache' = known
             /\ torn' = (cache = <<>> /\ ~found)
  /\ alarm' = FALSE
  /\ UNCHANGED <<account, book, adopting, recorded, unknown, wrong, outside>>

\* _reconcile_daily_pnl: with a summary, and flat.
Warns(s, profit, n) ==
  s.at = "known" /\ book' = None /\ (n > 0 \/ profit # s.pnl)

\* The rows of what is gone: at no price, at the right one, or at a wrong one.
RecordSale ==
  \/ /\ unknown < MaxUnknown /\ unknown' = unknown + 1
     /\ UNCHANGED <<recorded, wrong>>
  \/ \E p \in Price :
       /\ recorded' = recorded + p - book
       /\ recorded' \in -MaxPnl..MaxPnl
       /\ wrong' = (wrong \/ p # fill)
       /\ UNCHANGED unknown

\* The positions, what they say was sold, and the comparison.  Without
\* positions the book stays as it is.
Positions ==
  /\ summary # Idle
  /\ summary' = Idle
  /\ \/ /\ book' = cost /\ adopting' = FALSE
        /\ IF ~adopting /\ Pending THEN RecordSale
           ELSE UNCHANGED <<recorded, unknown, wrong>>
        /\ UNCHANGED torn
     \/ /\ torn' = TRUE
        /\ UNCHANGED <<book, adopting, recorded, unknown, wrong>>
  /\ alarm' = Warns(summary, recorded', unknown')
  /\ UNCHANGED <<account, cache, outside>>

\* A new process: new connector, empty book.
Restart ==
  /\ ~adopting
  /\ cache' = <<>> /\ summary' = Idle
  /\ book' = None /\ adopting' = TRUE /\ alarm' = FALSE
  /\ wrong' = (wrong \/ Pending)
  /\ UNCHANGED <<account, recorded, unknown, outside, torn>>

\* The last equity is taken at the close; the date changes hours later.
Close ==
  /\ Session /\ summary = Idle
  /\ evening' = TRUE /\ first' = FALSE
  /\ change' = 0 /\ moved' = 0 /\ alarm' = FALSE
  /\ UNCHANGED <<price, cost, overnight, fill, dated, cache, summary, book, adopting, recorded,
                 unknown, history>>

\* A trader that is still up starts the day with yesterday's book.
NextDay ==
  /\ evening
  /\ evening' = FALSE
  /\ overnight' = Holds
  /\ dated' = 0 /\ cache' = <<>>
  /\ recorded' = 0 /\ unknown' = 0
  /\ wrong' = Pending /\ outside' = (moved # 0)
  /\ UNCHANGED <<first, price, cost, fill, change, moved, summary, book, adopting, alarm, torn>>

Init ==
  /\ evening = FALSE /\ first \in BOOLEAN
  /\ price \in Price /\ cost = None /\ overnight = FALSE /\ fill = None
  /\ change = 0 /\ moved = 0 /\ dated = 0
  /\ cache = <<>> /\ summary = Idle
  /\ book = None /\ adopting = TRUE /\ recorded = 0 /\ unknown = 0 /\ alarm = FALSE
  /\ wrong = FALSE /\ outside = FALSE /\ torn = FALSE

Next ==
  \/ PriceMoves \/ FlowMoves \/ BuyFills \/ SellFills \/ MoneyMoves
  \/ Summary \/ Positions \/ Restart \/ Close \/ NextDay

Spec == Init /\ [][Next]_vars

TypeOK ==
  /\ price \in Price /\ {cost, book, fill} \subseteq Price \cup {None}
  /\ {change, recorded} \subseteq -MaxPnl..MaxPnl
  /\ {moved, dated} \subseteq -MaxMoney..MaxMoney
  /\ summary.at \in {"idle", "empty", "known"}
  /\ unknown \in 0..MaxUnknown
  /\ {evening, first, overnight, adopting, alarm, wrong, outside, torn} \subseteq BOOLEAN

(* "Divergence when flat means the trade log is mis-recording exits": the  *)
(* warning speaks of a close without its real price or a sale that was not *)
(* recorded, whatever deposits, failed calls and restarts there were, but  *)
(* for what the code cannot tell from it: a change of equity of another    *)
(* day or another agent, a sync of which one call failed or met a price in *)
(* motion, and the first day of an account.                                *)
AlarmMeansMisrecording == alarm => unknown > 0 \/ wrong \/ outside \/ torn \/ first

(* Why: until something of that happens, the change of equity is what the  *)
(* log has, and the gains of the share still held and of the sale still to *)
(* be recorded; the money moved is the money dated today; and what a sync  *)
(* was told is still so when it compares.                                  *)
Gained == IF Holds THEN price - cost ELSE IF Pending THEN fill - book ELSE 0

Figures ==
  /\ price \in Price /\ {cost, fill, book} \subseteq Price \cup {None} /\ unknown \in Nat
  /\ {change, recorded, moved, dated} \subseteq Int
  /\ (adopting => book = None) /\ (overnight => Holds)

EveningIsQuiet == evening => change = 0 /\ summary = Idle /\ ~alarm
TransfersAreDated ==
  ~outside => (~evening => moved = dated) /\ (cache # <<>> => cache = <<dated>>)
SummaryIsCurrent ==
  ~outside /\ ~torn /\ ~first /\ summary.at = "known" => summary.pnl = change
GainsAreRecorded ==
  ~outside /\ ~wrong /\ ~evening /\ ~overnight /\ unknown = 0 => change = recorded + Gained

DayIsAccounted ==
  /\ Figures /\ EveningIsQuiet /\ TransfersAreDated /\ SummaryIsCurrent /\ GainsAreRecorded
  /\ AlarmMeansMisrecording
=============================================================================
