------------------------------ MODULE Blocklist ------------------------------
(***************************************************************************)
(* The live-accuracy blocklist of the vetting agent                        *)
(* (src/agents/vetting.py): every few minutes, and at every sale it hears  *)
(* of, a thread judges the recent sales of each symbol, writes an entry    *)
(* for the symbols that do badly and drops the entries whose time is over. *)
(* An entry made while the market is open has no such time, for            *)
(* next_open_time() then answers the empty string.  Threads are not        *)
(* serialised: each works from the sales and the list it read when it      *)
(* began.  One symbol is followed; a judgement of another reads and writes *)
(* other fields of the hash.                                               *)
(***************************************************************************)
EXTENDS SessionClock, Sequences

CONSTANTS WindowTrades,        \* accuracy_window_trades
          MinTrades,           \* min_trades_to_judge
          MinHits,             \* least wins per MinTrades that are not a bad rate
          StopsToBlock,        \* consecutive_stop_losses_to_block
          MaxSales,            \* bound
          MaxThreads           \* bound: monitors at work at once

VARIABLES sales,      \* the sales of the symbol, newest first
          entry,      \* its field of state blocklist, or Nothing
          monitor,    \* the monitors at work: what each read
          overlap     \* history: two monitors were at work at once

vars == <<day, time, sales, entry, monitor, overlap>>

Nothing == [reason |-> "none", until |-> 0]

Recent == SubSeq(sales, 1, IF Len(sales) < WindowTrades THEN Len(sales) ELSE WindowTrades)

Wins(window) == Cardinality({i \in DOMAIN window : window[i].how = "profit"})

\* Stops since the last sale of today that was not one, newest first.
StopsInARow(window) ==
  LET todays == SelectSeq(window, LAMBDA t : t.day = day)
      other == {i \in DOMAIN todays : todays[i].how # "stop"}
  IN IF other = {} THEN Len(todays) ELSE Min(other) - 1

\* The reason names the rate and the count, so a changed rate is a new reason.
Reason(window) ==
  IF Len(window) >= MinTrades /\ Wins(window) * MinTrades < MinHits * Len(window)
  THEN "hit_rate"
  ELSE IF StopsInARow(window) >= StopsToBlock THEN "stops" ELSE "none"

\* Mutant: an entry without an expiry counts as expired.
ExpiredOrOpenEnded(e) == e # Nothing /\ e.until <= Now
Expired(e) == e # Nothing /\ e.until # NoTime /\ e.until <= Now

\* A sale is recorded; ev:trade starts a monitor, or is lost.
Sell ==
  \E how \in {"profit", "stop"} :
    /\ IsMarketOpen
    /\ Len(sales) < MaxSales
    /\ sales' = <<[day |-> day, how |-> how]>> \o sales
    /\ UNCHANGED <<day, time, entry, monitor, overlap>>

\* The timer or the sale: read the trades, the clock and the list.
Judge ==
  /\ sales # <<>>
  /\ Cardinality(monitor) < MaxThreads
  /\ LET it == [reason |-> Reason(Recent), until |-> NextOpenTime, current |-> entry]
     IN /\ it \notin monitor
        /\ monitor' = monitor \cup {it}
  /\ overlap' = (overlap \/ monitor # {})
  /\ UNCHANGED <<day, time, sales, entry>>

\* hset for a bad record, then hdel for what it had read as expired; the entry
\* is spared when its reason is new.
Write ==
  \E m \in monitor :
    LET added == m.reason # "none" /\ m.current.reason # m.reason
        written == IF m.reason = "none" THEN entry ELSE [reason |-> m.reason, until |-> m.until]
    IN /\ monitor' = monitor \ {m}
       /\ entry' = IF Expired(m.current) /\ ~added THEN Nothing ELSE written
       /\ overlap' = (overlap /\ monitor' # {})
       /\ UNCHANGED <<day, time, sales>>

\* A monitor works for seconds: the clock does not pass a bell meanwhile.
TimePasses ==
  /\ PassTime
  /\ monitor = {}
  /\ UNCHANGED <<sales, entry, monitor, overlap>>

Init ==
  /\ ClockInit
  /\ sales = <<>> /\ entry = Nothing /\ monitor = {} /\ overlap = FALSE

Next == Sell \/ Judge \/ Write \/ TimePasses

Spec == Init /\ [][Next]_vars

TypeOK ==
  /\ ClockTypeOK
  /\ sales \in Seq([day : 1..LastDay, how : {"profit", "stop"}])
  /\ entry.reason \in {"none", "hit_rate", "stops"} /\ entry.until \in Nat
  /\ Cardinality(monitor) <= MaxThreads
  /\ overlap \in BOOLEAN

(* A symbol blocked during a session, which is what an entry without an    *)
(* expiry says, stays blocked until the session ends: only a monitor that  *)
(* overlapped another, and had read the entry of an earlier day, takes     *)
(* such an entry away.                                                     *)
BlockHolds ==
  entry # Nothing /\ entry.until = NoTime /\ IsMarketOpen /\ entry' = Nothing => overlap
SessionBlockHolds == [][BlockHolds]_vars

(* Why: unless two monitors overlapped, the one at work read the entry     *)
(* that is still there when it writes.                                     *)
ReadIsCurrent ==
  ~overlap => \A m \in monitor : m.current = entry /\ monitor = {m}
=============================================================================
