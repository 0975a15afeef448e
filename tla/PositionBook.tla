---------------------------- MODULE PositionBook ----------------------------
(***************************************************************************)
(* portfolio_tracker.py: the agent's book of open positions and how        *)
(* update() reconciles it with a broker snapshot that may be partial.      *)
(* Shares are whole; prices matter here only as evidence that a sale took  *)
(* place.  The live path is modelled (the simulated one has no broker).    *)
(***************************************************************************)
EXTENDS Integers

CONSTANTS Symbols,
          MaxQty,       \* bound: shares of one symbol the account may hold
          CloseGrace    \* _SYNC_CLOSE_GRACE

ASSUME BookAssumption == MaxQty \in Nat \ {0} /\ CloseGrace \in Nat \ {0}

VARIABLES stage,        \* "start" = _is_first_update, then "asleep" before the open,
                        \* then "scanning"
          book,         \* open_positions: quantity, 0 = no entry
          reason,       \* symbols in pending_reasons
          fill,         \* symbols in pending_fill_prices
          missing,      \* _missing_syncs
          settled,      \* the broker's holdings()
          today,        \* the broker's net positions() of the day; a sale of holdings is negative
          soldToday     \* symbols with a COMPLETE SELL in today's order book

memory == <<stage, book, reason, fill, missing>>
account == <<settled, today, soldToday>>

Stages == {"start", "asleep", "scanning"}

NonNegative(n) == IF n >= 0 THEN n ELSE 0
Smaller(a, b) == IF a <= b THEN a ELSE b

Held(s) == NonNegative(settled[s] + today[s])

\* get_positions: holdings() failing is caught and leaves only the day's net
\* positions in the snapshot.
Snapshot(holdingsOk) ==
  [s \in Symbols |-> NonNegative((IF holdingsOk THEN settled[s] ELSE 0) + today[s])]

BookInit ==
  /\ stage = "start" /\ book = [s \in Symbols |-> 0]
  /\ reason = {} /\ fill = {} /\ missing = [s \in Symbols |-> 0]

AccountInit ==
  /\ settled \in [Symbols -> 0..MaxQty]
  /\ today = [s \in Symbols |-> 0] /\ soldToday = {}

-----------------------------------------------------------------------------
(* update(): the cases of one symbol. *)

\* A fill of ours, a completed SELL of today, or any pending reason.
Evidence(s) == s \in fill \/ s \in soldToday \/ s \in reason

Vanished(s, snap) == book[s] > 0 /\ snap[s] = 0
Present(s, snap) == book[s] > 0 /\ snap[s] > 0

\* Mutant: the grace is one snapshot too long.
DefersLonger(s, snap) == Vanished(s, snap) /\ ~Evidence(s) /\ missing[s] + 1 <= CloseGrace

Defers(s, snap) == Vanished(s, snap) /\ ~Evidence(s) /\ missing[s] + 1 < CloseGrace
Closes(s, snap) == Vanished(s, snap) /\ ~Defers(s, snap)
Grows(s, snap) == Present(s, snap) /\ snap[s] > book[s]
Appears(s, snap) == book[s] = 0 /\ snap[s] > 0

\* Mutant: the streak survives a snapshot that shows the position again.
MissingNeverCleared(s, snap) ==
  IF Defers(s, snap) THEN missing[s] + 1
  ELSE IF Closes(s, snap) THEN 0 ELSE missing[s]

\* Mutant: a miss is not counted.
MissingNotCounted(s, snap) ==
  IF Defers(s, snap) THEN missing[s] ELSE IF book[s] > 0 THEN 0 ELSE missing[s]

MissingAfter(s, snap) ==
  IF Defers(s, snap) THEN missing[s] + 1
  ELSE IF book[s] > 0 THEN 0 ELSE missing[s]

\* The first snapshot after a start is adopted as it is ...
AdoptBook(snap) ==
  /\ stage = "start" /\ stage' = "asleep"
  /\ book' = snap
  /\ UNCHANGED <<reason, fill, missing>>

\* ... every later one is compared with the book.
ReconcileBook(snap) ==
  /\ stage # "start" /\ stage' = "scanning"
  /\ book' = [s \in Symbols |-> IF Defers(s, snap) THEN book[s] ELSE snap[s]]
  /\ reason' = {s \in reason : ~Closes(s, snap) /\ ~Grows(s, snap) /\ ~Appears(s, snap)}
  /\ fill' = {s \in fill : ~Vanished(s, snap)}
  /\ missing' = [s \in Symbols |-> MissingAfter(s, snap)]

-----------------------------------------------------------------------------
(* The trader's calls, after the broker has accepted an order. *)

\* set_pending_reason; "with" when close_position caught the fill price.
SetPendingReason(s, with) ==
  /\ reason' = reason \cup {s}
  /\ fill' = IF with THEN fill \cup {s} ELSE fill \ {s}
  /\ UNCHANGED <<stage, book, missing>>

\* A new process: nothing of the book is kept.
ForgetBook ==
  /\ stage' = "start" /\ book' = [s \in Symbols |-> 0]
  /\ reason' = {} /\ fill' = {} /\ missing' = [s \in Symbols |-> 0]

-----------------------------------------------------------------------------
(* The broker. *)

\* A SELL of q shares, wholly or partly filled; only a whole one is COMPLETE.
Sold(s, q, complete) ==
  /\ today' = [today EXCEPT ![s] = @ - q]
  /\ soldToday' = IF complete THEN soldToday \cup {s} ELSE soldToday
  /\ UNCHANGED settled

Bought(s, q) ==
  /\ today' = [today EXCEPT ![s] = @ + q]
  /\ UNCHANGED <<settled, soldToday>>

\* Overnight the day's trades settle and the order book starts empty.
Settled ==
  /\ settled' = [s \in Symbols |-> Held(s)]
  /\ today' = [s \in Symbols |-> 0] /\ soldToday' = {}

BookTypeOK ==
  /\ stage \in Stages /\ book \in [Symbols -> Nat]
  /\ reason \in SUBSET Symbols /\ fill \in SUBSET Symbols
  /\ missing \in [Symbols -> 0..CloseGrace - 1]
  /\ settled \in [Symbols -> Nat] /\ today \in [Symbols -> Int]
  /\ soldToday \in SUBSET Symbols
=============================================================================
