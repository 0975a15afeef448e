---------------------------- MODULE ExitProtocol ----------------------------
(***************************************************************************)
(* How the threads of agents/trader.py close a position: the scan loop     *)
(* ("main") and the broker's websocket callback ("ws") share the book of   *)
(* PositionBook, the trackers of the executor, a lock and the `_exiting`   *)
(* set, and talk to the broker outside the lock.  When a price triggers is *)
(* left open: any check of a tracked position may.                         *)
(***************************************************************************)
EXTENDS PositionBook

CONSTANTS NoSymbol,
          MaxWorking    \* bound: shares of one symbol in unfilled SELL orders

ASSUME ExitAssumption == NoSymbol \notin Symbols /\ MaxWorking \in Nat \ {0}

VARIABLES tracked,    \* symbols with an entry in _open_orders
          exiting,    \* _exiting
          lock,       \* _positions_lock: the thread in update(), or "free"
          snap,       \* the snapshot update() is working on
          call,       \* what each thread is in the middle of
          working     \* shares in accepted SELL orders that have not filled

threads == <<tracked, exiting, lock, snap, call>>
vars == <<memory, account, threads, working>>

Threads == {"main", "ws"}

\* Where a thread stands: before get_positions and before place_order of
\* place_market_order, waiting for the fill, before set_pending_reason, in
\* the finally, before the BUY of an add, inside the locked sync.
Points == {"idle", "guard", "order", "poll", "note", "release", "add", "sync"}

Idle == [at |-> "idle", sym |-> NoSymbol, qty |-> 0, claimed |-> FALSE, caught |-> FALSE]

At(t, p) == call[t].at = p

Goto(t, p) == call' = [call EXCEPT ![t].at = p]

\* Back to the caller: through the finally when the exit was claimed.
Return(t) == IF call[t].claimed THEN Goto(t, "release") ELSE call' = [call EXCEPT ![t] = Idle]

Init ==
  /\ BookInit /\ AccountInit
  /\ tracked = {} /\ exiting = {} /\ lock = "free"
  /\ snap = [s \in Symbols |-> 0]
  /\ call = [t \in Threads |-> Idle]
  /\ working = [s \in Symbols |-> 0]

-----------------------------------------------------------------------------
(* A claimed exit: fast_exit_check on "ws", step 6 of _process_symbol on   *)
(* "main".                                                                 *)

\* Mutant: the claim of the other thread is not looked at.
ClaimUnchecked(t, s) ==
  /\ At(t, "idle") /\ lock = "free" /\ (t = "main" => stage = "scanning")
  /\ book[s] > 0 /\ s \in tracked
  /\ tracked' = tracked \ {s}
  /\ exiting' = exiting \cup {s}
  /\ call' = [call EXCEPT ![t] =
       [at |-> "guard", sym |-> s, qty |-> book[s], claimed |-> TRUE, caught |-> FALSE]]
  /\ UNCHANGED <<memory, account, lock, snap, working>>

\* Under the lock: held, nobody is exiting it, and check_exit_conditions
\* gives a reason, which pops the tracker.
Claim(t, s) ==
  /\ At(t, "idle") /\ lock = "free" /\ (t = "main" => stage = "scanning")
  /\ book[s] > 0 /\ s \notin exiting /\ s \in tracked
  /\ tracked' = tracked \ {s}
  /\ exiting' = exiting \cup {s}
  /\ call' = [call EXCEPT ![t] =
       [at |-> "guard", sym |-> s, qty |-> book[s], claimed |-> TRUE, caught |-> FALSE]]
  /\ UNCHANGED <<memory, account, lock, snap, working>>

\* The morning gap check, the EOD and shutdown close and the pre-market dump
\* close without lock or claim; so does a SELL signal, for what the broker holds.
CloseDirectly(s, q) ==
  /\ At("main", "idle") /\ book[s] > 0
  /\ q \in {book[s], Held(s)} \ {0}
  /\ call' = [call EXCEPT !["main"] =
       [at |-> "guard", sym |-> s, qty |-> q, claimed |-> FALSE, caught |-> FALSE]]
  /\ UNCHANGED <<memory, account, tracked, exiting, lock, snap, working>>

\* execute(SELL) that finds nothing at the broker clears the tracker.
SignalFindsNothing(s) ==
  /\ At("main", "idle") /\ stage = "scanning" /\ book[s] > 0 /\ Held(s) = 0
  /\ tracked' = tracked \ {s}
  /\ UNCHANGED <<memory, account, exiting, lock, snap, call, working>>

\* place_market_order: "Guard: check position for short selling", on a
\* snapshot of its own, ...
Guard(t, ok) ==
  LET seen == Snapshot(ok)[call[t].sym] IN
  /\ At(t, "guard") /\ seen > 0
  /\ call' = [call EXCEPT ![t].at = "order", ![t].qty = Smaller(@, seen)]
  /\ UNCHANGED <<memory, account, tracked, exiting, lock, snap, working>>

\* ... then the order, on what the guard saw.
Order(t) ==
  /\ At(t, "order")
  /\ working[call[t].sym] + call[t].qty <= MaxWorking
  /\ LET s == call[t].sym IN
       /\ working' = [working EXCEPT ![s] = @ + call[t].qty]
       /\ tracked' = tracked \ {s}
  /\ Goto(t, "poll")
  /\ UNCHANGED <<memory, account, exiting, lock, snap>>

\* Nothing held or seen, no price, no connection, or the broker says no.
Refused(t) ==
  /\ At(t, "guard") \/ At(t, "order")
  /\ Return(t)
  /\ UNCHANGED <<memory, account, tracked, exiting, lock, snap, working>>

\* get_order_fill_price: the order completes in time, or the wait runs out.
Poll(t) ==
  /\ At(t, "poll")
  /\ \E caught \in BOOLEAN :
       /\ caught => call[t].sym \in soldToday
       /\ call' = [call EXCEPT ![t].at = "note", ![t].caught = caught]
  /\ UNCHANGED <<memory, account, tracked, exiting, lock, snap, working>>

Note(t) ==
  /\ At(t, "note") /\ lock = "free"
  /\ SetPendingReason(call[t].sym, call[t].caught)
  /\ Return(t)
  /\ UNCHANGED <<account, tracked, exiting, lock, snap, working>>

\* The pre-market dump records its sale instead, and drops the book entry.
NoteDump ==
  /\ At("main", "note") /\ lock = "free" /\ stage = "asleep" /\ ~call["main"].claimed
  /\ book' = [book EXCEPT ![call["main"].sym] = 0]
  /\ Return("main")
  /\ UNCHANGED <<stage, reason, fill, missing, account, tracked, exiting, lock, snap, working>>

\* Mutant: the discard follows a successful close only, not the finally.
ReleaseOnSuccess(t) ==
  /\ At(t, "release")
  /\ exiting' = IF call[t].sym \in reason THEN exiting \ {call[t].sym} ELSE exiting
  /\ call' = [call EXCEPT ![t] = Idle]
  /\ UNCHANGED <<memory, account, tracked, lock, snap, working>>

Release(t) ==
  /\ At(t, "release")
  /\ exiting' = exiting \ {call[t].sym}
  /\ call' = [call EXCEPT ![t] = Idle]
  /\ UNCHANGED <<memory, account, tracked, lock, snap, working>>

-----------------------------------------------------------------------------
(* Entries and adds, on the scan loop. *)

BuyAccepted(s) ==
  /\ At("main", "idle") /\ lock = "free" /\ stage = "scanning" /\ book[s] = 0
  /\ tracked' = tracked \cup {s}
  /\ SetPendingReason(s, FALSE)
  /\ UNCHANGED <<account, exiting, lock, snap, call, working>>

\* Step 7 of _process_symbol and the first check of execute_pyramid_add ...
AddChecked(s) ==
  /\ At("main", "idle") /\ stage = "scanning"
  /\ s \notin exiting /\ book[s] > 0 /\ s \in tracked
  /\ call' = [call EXCEPT !["main"] = [Idle EXCEPT !.at = "add", !.sym = s]]
  /\ UNCHANGED <<memory, account, tracked, exiting, lock, snap, working>>

\* ... then the BUY, without the lock.
AddPlaced(q) ==
  /\ At("main", "add") /\ Held(call["main"].sym) + q <= MaxQty
  /\ Bought(call["main"].sym, q)
  /\ Goto("main", "note")
  /\ UNCHANGED <<memory, tracked, exiting, lock, snap, working>>

AddRefused ==
  /\ At("main", "add")
  /\ Return("main")
  /\ UNCHANGED <<memory, account, tracked, exiting, lock, snap, working>>

-----------------------------------------------------------------------------
(* update() and sync_positions under the lock: the broker moves between    *)
(* the snapshot and its use, the websocket thread waits.                   *)

SyncFetch(ok) ==
  /\ At("main", "idle") /\ lock = "free"
  /\ lock' = "main"
  /\ snap' = Snapshot(ok)
  /\ Goto("main", "sync")
  /\ UNCHANGED <<memory, account, tracked, exiting, working>>

\* Mutant: trackers are restored when the agent starts, not on every sync.
SyncedAtStart(pruned) == IF stage = "scanning" THEN tracked \ pruned ELSE
  (tracked \cup {s \in Symbols : book'[s] > 0}) \ pruned

\* sync_positions on the new book: every position has a tracker again, some
\* of the trackers without a position have run out of grace.
Synced(pruned) == (tracked \cup {s \in Symbols : book'[s] > 0}) \ pruned

SyncApply ==
  /\ At("main", "sync")
  /\ AdoptBook(snap) \/ ReconcileBook(snap)
  /\ \/ \E pruned \in SUBSET {s \in tracked : book'[s] = 0} : tracked' = Synced(pruned)
     \/ stage = "start" /\ tracked' = tracked  \* the start-up snapshot syncs no tracker
  /\ lock' = "free"
  /\ snap' = [s \in Symbols |-> 0]
  /\ call' = [call EXCEPT !["main"] = Idle]
  /\ UNCHANGED <<account, exiting, working>>

\* A new process reads some earlier trackers back from its file; orders
\* already at the broker stay there.
Restart ==
  /\ ForgetBook
  /\ tracked' \in SUBSET Symbols
  /\ exiting' = {} /\ lock' = "free"
  /\ snap' = [s \in Symbols |-> 0]
  /\ call' = [t \in Threads |-> Idle]
  /\ UNCHANGED <<account, working>>

-----------------------------------------------------------------------------
(* The broker. *)

\* complete: nothing of that order is left.
WorkingFills(s, q, complete) ==
  /\ q <= working[s]
  /\ Sold(s, q, complete)
  /\ working' = [working EXCEPT ![s] = @ - q]
  /\ UNCHANGED <<memory, threads>>

\* Cancelled, or not filled when the day ends.
WorkingLapses(s) ==
  /\ working[s] > 0
  /\ working' = [working EXCEPT ![s] = 0]
  /\ UNCHANGED <<memory, account, threads>>

BuyFills(s, q) ==
  /\ Held(s) + q <= MaxQty
  /\ Bought(s, q)
  /\ UNCHANGED <<memory, threads, working>>

\* The agent exits when a session ends, so no process scans into the next day.
NextDay ==
  /\ stage # "scanning" /\ \A s \in Symbols : working[s] = 0
  /\ Settled
  /\ UNCHANGED <<memory, threads, working>>

ThreadStep(t) ==
  \/ \E ok \in BOOLEAN : Guard(t, ok)
  \/ Order(t) \/ Refused(t) \/ Poll(t) \/ Note(t) \/ Release(t)

Next ==
  \/ \E t \in Threads : ThreadStep(t) \/ \E s \in Symbols : Claim(t, s)
  \/ \E s \in Symbols :
       \/ \E q \in 1..MaxQty : CloseDirectly(s, q) \/ BuyFills(s, q)
       \/ SignalFindsNothing(s) \/ BuyAccepted(s) \/ AddChecked(s) \/ WorkingLapses(s)
       \/ \E q \in 1..MaxQty, c \in BOOLEAN : WorkingFills(s, q, c)
  \/ NoteDump \/ AddRefused \/ \E q \in 1..MaxQty : AddPlaced(q)
  \/ \E ok \in BOOLEAN : SyncFetch(ok)
  \/ SyncApply \/ Restart \/ NextDay

Spec == Init /\ [][Next]_vars

\* A thread inside a call goes on: get_order_fill_price gives up after 3 s,
\* REST calls time out.  The scan loop syncs once per iteration, between
\* whatever else it does, hence strong fairness; a holdings() failure is
\* not permanent.
Fairness ==
  /\ \A t \in Threads : WF_vars(ThreadStep(t))
  /\ WF_vars(AddRefused) /\ WF_vars(SyncApply)
  /\ SF_vars(SyncFetch(TRUE))

FairSpec == Spec /\ Fairness

-----------------------------------------------------------------------------
Calls == [at : Points, sym : Symbols \cup {NoSymbol}, qty : Nat,
          claimed : BOOLEAN, caught : BOOLEAN]

TypeOK ==
  /\ BookTypeOK
  /\ tracked \in SUBSET Symbols /\ exiting \in SUBSET Symbols
  /\ lock \in {"free", "main"} /\ snap \in [Symbols -> Nat]
  /\ call \in [Threads -> Calls] /\ working \in [Symbols -> Nat]

Claims(t, s) == call[t].claimed /\ call[t].sym = s

\* Two threads never run a claimed exit of the same position, even when a
\* sync has rebuilt the tracker while the first is still at the broker.
OneClaimant ==
  \A s \in Symbols : \A t, u \in Threads : Claims(t, s) /\ Claims(u, s) => t = u

\* `_exiting` is exactly the claims of live calls: no path through
\* close_position leaves a symbol behind that nobody will ever exit again.
NoOrphanClaim == exiting = {s \in Symbols : \E t \in Threads : Claims(t, s)}

\* A position is never left without a stop for good: whatever was triggered,
\* refused, half filled or restarted, the tracker comes back or the shares go,
\* unless the process restarts for ever.
Reprotected == []<><<Restart>>_vars \/
               \A s \in Symbols : []<>(s \in tracked \/ Held(s) = 0)

\* allow_short_selling = False: the agent's own orders never take the
\* account below zero.
NeverShort == \A s \in Symbols : settled[s] + today[s] >= 0
=============================================================================
