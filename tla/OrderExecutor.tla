--------------------------- MODULE OrderExecutor ---------------------------
(***************************************************************************)
(* The protective trackers of order_executor.py: one software stop per     *)
(* symbol, made of an OpenOrder, a high-water mark and the profit-lock     *)
(* latch, kept in memory and mirrored in executor_state_{MARKET}.json.     *)
(*                                                                         *)
(* Prices are integer ticks and percentages basis points, so every         *)
(* comparison of the code is exact.  The trader (who calls), the broker    *)
(* (who holds, fills and rejects) and the process (who crashes) are the    *)
(* environment.                                                            *)
(***************************************************************************)
EXTENDS Integers, FiniteSets

CONSTANTS Symbols,        \* traded symbols
          Price,          \* ticks the market may quote
          Qty,            \* quantities an entry or an add may have
          StopBps,        \* stop distances make_decision may choose
          TakeBps,        \* take-profit distances, 0 = none
          GapBps,         \* ATR trailing gaps chosen at buy time
          StopLossBp,     \* config.risk.stop_loss_pct
          BreakevenBp,    \* net_breakeven_pct of an intraday exit
          ThresholdBp,    \* config.risk.profit_lock_threshold
          ConfigGapBp,    \* config.risk.trailing_gap_base
          StepTenths,     \* pyramid_step_atr_multiple, in tenths
          MaxAdds,        \* pyramid_max_adds; 0 stands for pyramid_enabled = False
          MaxQty,         \* bound: shares of one symbol the account may hold
          OrphanGrace     \* _ORPHAN_GRACE

\* Basis points short of the whole price.
Distance == 0..9999

ASSUME ExecutorAssumption ==
  /\ Price \subseteq Nat \ {0} /\ Qty \subseteq Nat \ {0}
  /\ StopBps \subseteq Distance /\ GapBps \subseteq Distance /\ TakeBps \subseteq Nat
  /\ StopLossBp \in Distance /\ ConfigGapBp \in Distance
  /\ BreakevenBp \in Nat /\ ThresholdBp \in Nat
  /\ StepTenths \in Nat /\ MaxAdds \in Nat /\ MaxQty \in Nat
  /\ OrphanGrace \in Nat \ {0}

VARIABLES order,      \* _open_orders
          high,       \* _trailing_high, 0 = no entry
          armed,      \* _lock_armed
          orphan,     \* _orphan_syncs
          disk,       \* executor_state_{MARKET}.json
          closing,    \* symbols a thread has triggered and is about to close
          held,       \* the broker's quantity
          avg,        \* the broker's average cost
          selling,    \* accepted SELL orders that have not filled
          buying,     \* quantity of accepted BUY orders that have not filled
          ltp,        \* last traded price
          lockedIn,   \* history: held symbols whose lock has armed in this position,
                      \* since the file was last lost
          waited      \* history: syncs since the latest BUY, up to OrphanGrace

broker == <<held, avg, selling, buying, ltp>>
history == <<lockedIn, waited>>
vars == <<order, high, armed, orphan, disk, closing, broker, history>>

-----------------------------------------------------------------------------
(* The arithmetic of a tracker. *)

Order == [entry : Nat, qty : Nat, stop : Nat, take : Nat,
          gap : Distance, adds : Nat, lastAdd : Nat]

NoOrder == [entry |-> 0, qty |-> 0, stop |-> 0, take |-> 0,
            gap |-> 0, adds |-> 0, lastAdd |-> 0]

\* What the process keeps in memory and in the file.
Trackers == [order : [Symbols -> Order], high : [Symbols -> Nat], armed : SUBSET Symbols]

Tracked(s) == order[s].entry > 0

Larger(a, b) == IF a >= b THEN a ELSE b

\* The price bp basis points below, or above, p.
Below(p, bp) == (p * (10000 - bp)) \div 10000
Above(p, bp) == (p * (10000 + bp)) \div 10000

\* The whole, in hundredths of a basis point.
Whole == 100 * 10000

\* profit_lock_arm_pct: never below net break-even times 1.25.
ArmShare == Larger(ThresholdBp * 100, BreakevenBp * 125)

ReachesArm(p, e) == (p - e) * Whole >= ArmShare * e

\* Share of the base gap, in percent, left at high-water mark h.
TierPct(h, e) ==
  IF (h - e) * 1000 >= 30 * e THEN 33
  ELSE IF (h - e) * 1000 >= 20 * e THEN 50
  ELSE IF (h - e) * 1000 >= 10 * e THEN 67
  ELSE IF (h - e) * 1000 >= 5 * e THEN 83
  ELSE 100

Trail(h, o) ==
  (h * (Whole - Larger(o.gap, ConfigGapBp) * TierPct(h, o.entry))) \div Whole

\* The price at or below which an armed tracker sells.
Trigger(h, o) == Larger(Trail(h, o), Above(o.entry, BreakevenBp))

\* The level the position cannot fall through without an exit being raised.
StopLevel(s) == IF s \in armed THEN Larger(order[s].stop, Trigger(high[s], order[s]))
                               ELSE order[s].stop

-----------------------------------------------------------------------------
(* State changes the operations share. *)

\* Mutant: the latch is left out of the file.
DumpWithoutLatch == disk' = [order |-> order', high |-> high', armed |-> disk.armed]

\* _dump_state, run after the tracker has been changed.
Dump == disk' = [order |-> order', high |-> high', armed |-> armed']

\* Mutant: one of the pops is forgotten.
PopKeepsHigh(s) == order' = [order EXCEPT ![s] = NoOrder] /\ armed' = armed \ {s} /\ UNCHANGED high

Pop(s) == /\ order' = [order EXCEPT ![s] = NoOrder]
          /\ high' = [high EXCEPT ![s] = 0]
          /\ armed' = armed \ {s}

Init ==
  /\ order = [s \in Symbols |-> NoOrder] /\ high = [s \in Symbols |-> 0]
  /\ armed = {} /\ orphan = [s \in Symbols |-> 0]
  /\ disk = [order |-> order, high |-> high, armed |-> armed]
  /\ closing = {} /\ selling = {} /\ lockedIn = {}
  /\ waited = [s \in Symbols |-> OrphanGrace]
  /\ held = [s \in Symbols |-> 0] /\ avg = [s \in Symbols |-> 0]
  /\ buying = [s \in Symbols |-> 0]
  /\ ltp \in [Symbols -> Price]

-----------------------------------------------------------------------------
(* Entries. *)

\* execute(BUY) of an accepted order: a new tracker replaces whatever was
\* left under that symbol.  A refused order changes nothing.
ExecuteBuy(s, q, stopBp, takeBp, gapBp) ==
  /\ held[s] = 0 /\ buying[s] + q <= MaxQty
  /\ LET p == ltp[s] IN
       order' = [order EXCEPT ![s] =
         [entry |-> p, qty |-> q, stop |-> Below(p, stopBp),
          take |-> IF takeBp = 0 THEN 0 ELSE Above(p, takeBp),
          gap |-> gapBp, adds |-> 0, lastAdd |-> p]]
  /\ high' = [high EXCEPT ![s] = ltp[s]]
  /\ armed' = armed \ {s}
  /\ Dump
  /\ buying' = [buying EXCEPT ![s] = @ + q]
  /\ waited' = [waited EXCEPT ![s] = 0]
  /\ UNCHANGED <<orphan, closing, held, avg, selling, ltp, lockedIn>>

AddGap(o) == IF o.gap > 0 THEN o.gap ELSE ConfigGapBp

AddReference(o) == IF o.lastAdd > 0 THEN o.lastAdd ELSE o.entry

\* check_pyramid_conditions
AddEarned(s) ==
  /\ Tracked(s) /\ s \in armed
  /\ order[s].adds < MaxAdds
  /\ AddGap(order[s]) * StepTenths > 0
  /\ (ltp[s] - AddReference(order[s])) * 100000
       >= order[s].entry * AddGap(order[s]) * StepTenths

Blended(o, p, q) == (o.entry * o.qty + p * q) \div (o.qty + q)

Added(o, p, q) ==
  [entry |-> Blended(o, p, q), qty |-> o.qty + q, stop |-> o.stop, take |-> o.take,
   gap |-> o.gap, adds |-> o.adds + 1, lastAdd |-> p]

\* execute_pyramid_add + record_add of an accepted order.
PyramidAdd(s, q) ==
  /\ held[s] > 0 /\ s \notin closing
  /\ AddEarned(s)
  /\ held[s] + q <= MaxQty
  /\ order' = [order EXCEPT ![s] = Added(order[s], ltp[s], q)]
  /\ UNCHANGED <<high, armed>>
  /\ Dump
  /\ held' = [held EXCEPT ![s] = @ + q]
  /\ avg' = [avg EXCEPT ![s] = (@ * held[s] + ltp[s] * q) \div (held[s] + q)]
  /\ UNCHANGED <<orphan, closing, selling, buying, ltp, history>>

-----------------------------------------------------------------------------
(* Exits. *)

\* Mutant: the old `else` branch, which rewrote the peak below the threshold.
HighReset(s) == IF ReachesArm(ltp[s], order[s].entry) THEN Larger(high[s], ltp[s]) ELSE ltp[s]

HighAfter(s) == Larger(high[s], ltp[s])

HitsStop(s) == order[s].stop > 0 /\ ltp[s] <= order[s].stop
HitsTake(s) == order[s].take > 0 /\ ltp[s] >= order[s].take

\* Mutant: arm the moment price goes into profit, whatever the costs.
ArmsInProfit(s) == ltp[s] > order[s].entry /\ s \notin armed

Arms(s) == ReachesArm(ltp[s], order[s].entry) /\ s \notin armed
\* Mutant: the threshold as a gate, evaluated again on every tick.
ArmedNow(s) == IF ReachesArm(ltp[s], order[s].entry) THEN armed \cup {s} ELSE armed \ {s}

ArmedAfter(s) == IF Arms(s) THEN armed \cup {s} ELSE armed
HitsTrail(s) == s \in ArmedAfter(s) /\ ltp[s] <= Trigger(HighAfter(s), order[s])

Checkable(s) == Tracked(s) /\ held[s] > 0 /\ s \notin closing

\* check_exit_conditions returning None.
CheckHolds(s) ==
  /\ Checkable(s)
  /\ ~HitsStop(s) /\ ~HitsTake(s) /\ ~HitsTrail(s)
  /\ high' = [high EXCEPT ![s] = HighAfter(s)]
  /\ armed' = ArmedAfter(s)
  /\ lockedIn' = IF Arms(s) THEN lockedIn \cup {s} ELSE lockedIn
  /\ UNCHANGED order
  /\ IF high' # high \/ armed' # armed THEN Dump ELSE UNCHANGED disk
  /\ UNCHANGED <<orphan, closing, broker, waited>>

\* check_exit_conditions returning a reason: the tracker is popped before
\* the sale is attempted, and the pop itself is not written to disk; what was
\* written earlier in the call still holds the tracker.
CheckTriggers(s) ==
  /\ Checkable(s)
  /\ HitsStop(s) \/ HitsTake(s) \/ HitsTrail(s)
  /\ LET latched == ~HitsStop(s) /\ ~HitsTake(s) /\ Arms(s)
         newArmed == IF latched THEN armed \cup {s} ELSE armed
     IN /\ disk' = IF HighAfter(s) # high[s] \/ latched
                   THEN [order |-> order, high |-> [high EXCEPT ![s] = HighAfter(s)],
                         armed |-> newArmed]
                   ELSE disk
        /\ lockedIn' = IF latched THEN lockedIn \cup {s} ELSE lockedIn
  /\ Pop(s)
  /\ closing' = closing \cup {s}
  /\ UNCHANGED <<orphan, broker, waited>>

\* close_position whose SELL is accepted (the pop is not written to disk) ...
CloseAccepted(s) ==
  /\ s \in closing /\ held[s] > 0
  /\ Pop(s)
  /\ closing' = closing \ {s}
  /\ selling' = selling \cup {s}
  /\ UNCHANGED <<orphan, disk, held, avg, buying, ltp, history>>

\* ... or refused: "leaving position tracked as open for retry".
CloseRejected(s) ==
  /\ s \in closing
  /\ closing' = closing \ {s}
  /\ UNCHANGED <<order, high, armed, orphan, disk, broker, history>>

\* execute(SELL): the broker shows nothing held, or the order is accepted.
ExecuteSell(s) ==
  /\ Pop(s)
  /\ Dump
  /\ selling' = IF held[s] > 0 THEN selling \cup {s} ELSE selling
  /\ UNCHANGED <<orphan, closing, held, avg, buying, ltp, history>>

-----------------------------------------------------------------------------
(* sync_positions: restore, backfill, prune. *)

\* A tracker for a position found at the broker; gap 150 bp is the code's own.
Restored(s) ==
  [entry |-> avg[s], qty |-> held[s], stop |-> Below(avg[s], StopLossBp), take |-> 0,
   gap |-> 150, adds |-> 0, lastAdd |-> 0]

Backfilled(o) == IF o.entry > 0 /\ o.stop = 0
                 THEN [o EXCEPT !.stop = Below(o.entry, StopLossBp)] ELSE o

\* Mutant: pruned one sync late.
ExpiresLate(s) == orphan[s] >= OrphanGrace

Expires(s) == orphan[s] + 1 >= OrphanGrace

Missing(s) == held[s] > 0 /\ high[s] = 0
Stale(s) == held[s] = 0 /\ Tracked(s)
Prunes(s) == Stale(s) /\ Expires(s)
Backfills(s) == held[s] > 0 /\ high[s] > 0 /\ Backfilled(order[s]) # order[s]

SyncedOrder(s) == CASE Missing(s)                 -> Restored(s)
                    [] held[s] > 0 /\ high[s] > 0 -> Backfilled(order[s])
                    [] Prunes(s)                  -> NoOrder
                    [] OTHER                      -> order[s]

SyncedHigh(s, quoted) == CASE Missing(s) -> IF s \in quoted THEN ltp[s] ELSE avg[s]
                           [] Prunes(s)  -> 0
                           [] OTHER      -> high[s]

SyncedOrphan(s) == IF Stale(s) /\ ~Expires(s) THEN orphan[s] + 1
                   ELSE IF Tracked(s) \/ Missing(s) THEN 0 ELSE orphan[s]

SyncPositions(quoted) ==
  /\ order' = [s \in Symbols |-> SyncedOrder(s)]
  /\ high' = [s \in Symbols |-> SyncedHigh(s, quoted)]
  /\ armed' = {s \in armed : ~Missing(s) /\ ~Prunes(s)}
  /\ orphan' = [s \in Symbols |-> SyncedOrphan(s)]
  /\ IF \E s \in Symbols : Missing(s) \/ Prunes(s) \/ Backfills(s) THEN Dump ELSE UNCHANGED disk
  /\ waited' = [s \in Symbols |-> IF waited[s] < OrphanGrace THEN waited[s] + 1 ELSE waited[s]]
  /\ UNCHANGED <<closing, broker, lockedIn>>

\* quoted: symbols for which the broker gives a price, else average cost.
Sync == \E quoted \in SUBSET Symbols : SyncPositions(quoted)

\* Mutant: _load_state before the latch was part of the file.
RestartUnlatched ==
  /\ order' = disk.order /\ high' = disk.high /\ armed' = {}
  /\ orphan' = [s \in Symbols |-> 0]
  /\ closing' = {}
  /\ UNCHANGED <<disk, broker, history>>

\* A crash and _load_state on the way back.
Restart ==
  /\ order' = disk.order /\ high' = disk.high /\ armed' = disk.armed
  /\ orphan' = [s \in Symbols |-> 0]
  /\ closing' = {}
  /\ UNCHANGED <<disk, broker, history>>

\* A crash inside _dump_state: the file was opened for writing, so it is cut
\* short, _load_state fails on it and the process starts with no tracker.
RestartTorn ==
  /\ order' = [s \in Symbols |-> NoOrder] /\ high' = [s \in Symbols |-> 0] /\ armed' = {}
  /\ disk' = [order |-> order', high |-> high', armed |-> armed']
  /\ orphan' = [s \in Symbols |-> 0]
  /\ closing' = {} /\ lockedIn' = {}
  /\ UNCHANGED <<broker, waited>>

-----------------------------------------------------------------------------
(* The broker and the market. *)

BuyFills(s) ==
  /\ buying[s] > 0
  /\ held' = [held EXCEPT ![s] = buying[s]]
  /\ avg' = [avg EXCEPT ![s] = ltp[s]]
  /\ buying' = [buying EXCEPT ![s] = 0]
  /\ UNCHANGED <<order, high, armed, orphan, disk, closing, selling, ltp, history>>

BuyLapses(s) ==
  /\ buying[s] > 0
  /\ buying' = [buying EXCEPT ![s] = 0]
  /\ UNCHANGED <<order, high, armed, orphan, disk, closing, held, avg, selling, ltp, history>>

\* Our SELL fills, or the owner sells by hand.
PositionEnds(s) ==
  /\ held[s] > 0
  /\ held' = [held EXCEPT ![s] = 0]
  /\ avg' = [avg EXCEPT ![s] = 0]
  /\ selling' = selling \ {s}
  /\ lockedIn' = lockedIn \ {s}
  /\ UNCHANGED <<order, high, armed, orphan, disk, closing, buying, ltp, waited>>

\* Shares bought outside the agent appear in the account.
Adopted(s, q) ==
  /\ held[s] = 0 /\ buying[s] = 0 /\ q <= MaxQty
  /\ held' = [held EXCEPT ![s] = q]
  /\ avg' = [avg EXCEPT ![s] = ltp[s]]
  /\ UNCHANGED <<order, high, armed, orphan, disk, closing, selling, buying, ltp, history>>

PriceMoves(s, p) ==
  /\ p # ltp[s]
  /\ ltp' = [ltp EXCEPT ![s] = p]
  /\ UNCHANGED <<order, high, armed, orphan, disk, closing, held, avg, selling, buying, history>>

Next ==
  \/ \E s \in Symbols :
       \/ \E q \in Qty, b \in StopBps, t \in TakeBps, g \in GapBps : ExecuteBuy(s, q, b, t, g)
       \/ \E q \in Qty : PyramidAdd(s, q)
       \/ CheckHolds(s) \/ CheckTriggers(s)
       \/ CloseAccepted(s) \/ CloseRejected(s) \/ ExecuteSell(s)
       \/ BuyFills(s) \/ BuyLapses(s) \/ PositionEnds(s)
       \/ \E q \in Qty : Adopted(s, q)
       \/ \E p \in Price : PriceMoves(s, p)
  \/ Sync
  \/ Restart \/ RestartTorn

Spec == Init /\ [][Next]_vars

-----------------------------------------------------------------------------
(* Properties. *)

TypeOK ==
  /\ order \in [Symbols -> Order] /\ high \in [Symbols -> Nat] /\ armed \in SUBSET Symbols
  /\ orphan \in [Symbols -> 0..OrphanGrace - 1]
  /\ disk \in Trackers
  /\ closing \in SUBSET Symbols /\ selling \in SUBSET Symbols /\ lockedIn \in SUBSET Symbols
  /\ held \in [Symbols -> Nat] /\ avg \in [Symbols -> Nat] /\ buying \in [Symbols -> Nat]
  /\ ltp \in [Symbols -> Price] /\ waited \in [Symbols -> 0..OrphanGrace]

\* "Persisted so a restart cannot silently disarm a trail": whatever a live
\* tracker knows is in the file once the operation that learnt it returns.
RestartLosesNothing ==
  \A s \in Symbols : Tracked(s) =>
    /\ disk.order[s] = order[s]
    /\ disk.high[s] = high[s]
    /\ s \in disk.armed <=> s \in armed

\* A latch is never inherited: an armed tracker has itself seen a price that
\* clears the cost-aware threshold above its own entry.
ArmedMeansProven ==
  \A s \in armed :
    /\ Tracked(s)
    /\ order[s].adds = 0 => ReachesArm(high[s], order[s].entry)

\* The exit can always be reached: no price at or below the stop level is one
\* at which check_exit_conditions lets the position go on.
StopIsReachable ==
  \A s \in Symbols :
    Checkable(s) /\ ltp[s] <= StopLevel(s) => HitsStop(s) \/ HitsTake(s) \/ HitsTrail(s)

\* The high-water mark is a one-way ratchet for as long as a tracker guards
\* a position, a crash and reload included.
Ratchet ==
  [][\A s \in Symbols : held[s] > 0 /\ Tracked(s) /\ Tracked(s)' => high'[s] >= high[s]]_vars

\* The refinement mapping to ProfitLock: a position is guarded while the
\* broker holds it and a tracker watches it.
Guarded(s) == held[s] > 0 /\ Tracked(s)
PhaseOf(s) == IF ~Guarded(s) THEN "none" ELSE IF s \in armed THEN "lock" ELSE "patience"
LevelOf(s) == IF Guarded(s) THEN StopLevel(s) ELSE 0

Promise == INSTANCE ProfitLock WITH phase <- [s \in Symbols |-> PhaseOf(s)],
                                    level <- [s \in Symbols |-> LevelOf(s)]

\* The trackers implement the promise, over every interleaving of scan,
\* websocket, refused order, sync and restart: the latch is one-way and the
\* level never falls, although tiers, floor and file re-derive all of it.
ImplementsProfitLock == Promise!Spec

\* "the trail now stays armed for the life of the position".
LatchForLife ==
  \A s \in lockedIn : held[s] > 0 /\ Tracked(s) => s \in armed

\* "A short grace protects a just-placed buy that hasn't appeared in the
\* broker snapshot yet": its tracker outlives OrphanGrace - 1 syncs.
GraceForFreshBuy ==
  [][\A s \in Symbols : Tracked(s) /\ buying[s] > 0 /\ waited'[s] > waited[s] =>
        Tracked(s)' \/ waited'[s] >= OrphanGrace]_vars

Fairness ==
  /\ WF_vars(Sync)
  /\ \A s \in Symbols :
       /\ SF_vars(CheckTriggers(s))
       /\ SF_vars(CloseAccepted(s))
       /\ WF_vars(s \in selling /\ PositionEnds(s))

FairSpec == Spec /\ Fairness

\* A price at the stop level is not ignored for ever: the position ends, or
\* the price is above the level again, however often the broker refuses, the
\* tracker is rebuilt and the process restarts in between.
StopIsServed ==
  \A s \in Symbols : []<>(held[s] = 0 \/ (Tracked(s) /\ ltp[s] > StopLevel(s)))
=============================================================================
