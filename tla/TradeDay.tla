------------------------------ MODULE TradeDay ------------------------------
(***************************************************************************)
(* The life of the trader process through a session (src/agents/trader.py, *)
(* run): waiting for the bell, the gap check, the scan loop with its       *)
(* daily loss limit, the weekly kill switch, the closing of everything     *)
(* before the bell, the report, and the container that docker starts again *)
(* when the process ends.  What a process remembers it forgets with it;    *)
(* the halt it publishes on the bus is read by nobody.  How one exit is    *)
(* claimed, sent and recorded is ExitProtocol's subject: a sale is one     *)
(* step here, accepted or refused.                                         *)
(***************************************************************************)
EXTENDS Integers, FiniteSets, Sequences

CONSTANTS Symbol,
          Phases,         \* bound: the phases of the sessions that are followed
          DayLoss,        \* max_daily_loss_pct, in the units of nav
          WeekLoss,       \* max_weekly_loss_pct, likewise
          MaxNav,         \* bound: nav is followed from here down
          OvernightHold,  \* allow_overnight_hold or hold_losing_swing_threshold > 0
          Liquidate,      \* liquidate_on_shutdown
          MaxTrouble      \* bound: crashes, refused sales, failing reads

VARIABLES phase,      \* index in Phases: the clock
          proc,       \* down, asleep, connected, scanning, ended
          step,       \* where the loop of a scanning process is
          nav,        \* portfolio_value; losses only, gains change nothing here
          base,       \* _session_start_nav with its date, or NoBase
          week,       \* realised losses since Monday in the trade log
          held,       \* positions
          eodDone,    \* _eod_processed
          mayBuy,     \* buys_allowed and not weekly_paused, for this scan
          halted,     \* state halt on the bus
          reports,    \* EOD reports sent today
          trouble,
          stopped,    \* history: the loss limit was breached today
          afterStop,  \* history: a position was opened after that
          explained   \* history: positions somebody has an explanation for

memory == <<step, base, eodDone, mayBuy>>
history == <<stopped, afterStop, explained>>
vars == <<phase, proc, memory, nav, week, held, halted, reports, trouble, history>>

NoBase == [nav |-> 0, day |-> 0]
Name == Phases[phase].name
Today == Phases[phase].day
IsOpen == Name \in {"early", "late", "close"}
IsNearClose == Name = "close"

Forget == step' = "top" /\ eodDone' = FALSE /\ mayBuy' = FALSE

\* Sales of some of the held positions: the accepted are gone, the refused remain.
Sell(wanted) ==
  \E refused \in SUBSET wanted :
    /\ Cardinality(refused) <= trouble
    /\ trouble' = trouble - Cardinality(refused)
    /\ held' = held \ (wanted \ refused)
    /\ explained' = (explained \cap held') \cup refused

\* A losing sale shows in the trade log.
Realised(n) == week' \in {week, IF week + n > WeekLoss THEN WeekLoss ELSE week + n}

-----------------------------------------------------------------------------
\* docker starts the container; update() takes the nav of the moment as the base.
NewBase == IF base.day = Today THEN base ELSE [nav |-> nav, day |-> Today]

Boot ==
  /\ proc = "down"
  /\ base' = [nav |-> nav, day |-> Today]
  /\ step' = "top" /\ eodDone' = FALSE /\ mayBuy' = FALSE
  /\ proc' = IF IsOpen THEN "connected" ELSE "asleep"
  /\ UNCHANGED <<phase, nav, week, held, halted, reports, trouble, history>>

\* Positions that fall before the open on bad news are sold from the waiting loop.
PreMarketDump ==
  /\ proc = "asleep" /\ Name = "pre"
  /\ \E s \in held : Sell({s}) /\ Realised(1)
  /\ UNCHANGED <<phase, proc, memory, nav, halted, reports, stopped, afterStop>>

\* The wait is over when the seconds counted at its start are.
Wakes ==
  /\ proc = "asleep" /\ IsOpen
  /\ proc' = "connected"
  /\ UNCHANGED <<phase, memory, nav, week, held, halted, reports, trouble, history>>

\* The broker does not answer: run() returns and docker starts it again.
CannotConnect ==
  /\ proc = "connected" /\ trouble > 0
  /\ trouble' = trouble - 1
  /\ proc' = "down" /\ base' = NoBase /\ Forget
  /\ UNCHANGED <<phase, nav, week, held, halted, reports, history>>

\* _morning_gap_check(): what opened below its stop is sold once.
GapCheck ==
  /\ proc = "connected"
  /\ proc' = "scanning"
  /\ \E gapped \in SUBSET held : Sell(gapped) /\ Realised(Cardinality(gapped))
  /\ UNCHANGED <<phase, memory, nav, halted, reports, stopped, afterStop>>

-----------------------------------------------------------------------------
At(s) == proc = "scanning" /\ step = s

\* The top of an iteration: the session is on, and the portfolio is synced.
LoopTop ==
  /\ At("top") /\ IsOpen
  /\ step' = "synced"
  /\ base' = NewBase
  /\ UNCHANGED <<phase, proc, nav, week, held, eodDone, mayBuy, halted, reports, trouble, history>>

SessionEnded ==
  /\ At("top") /\ ~IsOpen
  /\ proc' = "ended"
  /\ UNCHANGED <<phase, memory, nav, week, held, halted, reports, trouble, history>>

Breached == base.nav - nav >= DayLoss

\* check_daily_loss_limit(): the loop is left, and what is held stays held.
LossLimit ==
  /\ At("synced") /\ Breached
  /\ proc' = "ended"
  /\ halted' = TRUE
  /\ stopped' = TRUE
  /\ explained' = held
  /\ UNCHANGED <<phase, memory, nav, week, held, reports, trouble, afterStop>>

\* _evaluate_ml_hold(): with overnight holding allowed the swing model may keep
\* any of the positions, and none when it is not or cannot be asked.
MayKeep(kept) == kept # {} => OvernightHold

\* close_all_positions("EOD") once per process, but for what is kept overnight.
CloseAll ==
  /\ At("synced") /\ ~Breached
  /\ IsNearClose /\ ~eodDone
  /\ \E kept \in SUBSET held :
       /\ MayKeep(kept)
       /\ \E refused \in SUBSET (held \ kept) :
            /\ Cardinality(refused) <= trouble
            /\ trouble' = trouble - Cardinality(refused)
            /\ held' = kept \cup refused
            /\ explained' = held'
            /\ Realised(Cardinality(held \ held'))
  /\ eodDone' = TRUE
  /\ step' = "closed"
  /\ UNCHANGED <<phase, proc, base, mayBuy, nav, halted, reports, stopped, afterStop>>

NoEodDue ==
  /\ At("synced") /\ ~Breached
  /\ ~IsNearClose \/ eodDone
  /\ step' = "closed"
  /\ UNCHANGED <<phase, proc, base, eodDone, mayBuy, nav, week, held, halted, reports, trouble, history>>

\* Mutant: the close does not end the scan for entries.
EntriesOpenUntilTheBell == IsOpen
EntriesOpen == Name = "early"

\* The weekly switch fails open when the trade log cannot be read.
WeeklyPaused(readable) == readable /\ week >= WeekLoss

ChooseEntries ==
  /\ At("closed")
  /\ step' = "scan"
  /\ \E readable \in BOOLEAN :
       /\ readable \/ trouble > 0
       /\ trouble' = IF readable THEN trouble ELSE trouble - 1
       /\ mayBuy' = (EntriesOpen /\ ~WeeklyPaused(readable))
  /\ UNCHANGED <<phase, proc, base, eodDone, nav, week, held, halted, reports, history>>

\* One symbol of the scan: an entry, or an exit of its own.
ScanBuys ==
  /\ At("scan") /\ mayBuy /\ IsOpen
  /\ \E s \in Symbol \ held :
       /\ held' = held \cup {s}
       /\ afterStop' = (afterStop \/ stopped)
  /\ UNCHANGED <<phase, proc, memory, nav, week, halted, reports, trouble, stopped, explained>>

ScanSells ==
  /\ At("scan") /\ IsOpen
  /\ \E s \in held :
       /\ held' = held \ {s}
       /\ explained' = explained \ {s}
  /\ Realised(1)
  /\ UNCHANGED <<phase, proc, memory, nav, halted, reports, trouble, stopped, afterStop>>

ScanDone ==
  /\ At("scan")
  /\ step' = "top"
  /\ UNCHANGED <<phase, proc, base, eodDone, mayBuy, nav, week, held, halted, reports, trouble, history>>

\* The finally clause: the report goes out when the session is over or nearly so.
Finish ==
  /\ proc = "ended"
  /\ reports' = IF ~IsOpen \/ IsNearClose THEN 1 ELSE reports
  /\ proc' = "down" /\ base' = NoBase /\ Forget
  /\ UNCHANGED <<phase, nav, week, held, halted, trouble, history>>

\* A shutdown asked for ends the loop; if so configured, every position is
\* sold on the way out, and what the broker refuses remains.
ShutDown ==
  /\ At("top") /\ trouble > 0
  /\ trouble' = trouble - 1
  /\ held' \in IF Liquidate THEN SUBSET held ELSE {held}
  /\ explained' = IF Liquidate THEN held' ELSE explained
  /\ Realised(Cardinality(held \ held'))
  /\ proc' = "ended"
  /\ UNCHANGED <<phase, memory, nav, halted, reports, stopped, afterStop>>

\* An exception leaves the loop, and the finally clause still runs.
LoopFails ==
  /\ proc = "scanning" /\ trouble > 0
  /\ trouble' = trouble - 1
  /\ proc' = "ended"
  /\ UNCHANGED <<phase, memory, nav, week, held, halted, reports, history>>

\* The process dies, or is stopped before it reaches the loop.
Dies ==
  /\ proc \notin {"down", "ended"} /\ trouble > 0
  /\ trouble' = trouble - 1
  /\ proc' = "down" /\ base' = NoBase /\ Forget
  /\ UNCHANGED <<phase, nav, week, held, halted, reports, history>>

-----------------------------------------------------------------------------
\* The market falls on what is held.
Falls ==
  /\ held # {} /\ nav > 0 /\ IsOpen
  /\ nav' = nav - 1
  /\ UNCHANGED <<phase, proc, memory, week, held, halted, reports, trouble, history>>

\* The halt was set with an expiry of a minute, for the market was open.
HaltExpires ==
  /\ halted
  /\ halted' = FALSE
  /\ UNCHANGED <<phase, proc, memory, nav, week, held, reports, trouble, history>>

\* The clock; a loop that is never at its top in the closing phase missed the close.
TimePasses ==
  /\ phase < Len(Phases)
  /\ phase' = phase + 1
  /\ explained' = IF IsNearClose /\ ~(proc = "scanning" /\ eodDone) THEN held ELSE explained
  /\ IF Phases[phase + 1].day = Today THEN UNCHANGED <<stopped, afterStop, reports>>
     ELSE stopped' = FALSE /\ afterStop' = FALSE /\ reports' = 0
  /\ UNCHANGED <<proc, memory, nav, week, held, halted, trouble>>

Init ==
  /\ phase = 1 /\ proc = "down"
  /\ step = "top" /\ base = NoBase /\ eodDone = FALSE /\ mayBuy = FALSE
  /\ nav = MaxNav /\ week = 0
  /\ held \in SUBSET Symbol
  /\ halted = FALSE /\ reports = 0 /\ trouble = MaxTrouble
  /\ stopped = FALSE /\ afterStop = FALSE /\ explained = held

Next ==
  \/ Boot \/ PreMarketDump \/ Wakes \/ CannotConnect \/ GapCheck
  \/ LoopTop \/ SessionEnded \/ LossLimit \/ CloseAll \/ NoEodDue
  \/ ChooseEntries \/ ScanBuys \/ ScanSells \/ ScanDone
  \/ ShutDown \/ LoopFails \/ Finish \/ Dies
  \/ Falls \/ HaltExpires \/ TimePasses

Spec == Init /\ [][Next]_vars

TypeOK ==
  /\ phase \in 1..Len(Phases)
  /\ proc \in {"down", "asleep", "connected", "scanning", "ended"}
  /\ step \in {"top", "synced", "closed", "scan"}
  /\ nav \in 0..MaxNav /\ week \in 0..WeekLoss
  /\ base \in [nav : 0..MaxNav, day : 0..Today]
  /\ held \subseteq Symbol /\ explained \subseteq held
  /\ {eodDone, mayBuy, halted, stopped, afterStop} \subseteq BOOLEAN
  /\ reports \in 0..1 /\ trouble \in 0..MaxTrouble

(* After the bell every position still held has an explanation: the swing  *)
(* model kept it, the broker refused its sale, the loss limit had stopped  *)
(* the loop, or no scanning process had gone through the close by then.    *)
(* In particular nothing is opened after the close of everything.          *)
NothingStaysOvernightByOversight == Name = "after" => held \subseteq explained

(* Why: a process that has gone through the close lets no scan of it buy,  *)
(* and of one that has not the clock says so.  What a process did at one   *)
(* close it still believes at the next: sessions are followed to the       *)
(* morning after.                                                          *)
ClosedIsExplained ==
  /\ phase \in 1..Len(Phases)
  /\ eodDone => proc \in {"scanning", "ended"} /\ \E i \in 1..phase : Phases[i].name = "close"
  /\ IsNearClose /\ proc = "scanning" /\ eodDone =>
       held \subseteq explained /\ (step = "scan" => ~mayBuy)
  /\ Name = "after" => held \subseteq explained

(* "Daily loss limit breached -- ceasing all trading for today": no        *)
(* position is opened for the rest of a day on which the limit was hit.    *)
LossLimitEndsTheDay == ~afterStop
=============================================================================
