----------------------------- MODULE FlowTrader -----------------------------
(***************************************************************************)
(* The month-end flow agent (src/agents/flow_trader.py): it buys one fund  *)
(* at the close of one day of the month, sells it at the close of a later  *)
(* one, and keeps what it holds and the month it entered in a state file   *)
(* that it rewrites after the order.  A day is a month and the number of a *)
(* trading day in it; the agent acts in the last minutes of each.          *)
(***************************************************************************)
EXTENDS Integers, Sequences

CONSTANTS DaysIn,             \* the number of trading days of each month
          EntryBefore,        \* ENTRY_DAYS_BEFORE_END
          ExitBefore,         \* EXIT_DAYS_BEFORE_END
          MaxTrouble          \* bound: crashes, refused and unfilled orders

VARIABLES month, today, window,   \* the calendar; whether the act window is open
          shares,     \* what the broker holds of the fund, in allocations
          saved,      \* the state file: holding, entered
          state,      \* the agent's copy of it
          step,       \* "idle", or the order accepted and not yet recorded
          trouble,
          entries,    \* history: BUY orders accepted this month
          torn        \* history: an accepted order was not recorded, or not filled

vars == <<month, today, window, shares, saved, state, step, trouble, entries, torn>>

EntryDay == IF DaysIn[month] < EntryBefore + 1 THEN 0 ELSE DaysIn[month] - EntryBefore + 1
ExitDay == IF DaysIn[month] < EntryBefore + 1 THEN 0 ELSE DaysIn[month] - ExitBefore

\* Enter on the exact day, once a month; leave on the exit day or whenever later.
Decide ==
  IF state.holding > 0
  THEN IF ExitDay = 0 \/ today >= ExitDay \/ state.entered # month THEN "EXIT" ELSE "WAIT"
  ELSE IF EntryDay # 0 /\ today = EntryDay /\ state.entered # month THEN "ENTER" ELSE "WAIT"

\* A buy that the broker accepts and fills; a refusal leaves everything as it is.
Enter ==
  /\ window /\ step = "idle" /\ Decide = "ENTER"
  /\ \/ /\ step' = "entered"
        /\ entries' = entries + 1
        /\ \/ shares' = shares + 1 /\ UNCHANGED <<trouble, torn>>
           \/ trouble > 0 /\ trouble' = trouble - 1 /\ torn' = TRUE /\ UNCHANGED shares
     \/ UNCHANGED <<step, entries, shares, trouble, torn>>
  /\ UNCHANGED <<month, today, window, saved, state>>

\* Mutant: the entry is kept in memory and the file is not rewritten.
RecordEntryInMemory ==
  /\ step = "entered"
  /\ state' = [holding |-> 1, entered |-> month]
  /\ step' = "idle"
  /\ UNCHANGED <<month, today, window, shares, saved, trouble, entries, torn>>

\* holding_qty and entered_month, in memory and then by replacing the file.
RecordEntry ==
  /\ step = "entered"
  /\ state' = [holding |-> 1, entered |-> month]
  /\ saved' = state'
  /\ step' = "idle"
  /\ UNCHANGED <<month, today, window, shares, trouble, entries, torn>>

\* The sell is accepted or refused; an accepted one is not waited for.
Exit ==
  /\ window /\ step = "idle" /\ Decide = "EXIT"
  /\ \/ /\ shares > 0 /\ shares' = shares - 1
        /\ step' = "exited" /\ UNCHANGED <<trouble, torn>>
     \/ /\ trouble > 0 /\ trouble' = trouble - 1
        /\ step' = "exited" /\ torn' = TRUE /\ UNCHANGED shares
     \/ UNCHANGED <<step, trouble, torn, shares>>
  /\ UNCHANGED <<month, today, window, saved, state, entries>>

RecordExit ==
  /\ step = "exited"
  /\ state' = [state EXCEPT !.holding = 0]
  /\ saved' = state'
  /\ step' = "idle"
  /\ UNCHANGED <<month, today, window, shares, trouble, entries, torn>>

\* The process dies and the next one loads the file.
Restart ==
  /\ trouble > 0 /\ trouble' = trouble - 1
  /\ state' = saved
  /\ torn' = (torn \/ step # "idle")
  /\ step' = "idle"
  /\ UNCHANGED <<month, today, window, shares, saved, entries>>

\* The last minutes before the close, then the next trading day.
WindowOpens ==
  /\ ~window
  /\ window' = TRUE
  /\ UNCHANGED <<month, today, shares, saved, state, step, trouble, entries, torn>>

NextDay ==
  /\ window /\ step = "idle"
  /\ window' = FALSE
  /\ \/ today < DaysIn[month] /\ today' = today + 1 /\ UNCHANGED <<month, entries>>
     \/ /\ today = DaysIn[month] /\ month < Len(DaysIn)
        /\ today' = 1 /\ month' = month + 1 /\ entries' = 0
  /\ UNCHANGED <<shares, saved, state, step, trouble, torn>>

Init ==
  /\ month = 1 /\ today = 1 /\ window = FALSE
  /\ shares = 0
  /\ saved = [holding |-> 0, entered |-> 0] /\ state = saved
  /\ step = "idle" /\ trouble = MaxTrouble
  /\ entries = 0 /\ torn = FALSE

Next == Enter \/ RecordEntry \/ Exit \/ RecordExit \/ Restart \/ WindowOpens \/ NextDay

Spec == Init /\ [][Next]_vars

TypeOK ==
  /\ month \in 1..Len(DaysIn) /\ today \in 1..DaysIn[month] /\ window \in BOOLEAN
  /\ shares \in Nat /\ entries \in Nat
  /\ {saved, state} \subseteq [holding : 0..1, entered : 0..Len(DaysIn)]
  /\ step \in {"idle", "entered", "exited"}
  /\ trouble \in 0..MaxTrouble /\ torn \in BOOLEAN

(* The agent enters once a month however often its process is restarted    *)
(* and however many of its orders are refused, and what its file says it   *)
(* holds is what the broker holds, unless a crash fell between an accepted *)
(* order and the file, or an accepted order was not filled.                *)
FlowEntersOnce ==
  \/ torn
  \/ entries <= 1 /\ (step = "idle" => shares = saved.holding)

(* Why: memory and file say the same, and unless something was torn they   *)
(* say what the broker has done, but for the one order in flight.          *)
FileFollowsOrders ==
  /\ saved \in [holding : {0, 1}, entered : Nat] /\ state = saved
  /\ shares \in Nat /\ entries \in Nat /\ month \in Nat
  /\ step \in {"idle", "entered", "exited"}
  /\ \/ torn
     \/ step = "idle" /\ shares = saved.holding /\ entries <= 1
        /\ (entries = 1 => saved.entered = month)
     \/ step = "entered" /\ shares = 1 /\ entries = 1
     \/ step = "exited" /\ shares = 0 /\ entries <= 1
        /\ (entries = 1 => saved.entered = month)
=============================================================================
