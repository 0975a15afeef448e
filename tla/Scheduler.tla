------------------------------ MODULE Scheduler ------------------------------
(***************************************************************************)
(* The orchestrator's session clock and job table                          *)
(* (src/agents/orchestrator.py) on the message bus (src/agents/bus.py).    *)
(* A job of the day is guarded by a marker in Redis that survives the      *)
(* orchestrator; a repeated job is guarded by a stamp in its memory that   *)
(* does not.  A command goes out on a channel that forgets: what nobody is *)
(* subscribed to receive, or an outage swallows, is gone, and the marker   *)
(* was written first.  An instance names the Jobs it follows.              *)
(***************************************************************************)
EXTENDS SessionClock

CONSTANTS Jobs,
          TrainLead, RestartLead, StrategyLead,   \* minutes before the open
          ClassifyEvery, ScanEvery,               \* minutes between two commands
          MaxFaults                               \* bound: failing bus calls

VARIABLES sched,    \* job -> day of its marker last_run:sched_<job>, 0 for none
          mail,     \* commands published and not yet received
          prev,     \* _prev_state
          stamp,    \* job -> monotonic minute it was last commanded, 0 at start
          faults    \* bus calls that may still fail

sVars == <<day, time, sched, mail, prev, stamp, faults>>

Command ==
  [train_daily |-> "train_daily", train_eod |-> "train_eod",
   scanner_premarket |-> "scan:premarket", scanner_intraday |-> "scan:intraday",
   trader_preopen_restart |-> "restart", strategy_preopen |-> "classify",
   strategy_open |-> "classify"]

SessionState ==
  CASE IsMarketOpen /\ IsNearClose -> "NEAR_CLOSE"
    [] IsMarketOpen /\ ~IsNearClose -> "OPEN"
    [] ~IsMarketOpen /\ IsPreMarket -> "PRE_MARKET"
    [] OTHER -> "CLOSED"

Within(lead) ==
  /\ SessionState \in {"CLOSED", "PRE_MARKET"}
  /\ 0 < MinutesToOpen /\ MinutesToOpen <= lead

\* The jobs whose window the clock is in, once a day each.
Window(job) ==
  CASE job = "train_daily" -> Within(TrainLead)
    [] job = "trader_preopen_restart" -> Within(RestartLead)
    [] job = "strategy_preopen" -> Within(StrategyLead)
    [] job = "scanner_premarket" -> SessionState = "PRE_MARKET"
    [] job = "train_eod" -> SessionState = "NEAR_CLOSE" /\ prev # SessionState
    [] OTHER -> FALSE

Every == [strategy_open |-> ClassifyEvery, scanner_intraday |-> ScanEvery]

\* The marker is not today's, or could not be read: None is not today either.
Unmarked(job, failed) == "read" \in failed \/ sched[job] # SessionDate

DailyDue(failed) == {j \in Jobs : Window(j) /\ Unmarked(j, failed)}

RepeatDue ==
  {j \in Jobs \cap DOMAIN Every : SessionState = "OPEN" /\ Now - stamp[j] >= Every[j]}

\* The day's marker is written before the command is sent.
Marked(due, failed) ==
  [j \in Jobs |-> IF j \in due /\ "mark" \notin failed THEN SessionDate ELSE sched[j]]

Sent(due, failed) ==
  IF "send" \in failed THEN mail ELSE mail \cup {Command[j] : j \in due}

\* tick(): publish the session, run the job table.  Any of its calls may fail.
OrchestratorTick ==
  \E failed \in SUBSET {"read", "mark", "send"} :
    /\ Cardinality(failed) <= faults
    /\ faults' = faults - Cardinality(failed)
    /\ sched' = Marked(DailyDue(failed), failed)
    /\ mail' = Sent(DailyDue(failed) \cup RepeatDue, failed)
    /\ stamp' = [j \in Jobs |-> IF j \in RepeatDue THEN Now ELSE stamp[j]]
    /\ prev' = SessionState
    /\ UNCHANGED clock

\* The container starts afresh: its memory is gone, the markers are not.
OrchestratorRestarts ==
  /\ prev # "NONE"
  /\ prev' = "NONE"
  /\ stamp' = [j \in Jobs |-> 0]
  /\ UNCHANGED <<day, time, sched, mail, faults>>

\* The receiver's subscription broke before the message came.
MailLost ==
  /\ faults > 0
  /\ \E c \in mail : mail' = mail \ {c}
  /\ faults' = faults - 1
  /\ UNCHANGED <<day, time, sched, prev, stamp>>

SchedulerInit ==
  /\ ClockInit
  /\ sched = [j \in Jobs |-> 0]
  /\ mail = {}
  /\ prev = "NONE"
  /\ stamp = [j \in Jobs |-> 0]
  /\ faults = MaxFaults

SchedulerTypeOK ==
  /\ ClockTypeOK
  /\ sched \in [Jobs -> 0..LastDay]
  /\ mail \subseteq {Command[j] : j \in Jobs}
  /\ prev \in {"NONE", "CLOSED", "PRE_MARKET", "OPEN", "NEAR_CLOSE"}
  /\ stamp \in [Jobs -> 0..((LastDay + 1) * MinutesPerDay)]
  /\ faults \in 0..MaxFaults
=============================================================================
