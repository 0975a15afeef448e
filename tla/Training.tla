------------------------------ MODULE Training ------------------------------
(***************************************************************************)
(* The trainer agent (src/agents/trainer.py).  A command or its own timer  *)
(* starts a thread; the thread tries the training lock and gives up when   *)
(* another holds it.  The end-of-day retrain looks at its marker only once *)
(* it holds the lock and writes it before letting go; the daily training   *)
(* does not look at all, only the timer does.                              *)
(***************************************************************************)
EXTENDS Scheduler

CONSTANT MaxThreads        \* bound: threads of a kind waiting for the lock

VARIABLES waiting,         \* kind -> threads started and not yet at the lock
          holder,          \* what the holder of the lock is doing
          trained,         \* marker trainer_daily
          tracker,         \* the day in last_ml_training_<market>.txt
          eodMark,         \* marker trainer_eod
          models,          \* whether the model files exist
          eodRuns,         \* history: end-of-day retrains finished today
          unmarked         \* history: one of them could not leave its marker

mine == <<waiting, holder, trained, tracker, eodMark, models, eodRuns, unmarked>>
vars == <<sVars, mine>>

Kind == {"daily", "eod"}

Started(k) == [waiting EXCEPT ![k] = @ + 1]

Hears(k, cmd) ==
  /\ cmd \in mail
  /\ waiting[k] < MaxThreads
  /\ mail' = mail \ {cmd}
  /\ waiting' = Started(k)
  /\ UNCHANGED <<clock, sched, prev, stamp, faults, holder, trained, tracker,
                 eodMark, models, eodRuns, unmarked>>

TrainerHears == Hears("daily", "train_daily") \/ Hears("eod", "train_eod")

AlreadyTrainedToday == trained = day \/ tracker = day

\* The timer: the market is closed and nothing says today's models are there.
TrainerTick ==
  /\ ~IsMarketOpen
  /\ ~AlreadyTrainedToday
  /\ holder = "free"
  /\ waiting["daily"] < MaxThreads
  /\ waiting' = Started("daily")
  /\ UNCHANGED <<sVars, holder, trained, tracker, eodMark, models, eodRuns, unmarked>>

\* Non-blocking: a thread that finds the lock taken ends.
TryLock(k) ==
  /\ waiting[k] > 0
  /\ waiting' = [waiting EXCEPT ![k] = @ - 1]
  /\ holder' = IF holder = "free" THEN k ELSE holder
  /\ UNCHANGED <<sVars, trained, tracker, eodMark, models, eodRuns, unmarked>>

\* train_model() returns; only a success is marked, and the marker may fail.
TrainDaily ==
  /\ holder = "daily"
  /\ holder' = "free"
  /\ \/ UNCHANGED <<trained, tracker, models, faults>>
     \/ /\ tracker' = day
        /\ models' = TRUE
        /\ \/ trained' = day /\ UNCHANGED faults
           \/ faults > 0 /\ faults' = faults - 1 /\ UNCHANGED trained
  /\ UNCHANGED <<clock, sched, mail, prev, stamp, waiting, eodMark, eodRuns, unmarked>>

\* Mutant: the marker is not looked at.
EodRanTodayIgnored == FALSE
EodRanToday == eodMark = day

EodSkips ==
  /\ holder = "eod" /\ EodRanToday
  /\ holder' = "free"
  /\ UNCHANGED <<sVars, waiting, trained, tracker, eodMark, models, eodRuns, unmarked>>

\* retrain_model_if_needed() raises, or returns and the marker comes next.
EodRetrains ==
  /\ holder = "eod" /\ ~EodRanToday
  /\ \/ holder' = "free" /\ UNCHANGED <<models, eodRuns>>
     \/ holder' = "eod_done" /\ models' = TRUE /\ eodRuns' = eodRuns + 1
  /\ UNCHANGED <<sVars, waiting, trained, tracker, eodMark, unmarked>>

EodMarks ==
  /\ holder = "eod_done"
  /\ holder' = "free"
  /\ \/ eodMark' = day /\ UNCHANGED <<faults, unmarked>>
     \/ /\ faults > 0 /\ faults' = faults - 1
        /\ unmarked' = TRUE /\ UNCHANGED eodMark
  /\ UNCHANGED <<clock, sched, mail, prev, stamp, waiting, trained, tracker, models, eodRuns>>

\* The process dies with its threads; a new one without models trains at once.
TrainerRestarts ==
  /\ holder # "free" \/ \E k \in Kind : waiting[k] > 0
  /\ waiting' = [k \in Kind |-> IF k = "daily" /\ ~models THEN 1 ELSE 0]
  /\ holder' = "free"
  /\ unmarked' = (unmarked \/ holder = "eod_done")
  /\ UNCHANGED <<sVars, trained, tracker, eodMark, models, eodRuns>>

\* No end-of-day retrain is still running eight hours later.
Midnight == day' # day

TimePasses ==
  /\ PassTime
  /\ Midnight => holder \notin {"eod", "eod_done"} /\ waiting["eod"] = 0
  /\ eodRuns' = IF Midnight THEN 0 ELSE eodRuns
  /\ unmarked' = (unmarked /\ ~Midnight)
  /\ UNCHANGED <<sched, mail, prev, stamp, faults, waiting, holder, trained, tracker,
                 eodMark, models>>

Init ==
  /\ SchedulerInit
  /\ \E m \in BOOLEAN :
       /\ models = m
       /\ waiting = [k \in Kind |-> IF k = "daily" /\ ~m THEN 1 ELSE 0]
  /\ holder = "free"
  /\ trained = 0 /\ tracker = 0 /\ eodMark = 0
  /\ eodRuns = 0 /\ unmarked = FALSE

Next ==
  \/ (OrchestratorTick \/ OrchestratorRestarts \/ MailLost) /\ UNCHANGED mine
  \/ TrainerHears \/ TrainerTick \/ (\E k \in Kind : TryLock(k))
  \/ TrainDaily \/ EodSkips \/ EodRetrains \/ EodMarks \/ TrainerRestarts
  \/ TimePasses

Spec == Init /\ [][Next]_vars

TypeOK ==
  /\ SchedulerTypeOK
  /\ waiting \in [Kind -> 0..MaxThreads]
  /\ holder \in {"free", "daily", "eod", "eod_done"}
  /\ {trained, tracker, eodMark} \subseteq 0..LastDay
  /\ models \in BOOLEAN /\ unmarked \in BOOLEAN
  /\ eodRuns \in Nat

(* However often the command comes (a restarted orchestrator sees the      *)
(* transition again, a failed read of its marker repeats the job), and     *)
(* whichever threads meet, the models are retrained at the end of a day at *)
(* most once, unless that retrain could not leave its marker: the marker   *)
(* is read and written under the lock.                                     *)
EodRetrainedOnce == eodRuns > 1 => unmarked


(* Why: a retrain of today is lost for the marker, or about to be marked   *)
(* by the thread that holds the lock, or marked.                           *)
Accounted ==
  /\ eodRuns \in Nat
  /\ \/ unmarked
     \/ eodRuns = 0
     \/ eodRuns = 1 /\ (holder = "eod_done" \/ eodMark = day)
=============================================================================
