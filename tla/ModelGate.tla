------------------------------ MODULE ModelGate ------------------------------
(***************************************************************************)
(* The trained model between the trainer and a purchase: the trainer       *)
(* replaces the model's file, then the file of the bars made from it       *)
(* (src/ml_trainer.py); the trader holds a model it loaded once and reads  *)
(* the bars anew whenever their file changed (src/decision_engine.py); a   *)
(* decision takes a confidence from the model, and the validator asks for  *)
(* it and for the bar a second time (src/ai_validator.py).  A symbol       *)
(* without a bar from vetting is followed; the directive's shift of the    *)
(* bar is left out.  Confidences are levels, 0 also for one that failed.   *)
(***************************************************************************)
EXTENDS Integers

CONSTANTS Level,           \* confidences above 0, and the bars
          SellBar,         \* the level of 0.40
          StaticBar,       \* config.signal.ml_buy_threshold
          MaxTrainings     \* bound

VARIABLES modelFile, barFile,   \* the training each file is of (0: no file), and the bar
          halfway,              \* a training has replaced only the first of the two
          day, swing,           \* the training of the day model in memory; is there a swing model
          bars,                 \* ml_thresholds and its mtime
          flag,                 \* _reload_model_flag
          driver,               \* config.ai.primary_driver
          decided,              \* the action of make_decision, "none" before it
          verdict               \* what validate_decision let stand, and from what

trainer == <<modelFile, barFile, halfway>>
loaded == <<day, swing, bars, flag, driver>>
vars == <<trainer, loaded, decided, verdict>>

NoBars == [of |-> 0]
NoVerdict == [action |-> "none"]
Action == {"BUY", "SELL", "HOLD"}

\* train: the model first.
SaveModel ==
  /\ ~halfway /\ modelFile < MaxTrainings
  /\ modelFile' = modelFile + 1 /\ halfway' = TRUE
  /\ UNCHANGED <<barFile, loaded, decided, verdict>>

\* Then the bars; ev:model is published after both, and may be lost.
SaveBars ==
  /\ halfway /\ halfway' = FALSE
  /\ \E b \in Level : barFile' = [of |-> modelFile, bar |-> b]
  /\ flag' \in {flag, TRUE}
  /\ UNCHANGED <<modelFile, day, swing, bars, driver, decided, verdict>>

\* The training fails or ends in between: the bars stay those of the last one.
TrainingFails ==
  /\ halfway /\ halfway' = FALSE
  /\ UNCHANGED <<modelFile, barFile, loaded, decided, verdict>>

-----------------------------------------------------------------------------
\* Mutant: the bars are read when there are none.
BarsReadOnce(ok) == IF ok /\ bars.of = 0 THEN barFile ELSE bars

\* _load_ml_thresholds: a newer file is read; one that cannot be is left for
\* the next time.
BarsRead(ok) == IF ok /\ barFile.of > bars.of THEN barFile ELSE bars

\* get_ml_buy_threshold: the trained bar, or the configured one if none was read.
BarOf(read) == IF read.of = 0 THEN StaticBar ELSE read.bar

\* get_ml_confidence: 0 without a model or when the prediction fails.
Confidence(has) == IF has THEN Level \cup {0} ELSE {0}

\* The action the model asks for, or, when it does not drive, the scores.
Driven(c) == driver /\ c > 0
Wanted(c, bar) ==
  IF ~Driven(c) THEN Action
  ELSE IF c >= bar THEN {"BUY"}
  ELSE IF c <= SellBar THEN {"SELL"} ELSE {"HOLD"}

\* detect_reversal: a profitable position may be sold whatever was wanted.
Reversal == {"SELL"}

\* A BUY passes the filters or is none; without a position there is no SELL.
Filtered(wanted) == wanted \cup {"HOLD"}

\* Then the gates of the account and of an overbought price do the same.
Admitted(wanted) == wanted \cup {"HOLD"}

Decide ==
  /\ decided = "none"
  /\ \E c \in Confidence(day # 0), ok \in BOOLEAN :
       /\ bars' = IF Driven(c) THEN BarsRead(ok) ELSE bars
       /\ decided' \in Reversal \cup Admitted(Filtered(Wanted(c, BarOf(bars'))))
  /\ verdict' = NoVerdict
  /\ UNCHANGED <<trainer, day, swing, flag, driver>>

\* The bar of a BUY and the bar of a SELL.
Approved(action, c, bar) == IF action = "BUY" THEN c >= bar ELSE c <= SellBar

\* validate_decision: without the model concerned the decision stands.
Validate ==
  /\ decided # "none"
  /\ \E ok \in BOOLEAN, c \in Confidence(IF decided = "BUY" THEN day # 0 ELSE swing) :
       LET has == IF decided = "BUY" THEN day # 0 ELSE swing
           stands == decided = "HOLD" \/ ~has \/ Approved(decided, c, BarOf(bars'))
       IN /\ bars' = BarsRead(ok)
          /\ verdict' = [action |-> IF stands THEN decided ELSE "HOLD",
                         model |-> day, confidence |-> c, bar |-> BarOf(bars'),
                         paired |-> bars'.of = day,
                         \* the model is the file's, the bars' file is of it and was read
                         settled |-> ok /\ day = modelFile /\ barFile.of = modelFile]
  /\ decided' = "none"
  /\ UNCHANGED <<trainer, day, swing, flag, driver>>

\* _load_models: a file that is missing or fails to load leaves no model.
Load ==
  /\ day' \in {modelFile, 0}
  /\ swing' \in BOOLEAN

\* reload_model, between two symbols of a scan.
Reload ==
  /\ flag /\ decided = "none"
  /\ flag' = FALSE
  /\ Load
  /\ UNCHANGED <<trainer, bars, driver, decided, verdict>>

Restart ==
  /\ Load
  /\ bars' = NoBars /\ flag' = FALSE
  /\ decided' = "none" /\ verdict' = NoVerdict
  /\ UNCHANGED <<trainer, driver>>

Init ==
  /\ modelFile = 0 /\ barFile = NoBars /\ halfway = FALSE
  /\ day = 0 /\ swing = FALSE /\ bars = NoBars /\ flag = FALSE
  /\ driver \in BOOLEAN
  /\ decided = "none" /\ verdict = NoVerdict

Next == SaveModel \/ SaveBars \/ TrainingFails \/ Decide \/ Validate \/ Reload \/ Restart

Spec == Init /\ [][Next]_vars

Bar == {NoBars} \cup [of : 1..MaxTrainings, bar : Level]

TypeOK ==
  /\ modelFile \in 0..MaxTrainings /\ {barFile, bars} \subseteq Bar
  /\ {halfway, swing, flag, driver} \subseteq BOOLEAN
  /\ day \in 0..modelFile
  /\ decided \in Action \cup {"none"} /\ verdict.action \in Action \cup {"none"}

(* A purchase made with a model in memory had that model's confidence      *)
(* above the bar, whichever path decided it, failed predictions included;  *)
(* and the bar was made with that model, but while a later training is     *)
(* under way or unloaded, or has left no bars.                             *)
BuyClearsTheBarOfItsModel ==
  verdict.action = "BUY" /\ verdict.model # 0 /\ verdict.settled
    => verdict.confidence >= verdict.bar /\ verdict.paired

(* Why: the process never holds bars that are newer than their file, and a *)
(* file of bars is never newer than that of the model.                     *)
FilesLead ==
  /\ bars.of \in Nat /\ barFile.of \in Nat /\ modelFile \in Nat
  /\ bars.of <= barFile.of /\ barFile.of <= modelFile

BarsHold == FilesLead /\ BuyClearsTheBarOfItsModel
=============================================================================
