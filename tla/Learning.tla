------------------------------ MODULE Learning ------------------------------
(***************************************************************************)
(* The learning engine of the trader (src/learning_engine.py): at the end  *)
(* of a trade it counts the words of the headlines and gives a weight to   *)
(* those seen often enough, appends the outcome to a rolling window, sets  *)
(* the two thresholds anew from the window every so many records, and      *)
(* saves three files, one after the other.  The weight of a word, which a  *)
(* trade moves by a twentieth, is left out: only whether it has one is     *)
(* kept.  Scores are in hundredths.                                        *)
(***************************************************************************)
EXTENDS Integers, Sequences, FiniteSets, FiniteSetsExt

CONSTANTS Word, Base,            \* words; those of the built-in lists
          Bucket,                \* the tenths a combined score is rounded to
          MinTrades,             \* _MIN_TRADE_COUNT
          Every, Window,         \* records between calibrations, records kept
          MaxTrades, MaxFaults   \* bounds: trades, failed saves and loads

VARIABLES weighted, count,       \* _keyword_weights (its words), _word_trade_count
          records,               \* _signal_records
          calibration,           \* _calibration, <<>> or <<buy, sell>>
          buy, sell,             \* config.signal's thresholds
          files,                 \* what the three files hold
          step,                  \* the file _save_all writes next, or "idle"
          trades, faults,
          seen,                  \* history: trades with the word, of all processes
          lost                   \* history: saves of the words that failed or were cut short,
                               \* every trade once their file could not be read

memory == <<weighted, count, records, calibration, buy, sell>>
vars == <<memory, files, step, trades, faults, seen, lost>>

DefaultBuy == 48
DefaultSell == -35

Nothing == [weighted |-> {}, count |-> [w \in Word |-> 0], records |-> <<>>, calibration |-> <<>>]

Abs(n) == IF n < 0 THEN -n ELSE n
Clamp(n, lo, hi) == IF n < lo THEN lo ELSE IF n > hi THEN hi ELSE n

\* _update_keyword_weights: the words of a trade that get or keep a weight.
Ripe(words, n) == {w \in words : w \in Base \/ n[w] >= MinTrades}

\* At least 55 per cent of the bucket's records have that outcome.
Mostly(win, bucket, recs) ==
  LET own == {i \in DOMAIN recs : recs[i].bucket = bucket}
  IN own # {} /\ 100 * Cardinality({i \in own : recs[i].win = win}) >= 55 * Cardinality(own)

\* _recalibrate_thresholds
NewBuy(recs) ==
  LET good == {b \in Bucket : b > 0 /\ Mostly(TRUE, b, recs)}
  IN IF good = {} THEN buy ELSE Clamp(Min(good), 25, 70)

NewSell(recs) ==
  LET bad == {b \in Bucket : b < 0 /\ Mostly(FALSE, b, recs)}
  IN IF bad = {} THEN sell ELSE Clamp(Max(bad), -70, -20)

Recalibrate(recs) ==
  LET b == NewBuy(recs)
      s == NewSell(recs)
  IN IF Len(recs) % Every = 0 /\ (Abs(b - buy) > 5 \/ Abs(s - sell) > 5)
     THEN buy' = b /\ sell' = s /\ calibration' = <<b, s>>
     ELSE UNCHANGED <<buy, sell, calibration>>

\* on_trade_closed, up to the saves.
TradeClosed ==
  /\ step = "idle" /\ trades < MaxTrades
  /\ trades' = trades + 1
  /\ \E words \in SUBSET Word, bucket \in Bucket, win \in BOOLEAN :
       LET one == [w \in Word |-> IF w \in words THEN 1 ELSE 0]
           all == Append(records, [bucket |-> bucket, win |-> win])
       IN /\ count' = [w \in Word |-> count[w] + one[w]]
          /\ seen' = [w \in Word |-> seen[w] + one[w]]
          /\ weighted' = weighted \cup Ripe(words, count')
          /\ records' = IF Len(all) > Window THEN Tail(all) ELSE all
          /\ Recalibrate(records')
  /\ step' = "words"
  /\ UNCHANGED <<files, faults, lost>>

-----------------------------------------------------------------------------
\* _save_json replaces a file whole or leaves it; an error is logged.
SaveWords ==
  /\ step = "words" /\ step' = "records"
  /\ \/ /\ files' = [files EXCEPT !.weighted = weighted, !.count = count]
        /\ UNCHANGED <<faults, lost>>
     \/ /\ faults < MaxFaults /\ faults' = faults + 1
        /\ lost' = lost + 1
        /\ UNCHANGED files
  /\ UNCHANGED <<memory, trades, seen>>

SaveRecords ==
  /\ step = "records" /\ step' = "calibration"
  /\ \/ files' = [files EXCEPT !.records = records] /\ UNCHANGED faults
     \/ faults < MaxFaults /\ faults' = faults + 1 /\ UNCHANGED files
  /\ UNCHANGED <<memory, trades, seen, lost>>

\* Only if there is one.
SaveCalibration ==
  /\ step = "calibration" /\ step' = "idle"
  /\ \/ /\ files' = [files EXCEPT !.calibration = IF calibration = <<>> THEN @ ELSE calibration]
        /\ UNCHANGED faults
     \/ calibration # <<>> /\ faults < MaxFaults /\ faults' = faults + 1 /\ UNCHANGED files
  /\ UNCHANGED <<memory, trades, seen, lost>>

\* A save of the words that is cut short by the end of the process.
Due == IF step = "words" THEN 1 ELSE 0

\* Mutant: the counts are not restored.
LoadedWordsUncounted == [weighted |-> files.weighted, count |-> Nothing.count]

\* _load_all: keyword_weights.json
LoadedWords == [weighted |-> files.weighted, count |-> files.count]

\* The process ends, perhaps inside a save, and the next one loads what there
\* is; a file that cannot be read counts as missing, and the next save
\* replaces it.
Restart ==
  /\ step' = "idle"
  /\ \E unread \in SUBSET {"words", "records", "calibration"} :
       /\ faults + Cardinality(unread) <= MaxFaults
       /\ faults' = faults + Cardinality(unread)
       /\ LET words == IF "words" \in unread THEN Nothing ELSE LoadedWords
              saved == IF "calibration" \in unread THEN <<>> ELSE files.calibration
          IN /\ weighted' = words.weighted /\ count' = words.count
             /\ records' = IF "records" \in unread THEN <<>> ELSE files.records
             /\ calibration' = saved
             /\ buy' = IF saved = <<>> THEN DefaultBuy ELSE saved[1]
             /\ sell' = IF saved = <<>> THEN DefaultSell ELSE saved[2]
       /\ lost' = IF "words" \in unread THEN MaxTrades ELSE lost + Due
  /\ UNCHANGED <<files, trades, seen>>

Init ==
  /\ weighted = {} /\ count = Nothing.count /\ records = <<>> /\ calibration = <<>>
  /\ buy = DefaultBuy /\ sell = DefaultSell
  /\ files = Nothing
  /\ step = "idle" /\ trades = 0 /\ faults = 0
  /\ seen = Nothing.count /\ lost = 0

Next == TradeClosed \/ SaveWords \/ SaveRecords \/ SaveCalibration \/ Restart

Spec == Init /\ [][Next]_vars

TypeOK ==
  /\ weighted \subseteq Word /\ {count, seen} \subseteq [Word -> 0..MaxTrades]
  /\ Len(records) <= Window
  /\ buy \in 25..70 /\ sell \in -70..-20
  /\ calibration # <<>> => calibration = <<buy, sell>>
  /\ step \in {"idle", "words", "records", "calibration"}
  /\ trades \in 0..MaxTrades /\ faults \in 0..MaxFaults /\ lost \in Nat

\* The trades a word needs.
Least(w) == IF w \in Base THEN 1 ELSE MinTrades

(* A word gets its weight from enough trades and no fewer, whatever number *)
(* of processes saw them: each restart inside the save of the words, and   *)
(* each failed one, can cost a word at most one of its trades, a file that *)
(* cannot be read all of them.                                             *)
LearntFromEnoughTrades ==
  \A w \in Word :
    /\ w \in weighted => seen[w] >= Least(w)
    /\ seen[w] >= Least(w) + lost => w \in weighted

(* Why: the counts, in memory and in the file, lag behind what was seen by *)
(* what was lost and by the save that is due, and a word has a weight      *)
(* where its count is enough, in memory and in the file.                   *)
CountsFollow ==
  /\ {count, seen, files.count} \subseteq [Word -> Nat]
  /\ lost \in Nat /\ trades \in 0..MaxTrades
  /\ \A w \in Word :
       /\ count[w] <= seen[w] /\ seen[w] <= count[w] + lost
       /\ files.count[w] <= seen[w] /\ seen[w] <= files.count[w] + lost + Due
       /\ seen[w] <= trades

WeightsFollow ==
  \A w \in Word :
    /\ w \in weighted \cup files.weighted => seen[w] >= Least(w)
    /\ count[w] >= Least(w) => w \in weighted
    /\ files.count[w] >= Least(w) => w \in files.weighted

LearningHolds ==
  /\ DOMAIN files = {"weighted", "count", "records", "calibration"}
  /\ CountsFollow /\ WeightsFollow
=============================================================================
