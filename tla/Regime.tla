------------------------------- MODULE Regime -------------------------------
(***************************************************************************)
(* The strategy agent (src/agents/strategy.py): reads the index, names the *)
(* market's regime and publishes the directive that goes with it.  A       *)
(* command and the agent's own timer each start a classification; the lock *)
(* lets one of them through.  A change of regime takes ReadsRequired reads *)
(* in a row that agree; the count is in memory, the directive is not.      *)
(***************************************************************************)
EXTENDS Integers, Sequences

CONSTANTS ReadsRequired,     \* strategy.hysteresis_reads
          AdxTrending, AtrVolatile, MinSlope,
          Adx, AtrPct, Slope,    \* bound: what bars may show; |ema20_slope|
          MaxThreads, MaxFaults, MaxRestarts   \* bounds

VARIABLES ready,       \* setup() is done
          threads,     \* classifications started and not at the lock yet
          holder,      \* what the holder of the lock is doing
          current, candidate, count,   \* class Hysteresis
          published,   \* state strategy on the bus, "none" at first
          faults, restarts,
          reads,       \* history: the latest reads of this process
          agreed,      \* history: what ReadsRequired reads in a row last said
          claim        \* history: agreed when the directive was published

vars == <<ready, threads, holder, current, candidate, count, published, faults,
          restarts, reads, agreed, claim>>

RegimeName == {"TRENDING", "RANGING", "VOLATILE"}
Free == "free"
NoCandidate == "none"

\* compute_index_indicators: bars that are missing leave zeros behind.
Indicators(intraday, daily) ==
  [adx   : IF intraday THEN Adx ELSE {0},
   atr   : IF daily THEN AtrPct ELSE {0},
   p90   : IF daily THEN AtrPct ELSE {0},
   slope : IF daily THEN Slope ELSE {0}]

Classified(i) ==
  IF i.atr > AtrVolatile \/ (i.p90 > 0 /\ i.atr > i.p90) THEN "VOLATILE"
  ELSE IF i.adx >= AdxTrending /\ i.slope >= MinSlope THEN "TRENDING" ELSE "RANGING"

\* Hysteresis.update, as the new current, candidate and count.
\* Mutant: a read of the current regime does not interrupt the count.
UpdateUninterrupted(observed) ==
  LET n == IF observed = candidate THEN count + 1 ELSE 1
  IN IF observed = current THEN <<current, candidate, count>>
     ELSE IF n >= ReadsRequired THEN <<observed, NoCandidate, 0>>
     ELSE <<current, observed, n>>

Update(observed) ==
  LET n == IF observed = candidate THEN count + 1 ELSE 1
  IN IF observed = current THEN <<current, NoCandidate, 0>>
     ELSE IF n >= ReadsRequired THEN <<observed, NoCandidate, 0>>
     ELSE <<current, observed, n>>

Latest(observed) ==
  LET all == Append(reads, observed)
  IN IF Len(all) > ReadsRequired THEN Tail(all) ELSE all

Unanimous(all) == Len(all) = ReadsRequired /\ \A i \in DOMAIN all : all[i] = all[1]

-----------------------------------------------------------------------------
\* setup() comes after the constructor; a command may come before it.
Setup ==
  /\ ~ready
  /\ ready' = TRUE
  /\ UNCHANGED <<threads, holder, current, candidate, count, published, faults,
                 restarts, reads, agreed, claim>>

\* cmd:classify starts a thread, and so, in effect, does the timer's tick.
Start ==
  /\ threads < MaxThreads
  /\ threads' = threads + 1
  /\ UNCHANGED <<ready, holder, current, candidate, count, published, faults,
                 restarts, reads, agreed, claim>>

\* A thread that comes before setup() or finds the lock taken ends.
Acquire ==
  /\ threads > 0
  /\ threads' = threads - 1
  /\ holder' = IF ready /\ holder = Free THEN "fetching" ELSE holder
  /\ UNCHANGED <<ready, current, candidate, count, published, faults, restarts,
                 reads, agreed, claim>>

\* Neither frame came, or a call raised: the previous directive stays.
NoData ==
  /\ holder = "fetching"
  /\ holder' = Free
  /\ UNCHANGED <<ready, threads, current, candidate, count, published, faults,
                 restarts, reads, agreed, claim>>

Classify ==
  \E intraday, daily \in BOOLEAN :
    \E observed \in {Classified(i) : i \in Indicators(intraday, daily)} :
      LET all == Latest(observed)
          updated == Update(observed)
      IN /\ holder = "fetching"
         /\ intraday \/ daily
         /\ holder' = "publishing"
         /\ current' = updated[1] /\ candidate' = updated[2] /\ count' = updated[3]
         /\ reads' = all
         /\ agreed' = IF Unanimous(all) THEN observed ELSE agreed
         /\ UNCHANGED <<ready, threads, published, faults, restarts, claim>>

\* set_state reaches the bus or is swallowed.
Publish ==
  /\ holder = "publishing"
  /\ holder' = Free
  /\ \/ published' = current /\ claim' = agreed /\ UNCHANGED faults
     \/ faults > 0 /\ faults' = faults - 1 /\ UNCHANGED <<published, claim>>
  /\ UNCHANGED <<ready, threads, current, candidate, count, restarts, reads, agreed>>

Restart ==
  /\ restarts < MaxRestarts
  /\ restarts' = restarts + 1
  /\ ready' = FALSE /\ threads' = 0 /\ holder' = Free
  /\ current' = "RANGING" /\ candidate' = NoCandidate /\ count' = 0
  /\ reads' = <<>> /\ agreed' = "RANGING"
  /\ UNCHANGED <<published, faults, claim>>

Init ==
  /\ ready = FALSE /\ threads = 0 /\ holder = Free
  /\ current = "RANGING" /\ candidate = NoCandidate /\ count = 0
  /\ published = "none" /\ faults = MaxFaults /\ restarts = 0
  /\ reads = <<>> /\ agreed = "RANGING" /\ claim = "none"

Next == Setup \/ Start \/ Acquire \/ NoData \/ Classify \/ Publish \/ Restart

Spec == Init /\ [][Next]_vars

TypeOK ==
  /\ ready \in BOOLEAN /\ threads \in 0..MaxThreads
  /\ holder \in {Free, "fetching", "publishing"}
  /\ {current, agreed} \subseteq RegimeName
  /\ candidate \in RegimeName \cup {NoCandidate} /\ count \in 0..ReadsRequired
  /\ {published, claim} \subseteq RegimeName \cup {"none"}
  /\ faults \in 0..MaxFaults /\ restarts \in 0..MaxRestarts
  /\ reads \in Seq(RegimeName)

(* The directive on the bus names the regime on which ReadsRequired reads  *)
(* in a row last agreed, counting from the start of the process that       *)
(* published it; RANGING stands for none.  Classifications that meet at    *)
(* the lock, reads that fail and publications that are lost do not count   *)
(* as reads and do not break a row.                                        *)
RegimeNeedsAgreement == published = claim

-----------------------------------------------------------------------------
(* Why: the read k before the last one, and what a candidate says of them: *)
(* exactly the last count reads said it; without one the last read, if     *)
(* any, said the current regime.                                           *)
Before(s, k) == s[Len(s) - k]

Pending ==
  /\ candidate \in RegimeName /\ candidate # current
  /\ count \in 1..(ReadsRequired - 1) /\ count <= Len(reads)
  /\ \A k \in 0..(count - 1) : Before(reads, k) = candidate
  /\ Len(reads) > count => Before(reads, count) # candidate

Settled ==
  /\ candidate = NoCandidate /\ count = 0
  /\ Len(reads) > 0 => Before(reads, 0) = current

Hysteresis ==
  /\ reads \in Seq(RegimeName) /\ Len(reads) <= ReadsRequired
  /\ current \in RegimeName /\ agreed = current
  /\ Pending \/ Settled

HysteresisHolds == Hysteresis /\ RegimeNeedsAgreement
=============================================================================
