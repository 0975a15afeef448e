----------------------------- MODULE Nominations -----------------------------
(***************************************************************************)
(* From the scan of the sectors to the list the trader may buy from: the   *)
(* scanner (src/agents/scanner.py) writes the day's nominations to a file  *)
(* and announces them, the vetting agent (src/agents/vetting.py) replays   *)
(* them and publishes the approved ones, the orchestrator relays every     *)
(* announcement as a second request to vet.  A list is known by the number *)
(* of the scan that made it; list 1 is the file yesterday left.  Both      *)
(* agents drop a request that finds their lock taken.                      *)
(***************************************************************************)
EXTENDS Scheduler

CONSTANTS MaxScans,        \* bound: the number of the last scan
          MaxThreads       \* bound: threads of vetting waiting for its lock

VARIABLES file,            \* the list in daily_targets_<market>.json
          scanDay,         \* marker scanner_premarket
          scan,            \* what the holder of the scan lock is doing
          news,            \* ev:targets not yet received: <<subscriber, list>>
          waiting,         \* lists that threads of _vet_targets brought to the lock
          vet,             \* list and source being replayed, or Idle
          vetted,          \* state vetted_targets: day, list and source
          vetDay,          \* marker vetting_premarket
          race             \* history: a request dropped, lost, or with an old list

mine == <<file, scanDay, scan, news, waiting, vet, vetted, vetDay, race>>
vars == <<sVars, mine>>
vettingSide == <<waiting, vet, vetted, vetDay>>

Source == {"premarket", "intraday"}
Idle == [list |-> 0, source |-> "none"]
NoScan == [source |-> "none", step |-> "free"]
ScanCommand == [premarket |-> "scan:premarket", intraday |-> "scan:intraday"]
Subscriber == {"vetting", "orchestrator"}

-----------------------------------------------------------------------------
(* The scanner. *)

\* A scan thread at the lock; the one that finds it taken is dropped.
StartScan(source) ==
  scan' = IF scan.step = "free" THEN [source |-> source, step |-> "running"] ELSE scan

\* The command marks the pre-market scan as done before it has begun.
ScannerHears ==
  \E source \in Source :
    /\ ScanCommand[source] \in mail
    /\ mail' = mail \ {ScanCommand[source]}
    /\ scanDay' = IF source = "premarket" THEN day ELSE scanDay
    /\ StartScan(source)
    /\ UNCHANGED <<clock, sched, prev, stamp, faults, file, news, vettingSide, race>>

\* The timer scans by itself when no marker says the pre-market scan was made.
ScannerTick ==
  /\ IsPreMarket /\ scanDay # day
  /\ scanDay' = day
  /\ StartScan("premarket")
  /\ UNCHANGED <<sVars, file, news, vettingSide, race>>

\* run_scanner() fails and nothing is announced, or the file holds a new list.
ScanEnds ==
  /\ scan.step = "running"
  /\ \/ scan' = NoScan /\ UNCHANGED file
     \/ file < MaxScans /\ file' = file + 1 /\ scan' = [scan EXCEPT !.step = "written"]
  /\ UNCHANGED <<sVars, scanDay, news, vettingSide, race>>

\* The announcement, which an outage of the bus swallows.
Announce ==
  /\ scan.step = "written"
  /\ scan' = NoScan
  /\ \/ /\ news' = news \cup {<<who, file, scan.source>> : who \in Subscriber}
        /\ UNCHANGED <<faults, race>>
     \/ /\ faults > 0 /\ faults' = faults - 1
        /\ race' = TRUE /\ UNCHANGED news
  /\ UNCHANGED <<clock, sched, mail, prev, stamp, file, scanDay, vettingSide>>

ScannerRestarts ==
  /\ scan # NoScan
  /\ scan' = NoScan
  /\ race' = (race \/ scan.step = "written")
  /\ UNCHANGED <<sVars, file, scanDay, news, vettingSide>>

-----------------------------------------------------------------------------
(* The vetting agent. *)

\* A thread starts: with the list it was given, or with what the file holds now.
Brings(list, source) ==
  /\ Cardinality(waiting) < MaxThreads
  /\ waiting' = waiting \cup {[list |-> list, source |-> source]}

VettingHears ==
  \E n \in news :
    /\ n[1] = "vetting"
    /\ Brings(n[2], n[3])
    /\ news' = news \ {n}
    /\ UNCHANGED <<sVars, file, scanDay, scan, vet, vetted, vetDay, race>>

\* cmd:vetting revet, the orchestrator's relay of the same announcement.
Revet ==
  \E n \in news :
    /\ n[1] = "orchestrator"
    /\ Brings(file, n[3])
    /\ news' = news \ {n}
    /\ UNCHANGED <<sVars, file, scanDay, scan, vet, vetted, vetDay, race>>

\* The safety net: nominated before the open by the marker, and not vetted.
VettingTick ==
  /\ IsPreMarket
  /\ scanDay = day /\ vetDay # day
  /\ vet = Idle
  /\ Brings(file, "premarket")
  /\ UNCHANGED <<sVars, file, scanDay, scan, news, vet, vetted, vetDay, race>>

\* _vet_lock.acquire(blocking=False), with a list read before it.
TakeLock ==
  \E w \in waiting :
    /\ waiting' = waiting \ {w}
    /\ vet' = IF vet = Idle THEN w ELSE vet
    /\ race' = (race \/ vet # Idle \/ w.list # file)
    /\ UNCHANGED <<sVars, file, scanDay, scan, news, vetted, vetDay>>

\* Mutant: a list from before the open stands for the whole day.
PublishedOncePerDay ==
  IF vetted.day = day THEN vetted ELSE [day |-> day, list |-> vet.list, source |-> vet.source]
Published == [day |-> day, list |-> vet.list, source |-> vet.source]

\* The replay is over: state, and the marker of a pre-market list.
PublishVetted ==
  /\ vet # Idle
  /\ vetted' = Published
  /\ vetDay' = IF vet.source = "premarket" THEN day ELSE vetDay
  /\ vet' = Idle
  /\ race' = (race \/ vet.list # file)
  /\ UNCHANGED <<sVars, file, scanDay, scan, news, waiting>>

VettingRestarts ==
  /\ vet # Idle \/ waiting # {}
  /\ vet' = Idle /\ waiting' = {}
  /\ race' = TRUE
  /\ UNCHANGED <<sVars, file, scanDay, scan, news, vetted, vetDay>>

\* The subscription is down when the announcement comes.
NewsLost ==
  /\ faults > 0 /\ faults' = faults - 1
  /\ \E n \in news : news' = news \ {n}
  /\ race' = TRUE
  /\ UNCHANGED <<clock, sched, mail, prev, stamp, file, scanDay, scan, vettingSide>>

-----------------------------------------------------------------------------
\* Neither a scan nor a replay outlasts the night.
TimePasses ==
  /\ PassTime
  /\ day' # day => scan = NoScan /\ vet = Idle /\ waiting = {} /\ news = {}
  /\ UNCHANGED <<sched, mail, prev, stamp, faults, mine>>

Init ==
  /\ SchedulerInit
  /\ file = 1 /\ scanDay = 0 /\ scan = NoScan /\ news = {}
  /\ waiting = {} /\ vet = Idle
  /\ vetted = [day |-> 0, list |-> 1, source |-> "premarket"]
  /\ vetDay = 0 /\ race = FALSE

Next ==
  \/ (OrchestratorTick \/ OrchestratorRestarts \/ MailLost) /\ UNCHANGED mine
  \/ ScannerHears \/ ScannerTick \/ ScanEnds \/ Announce \/ ScannerRestarts
  \/ VettingHears \/ Revet \/ VettingTick \/ TakeLock \/ PublishVetted
  \/ VettingRestarts \/ NewsLost
  \/ TimePasses

Spec == Init /\ [][Next]_vars

TypeOK ==
  /\ SchedulerTypeOK
  /\ file \in 1..MaxScans
  /\ {scanDay, vetDay} \subseteq 0..LastDay
  /\ scan = NoScan \/ scan \in [source : Source, step : {"running", "written"}]
  /\ news \subseteq Subscriber \X (1..MaxScans) \X Source
  /\ waiting \subseteq [list : 1..MaxScans, source : Source]
  /\ vet = Idle \/ vet \in [list : 1..MaxScans, source : Source]
  /\ vetted \in [day : 0..LastDay, list : 1..MaxScans, source : Source]
  /\ race \in BOOLEAN

Quiet == scan = NoScan /\ news = {} /\ waiting = {} /\ vet = Idle

(* The trader buys from vetted_targets.  When everything that was asked    *)
(* for has been answered, the vetted list is the one in the file, the last *)
(* one nominated, unless an announcement was lost, a request found the     *)
(* lock taken, or a thread had its list before another scan replaced it:   *)
(* the early self-started vet before the open is always caught up with.    *)
VettedIsTheLastNominated == Quiet => vetted.list = file \/ race

(* Why: the file's list is vetted, or on its way: written and about to be  *)
(* announced, announced, at the lock, or being replayed.                   *)
Underway ==
  \/ scan.step = "written"
  \/ \E n \in news : n[1] = "orchestrator" \/ n[2] = file
  \/ \E w \in waiting : w.list = file
  \/ vet # Idle /\ vet.list = file

ListIsFollowed ==
  /\ file \in Nat /\ file > 0
  /\ race \/ vetted.list = file \/ Underway
=============================================================================
