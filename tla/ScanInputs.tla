----------------------------- MODULE ScanInputs -----------------------------
(***************************************************************************)
(* What a scan of the trader knows (src/agents/trader.py,                  *)
(* _refresh_bus_inputs, _effective_targets and the gates of                *)
(* _process_symbol), read from a bus that may be down (src/agents/bus.py): *)
(* the blocklist, the directive of the strategy agent, the approved list   *)
(* and the retrained models.  Every read of a bus that is down answers as  *)
(* if nothing were published.  Time is counted in heartbeat periods.       *)
(***************************************************************************)
EXTENDS Integers, FiniteSets

CONSTANTS Symbol,
          SuppressAfter,   \* buy_suppress_after_seconds
          StaleAfter,      \* directive_stale_minutes
          WarnEvery,       \* the ten minutes between two warnings
          Streams,         \* what the price stream may be: none, up, down
          MaxOutages       \* bound

VARIABLES up,          \* Redis answers
          outages,
          quiet,       \* periods since the last successful call, None if none yet
          blocked,     \* state blocklist
          vetted,      \* state vetted_targets of today: approved names, or Unvetted
          nominated,   \* the names in daily_targets_<market>.json
          directive,   \* state strategy: its age in periods, None before the first
          scan,        \* idle, refreshed or scanning
          blocklist,   \* self._blocklist
          applied,     \* whether the engine runs under a directive
          targets,     \* the scan's target list
          stream, warned,      \* the price stream; periods since the warning, None
          newModel, oldModel,  \* ev:model heard (the flag); the engine's is outdated
          missed,      \* history: names this scan would have refused, had it read
          outage,      \* history: periods the bus has been down
          returned,    \* history: it came back while this scan was running
          blind        \* history: a missed name was bought late in an outage

bus == <<up, outages, blocked, vetted, nominated, directive>>
engine == <<blocklist, applied, targets>>
models == <<stream, warned, newModel, oldModel>>
history == <<missed, outage, returned, blind>>
vars == <<bus, quiet, scan, engine, models, history>>

None == -1
Later(n, top) == IF n = None \/ n = top THEN n ELSE n + 1
Unvetted == {"unvetted"}

\* One heartbeat period; the heartbeat thread's own call refreshes last_ok.
Period ==
  /\ quiet' = IF up THEN 0 ELSE Later(quiet, SuppressAfter + 1)
  /\ directive' = Later(directive, StaleAfter + 1)
  /\ warned' = Later(warned, WarnEvery)
  /\ outage' = IF up THEN 0 ELSE Later(outage, SuppressAfter + 1)
  /\ UNCHANGED <<up, outages, blocked, vetted, nominated, scan, engine, stream,
                 newModel, oldModel, missed, returned, blind>>

Outage ==
  /\ IF up THEN outages > 0 /\ outages' = outages - 1 ELSE UNCHANGED outages
  /\ up' = ~up
  /\ outage' = 0
  /\ returned' = (returned \/ ~up)
  /\ UNCHANGED <<quiet, blocked, vetted, nominated, directive, scan, engine, models,
                 missed, blind>>

\* The other agents write to the bus while it is up; the scanner writes its file.
Others ==
  /\ up
  /\ \/ blocked' \in SUBSET Symbol /\ UNCHANGED <<vetted, nominated, directive>>
     \/ vetted' \in SUBSET nominated /\ UNCHANGED <<blocked, nominated, directive>>
     \/ directive' = 0 /\ UNCHANGED <<blocked, vetted, nominated>>
  /\ UNCHANGED <<up, outages, quiet, scan, engine, models, history>>

\* The price stream dies; only a new process brings it back.
StreamDies ==
  /\ stream = "up" /\ stream' = "down"
  /\ UNCHANGED <<bus, quiet, scan, engine, warned, newModel, oldModel, history>>

\* The trainer replaces the files and announces it; the subscriber sets a flag.
Retrained ==
  /\ oldModel' = TRUE
  /\ newModel' \in {newModel, up \/ newModel}
  /\ UNCHANGED <<bus, quiet, scan, engine, stream, warned, history>>

\* get_state() and hgetall_state() answer with the key or, if the call fails, as
\* if there were none.
State(value, none) == IF up THEN value ELSE none
Hash(value) == IF up THEN value ELSE {}

\* Each call that works is noted for seconds_since_ok().
Noted == IF up THEN 0 ELSE quiet

\* A directive is overlaid while it is fresh, and cleared when it is not.
Fresh == LET age == State(directive, None) IN age # None /\ age <= StaleAfter

\* _warn_if_price_stream_dead(): returns early with no stream, with a stream that
\* is up, and soon after a warning; the reload of the models comes after that.
ReachesReload == stream = "down" /\ (warned = None \/ warned >= WarnEvery)

Refresh ==
  /\ scan = "idle"
  /\ scan' = "refreshed"
  /\ quiet' = Noted
  /\ blocklist' = Hash(blocked)
  /\ applied' = Fresh
  /\ warned' = IF stream = "up" THEN None ELSE IF ReachesReload THEN 0 ELSE warned
  /\ newModel' = (newModel /\ ~ReachesReload)
  /\ oldModel' = (oldModel /\ ~(newModel /\ ReachesReload))
  /\ missed' = IF up THEN {} ELSE blocked
  /\ returned' = FALSE
  /\ UNCHANGED <<bus, targets, stream, outage, blind>>

\* _effective_targets(): an empty approved list is no list, and the file is next.
Targets ==
  LET approved == State(vetted, Unvetted)
  IN IF approved \notin {Unvetted, {}} THEN approved ELSE nominated

Choose ==
  /\ scan = "refreshed"
  /\ scan' = "scanning"
  /\ quiet' = Noted
  /\ targets' = Targets
  /\ missed' = IF up \/ vetted = Unvetted THEN missed ELSE missed \cup (nominated \ vetted)
  /\ UNCHANGED <<bus, blocklist, applied, models, outage, returned, blind>>

\* Mutant: a bus that has gone quiet does not hold back the entries.
NeverStale == FALSE
StaleBus == quiet # None /\ quiet > SuppressAfter

\* A BUY decision of the scan passes the blocklist and the stale-bus gate.
Buy ==
  /\ scan = "scanning"
  /\ ~StaleBus
  /\ \E s \in targets \ blocklist :
       blind' = (blind \/ ( /\ s \in missed /\ outage > SuppressAfter
                            /\ quiet # None /\ ~returned))
  /\ UNCHANGED <<bus, quiet, scan, engine, models, missed, outage, returned>>

ScanEnds ==
  /\ scan = "scanning"
  /\ scan' = "idle" /\ targets' = {} /\ missed' = {}
  /\ UNCHANGED <<bus, quiet, blocklist, applied, models, outage, returned, blind>>

\* Another process: nothing read, nothing known of the bus, the files loaded.
Restart ==
  /\ quiet # None
  /\ quiet' = None /\ scan' = "idle"
  /\ blocklist' = {} /\ applied' = FALSE /\ targets' = {}
  /\ warned' = None /\ newModel' = FALSE /\ oldModel' = FALSE
  /\ stream' = IF stream = "none" THEN "none" ELSE "up"
  /\ missed' = {}
  /\ UNCHANGED <<bus, outage, returned, blind>>

Init ==
  /\ up \in BOOLEAN /\ outages = MaxOutages
  /\ quiet = None
  /\ blocked = {} /\ vetted = Unvetted /\ nominated = Symbol /\ directive = None
  /\ scan = "idle" /\ blocklist = {} /\ applied = FALSE /\ targets = {}
  /\ stream \in Streams \ {"down"} /\ warned = None
  /\ newModel = FALSE /\ oldModel = FALSE
  /\ missed = {} /\ outage = 0 /\ returned = FALSE /\ blind = FALSE

Next ==
  \/ Period \/ Outage \/ Others \/ StreamDies \/ Retrained
  \/ Refresh \/ Choose \/ Buy \/ ScanEnds \/ Restart

Spec == Init /\ [][Next]_vars

TypeOK ==
  /\ up \in BOOLEAN /\ outages \in 0..MaxOutages
  /\ quiet \in {None} \cup 0..(SuppressAfter + 1)
  /\ blocked \subseteq Symbol /\ nominated \subseteq Symbol
  /\ vetted = Unvetted \/ vetted \subseteq nominated
  /\ directive \in {None} \cup 0..(StaleAfter + 1)
  /\ scan \in {"idle", "refreshed", "scanning"}
  /\ blocklist \subseteq Symbol /\ targets \subseteq Symbol
  /\ {applied, newModel, oldModel} \subseteq BOOLEAN
  /\ stream \in {"none", "up", "down"} /\ warned \in {None} \cup 0..WarnEvery
  /\ missed \subseteq Symbol /\ outage \in 0..(SuppressAfter + 1)
  /\ {returned, blind} \subseteq BOOLEAN

(* A name that the vetting agent has blocked or rejected is not bought     *)
(* late in an outage of the bus: when the scan could not read the lists,   *)
(* an entry needs a process that never reached the bus, an outage younger  *)
(* than the limit, or a bus that came back during the scan, whose empty    *)
(* lists are then no longer held to be stale.                              *)
NoBlindBuyLateInAnOutage == ~blind

(* Why: a scan that missed a name and saw no return runs in an outage that *)
(* is still on, and the calls have been failing as long as it lasts.       *)
OutageIsQuiet ==
  /\ quiet \in {None} \cup Nat /\ outage \in Nat
  /\ ~up /\ quiet # None => outage <= quiet
  /\ missed # {} /\ ~returned => ~up
  /\ ~blind

(* "PUBLISHes ev:model which makes the trader hot-reload" (trainer.py): a  *)
(* scan that begins after the announcement was heard runs with the models  *)
(* that were announced.                                                    *)
ReloadedOnceHeard ==
  [][scan = "idle" /\ scan' = "refreshed" /\ newModel => ~oldModel']_vars
=============================================================================
