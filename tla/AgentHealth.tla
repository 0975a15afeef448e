----------------------------- MODULE AgentHealth -----------------------------
(***************************************************************************)
(* Supervision (src/agents/orchestrator.py): every agent keeps a key with  *)
(* an expiry alive from a thread of its own (src/agents/base.py); the      *)
(* orchestrator reads the keys at each tick and restarts, through docker,  *)
(* the container of an agent it has not seen for a while, at most so many  *)
(* times a day.  A read that fails answers like a key that expired.  Time  *)
(* is counted in the orchestrator's ticks.                                 *)
(***************************************************************************)
EXTENDS Integers, FiniteSets

CONSTANTS Agent, Trader,      \* the supervised agents, one of them the trader
          Grace,              \* ticks of silence that are forgiven
          Suppress,           \* ticks after the close in which the trader may be gone
          MaxRestartsPerDay,
          MaxTrouble          \* bound: crashes, hangs and failing reads

VARIABLES proc,       \* agent -> running, hung (its threads are all stuck) or exited
          key,        \* agents whose heartbeat key is in Redis
          silent,     \* _hb_missing_since: agent -> ticks since first missed, None
          restarts,   \* _restart_counts
          closed,     \* ticks since the session closed (_closed_since), None before
          trouble,    \* how much may still go wrong
          docker      \* whether the docker SDK answers

vars == <<proc, key, silent, restarts, closed, trouble, docker>>

None == -1

Later(n, top) == IF n = None \/ n = top THEN n ELSE n + 1

\* The read of the key at this tick; the reads of an outage all answer None.
Seen(a, failing) == a \in key /\ a \notin failing

\* setdefault(agent, now), and how long ago that was.
Missing(a, failing) == IF Seen(a, failing) THEN None ELSE IF silent[a] = None THEN 0 ELSE silent[a]

\* Mutant: a trader that is gone after the first close is never looked at again.
TraderExcusedForGood(a) == a = Trader /\ closed # None
TraderExcused(a) == a = Trader /\ closed # None /\ closed < Suppress

Overdue(a, failing) ==
  /\ ~Seen(a, failing)
  /\ Missing(a, failing) >= Grace
  /\ ~TraderExcused(a)

\* Mutant: the budget allows one restart too many.
RestartableOnceMore(a) ==
  /\ docker
  /\ restarts[a] <= MaxRestartsPerDay
  /\ proc[a] # "exited"

\* docker can be asked, the budget is not spent, and the container is up.
Restartable(a) ==
  /\ docker
  /\ restarts[a] < MaxRestartsPerDay
  /\ proc[a] # "exited"

SilentAfter(failing, Fixed) ==
  [a \in Agent |-> IF a \in Fixed THEN None ELSE Later(Missing(a, failing), Grace)]

\* _supervise(): one pass over the agents.
Supervise ==
  \E failing \in {{}, Agent} :
    LET fixed == {a \in Agent : Overdue(a, failing) /\ Restartable(a)} IN
      /\ failing # {} => trouble > 0
      /\ trouble' = IF failing = {} THEN trouble ELSE trouble - 1
      /\ restarts' = [a \in Agent |-> IF a \in fixed THEN restarts[a] + 1 ELSE restarts[a]]
      /\ silent' = SilentAfter(failing, fixed)
      /\ proc' = [a \in Agent |-> IF a \in fixed THEN "running" ELSE proc[a]]
      /\ key' = key \cup fixed
      /\ closed' = Later(closed, Suppress)
      /\ UNCHANGED docker

\* _heartbeat_loop(): its own thread, so a stuck tick() beats on.
Beat(a) ==
  /\ proc[a] = "running" /\ a \notin key
  /\ key' = key \cup {a}
  /\ UNCHANGED <<proc, silent, restarts, closed, trouble, docker>>

\* The key outlives three periods of the heartbeat.
Expires(a) ==
  /\ proc[a] # "running" /\ a \in key
  /\ key' = key \ {a}
  /\ UNCHANGED <<proc, silent, restarts, closed, trouble, docker>>

Fails(a) ==
  /\ proc[a] = "running" /\ trouble > 0
  /\ \E how \in {"hung", "exited"} : proc' = [proc EXCEPT ![a] = how]
  /\ trouble' = trouble - 1
  /\ UNCHANGED <<key, silent, restarts, closed, docker>>

\* The session closes: the trader exits by design and the clock of its excuse starts.
SessionCloses ==
  /\ closed = None
  /\ closed' = 0
  /\ proc' = [proc EXCEPT ![Trader] = IF @ = "running" THEN "exited" ELSE @]
  /\ UNCHANGED <<key, silent, restarts, trouble, docker>>

\* restart: unless-stopped.
DockerRevives(a) ==
  /\ proc[a] = "exited"
  /\ proc' = [proc EXCEPT ![a] = "running"]
  /\ UNCHANGED <<key, silent, restarts, closed, trouble, docker>>

\* A new session date resets the budget, a new orchestrator everything it knew.
NewDay ==
  /\ \E a \in Agent : restarts[a] > 0
  /\ trouble > 0 /\ trouble' = trouble - 1
  /\ restarts' = [a \in Agent |-> 0]
  /\ UNCHANGED <<proc, key, silent, closed, docker>>

OrchestratorRestarts ==
  /\ trouble > 0 /\ trouble' = trouble - 1
  /\ silent' = [a \in Agent |-> None]
  /\ restarts' = [a \in Agent |-> 0]
  /\ closed' = None
  /\ UNCHANGED <<proc, key, docker>>

\* The planned restart before the open: not charged to the budget.
PreopenRestart ==
  /\ docker /\ proc[Trader] # "running"
  /\ proc' = [proc EXCEPT ![Trader] = "running"]
  /\ UNCHANGED <<key, silent, restarts, closed, trouble, docker>>

Init ==
  /\ proc = [a \in Agent |-> "running"]
  /\ key = {}
  /\ silent = [a \in Agent |-> None]
  /\ restarts = [a \in Agent |-> 0]
  /\ closed = None
  /\ trouble = MaxTrouble
  /\ docker \in BOOLEAN

Next ==
  \/ Supervise
  \/ \E a \in Agent : Beat(a) \/ Expires(a) \/ Fails(a) \/ DockerRevives(a)
  \/ SessionCloses \/ NewDay \/ OrchestratorRestarts \/ PreopenRestart

\* The loop ticks, the threads beat, Redis expires keys, docker revives.
Fairness ==
  /\ WF_vars(Supervise)
  /\ \A a \in Agent : WF_vars(Beat(a)) /\ WF_vars(Expires(a)) /\ WF_vars(DockerRevives(a))

Spec == Init /\ [][Next]_vars /\ Fairness

TypeOK ==
  /\ proc \in [Agent -> {"running", "hung", "exited"}]
  /\ key \subseteq Agent
  /\ silent \in [Agent -> {None} \cup 0..Grace]
  /\ restarts \in [Agent -> 0..MaxRestartsPerDay]
  /\ closed \in {None} \cup 0..Suppress
  /\ trouble \in 0..MaxTrouble
  /\ docker \in BOOLEAN

(* An agent whose process is stuck does not stay so: it is restarted, by   *)
(* the supervisor or the planned restart, unless the docker SDK is not     *)
(* there or the budget of the day is spent; the excuse of the trader after *)
(* the close and the grace period run out.                                 *)
HungAgentIsRestarted ==
  \A a \in Agent :
    proc[a] = "hung" /\ docker ~> (proc[a] # "hung" \/ restarts[a] = MaxRestartsPerDay)
=============================================================================
