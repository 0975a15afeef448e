------------------------------- MODULE MCSync -------------------------------
(***************************************************************************)
(* The three loops of the trader that must get somewhere, model-checked    *)
(* together: the sync of the book (PortfolioSync, which this module        *)
(* extends), the protective trackers of the executor and the supervision   *)
(* of the agents' containers.  focus says which of them a behaviour is     *)
(* about; the others rest in a quiet state, in which nothing their         *)
(* fairness asks for would change them.                                    *)
(***************************************************************************)
EXTENDS PortfolioSync

VARIABLES focus,
          order, high, armed, orphan, disk, closing,          \* OrderExecutor
          held, avg, selling, buying, ltp, lockedIn, waited,
          proc, key, silent, restarts, closed, trouble, docker   \* AgentHealth

Executor ==
  INSTANCE OrderExecutor WITH
    Price <- {960, 1000, 1012}, Qty <- {1}, StopBps <- {250}, TakeBps <- {0},
    GapBps <- {100}, StopLossBp <- 250, BreakevenBp <- 10, ThresholdBp <- 75,
    ConfigGapBp <- 80, StepTenths <- 15, MaxAdds <- 0, MaxQty <- 1, OrphanGrace <- 3

Health ==
  INSTANCE AgentHealth WITH
    Agent <- {"trader", "vetting"}, Trader <- "trader", Grace <- 2, Suppress <- 3,
    MaxRestartsPerDay <- 2, MaxTrouble <- 3

syncVars == vars
executorVars == <<order, high, armed, orphan, disk, closing, held, avg, selling,
                  buying, ltp, lockedIn, waited>>
healthVars == <<proc, key, silent, restarts, closed, trouble, docker>>

SyncRests ==
  /\ stage = "scanning" /\ book = [s \in Symbols |-> 0]
  /\ reason = {} /\ fill = {} /\ missing = [s \in Symbols |-> 0]
  /\ settled = [s \in Symbols |-> 0] /\ today = [s \in Symbols |-> 0] /\ soldToday = {}
  /\ net = [s \in Symbols |-> 0] /\ absent = [s \in Symbols |-> CloseGrace]

Agents == {"trader", "vetting"}

HealthRests ==
  /\ proc = [a \in Agents |-> "running"] /\ key = Agents
  /\ silent = [a \in Agents |-> Health!None] /\ restarts = [a \in Agents |-> 0]
  /\ closed = Health!None /\ trouble = 0 /\ docker = FALSE

Quoted == ltp = [s \in Symbols |-> 1000]

MCInit ==
  \/ focus = "sync" /\ Init /\ Executor!Init /\ Quoted /\ HealthRests
  \/ focus = "executor" /\ SyncRests /\ Executor!Init /\ HealthRests
  \/ focus = "health" /\ SyncRests /\ Executor!Init /\ Quoted /\ Health!Init

OnSync == focus = "sync" /\ UNCHANGED <<focus, executorVars, healthVars>>
OnExecutor == focus = "executor" /\ UNCHANGED <<focus, syncVars, healthVars>>
OnHealth == focus = "health" /\ UNCHANGED <<focus, syncVars, executorVars>>

SyncNext ==
  \/ \E ok \in BOOLEAN : OnSync /\ Update(ok)
  \/ \E s \in Symbols, fills \in BOOLEAN : OnSync /\ OurExit(s, fills)
  \/ \E s \in Symbols : OnSync /\ OurBuy(s)
  \/ \E s \in Symbols : OnSync /\ PreMarketDump(s)
  \/ \E s \in Symbols, q \in 1..MaxQty : OnSync /\ BuyFills(s, q)
  \/ \E s \in Symbols, q \in 1..MaxQty, c \in BOOLEAN : OnSync /\ SellFills(s, q, c)
  \/ OnSync /\ Restart
  \/ OnSync /\ NextDay

\* Without adds: MaxAdds is 0 here.
ExecutorNext ==
  \/ \E s \in Symbols : OnExecutor /\ Executor!ExecuteBuy(s, 1, 250, 0, 100)
  \/ \E s \in Symbols : OnExecutor /\ Executor!CheckHolds(s)
  \/ \E s \in Symbols : OnExecutor /\ Executor!CheckTriggers(s)
  \/ \E s \in Symbols : OnExecutor /\ Executor!CloseAccepted(s)
  \/ \E s \in Symbols : OnExecutor /\ Executor!CloseRejected(s)
  \/ \E s \in Symbols : OnExecutor /\ Executor!ExecuteSell(s)
  \/ \E s \in Symbols : OnExecutor /\ Executor!BuyFills(s)
  \/ \E s \in Symbols : OnExecutor /\ Executor!BuyLapses(s)
  \/ \E s \in Symbols : OnExecutor /\ Executor!PositionEnds(s)
  \/ \E s \in Symbols : OnExecutor /\ Executor!Adopted(s, 1)
  \/ \E s \in Symbols, p \in {960, 1000, 1012} : OnExecutor /\ Executor!PriceMoves(s, p)
  \/ OnExecutor /\ Executor!Sync
  \/ OnExecutor /\ Executor!Restart
  \/ OnExecutor /\ Executor!RestartTorn

HealthNext ==
  \/ OnHealth /\ Health!Supervise
  \/ \E a \in Agents : OnHealth /\ Health!Beat(a)
  \/ \E a \in Agents : OnHealth /\ Health!Expires(a)
  \/ \E a \in Agents : OnHealth /\ Health!Fails(a)
  \/ \E a \in Agents : OnHealth /\ Health!DockerRevives(a)
  \/ OnHealth /\ Health!SessionCloses
  \/ OnHealth /\ Health!NewDay
  \/ OnHealth /\ Health!OrchestratorRestarts
  \/ OnHealth /\ Health!PreopenRestart

MCNext == SyncNext \/ ExecutorNext \/ HealthNext

allVars == <<focus, syncVars, executorVars, healthVars>>

\* Each part's own fairness; a part at rest has nothing to do under it.
MCSpec ==
  /\ MCInit /\ [][MCNext]_allVars
  /\ WF_vars(Update(TRUE))
  /\ Executor!Fairness
  /\ Health!Fairness

\* A price at the stop level is not ignored for ever (OrderExecutor).
StopIsServed == Executor!StopIsServed

\* An agent whose process is stuck does not stay so (AgentHealth).
HungAgentIsRestarted == Health!HungAgentIsRestarted
=============================================================================
