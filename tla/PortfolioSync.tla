--------------------------- MODULE PortfolioSync ---------------------------
(***************************************************************************)
(* The book of PositionBook with the trade log update() writes from it:    *)
(* the log learns of fills only by comparing snapshots.                    *)
(***************************************************************************)
EXTENDS PositionBook

CONSTANT MaxDrift     \* bound: distance of log and book at which the environment
                      \* stops adding to it

ASSUME LogAssumption == MaxDrift \in Nat

VARIABLES net,        \* shares recorded bought less shares recorded sold
          absent      \* history: consecutive snapshots a symbol was missing from

vars == <<memory, account, net, absent>>

Init == /\ BookInit /\ AccountInit
        /\ net = [s \in Symbols |-> 0] /\ absent = [s \in Symbols |-> 0]

\* Environment bound, see MaxDrift.
MayDrift == \A s \in Symbols : net[s] - book[s] \in -MaxDrift..MaxDrift

CountAbsent(snap) ==
  absent' = [s \in Symbols |-> IF snap[s] > 0 THEN 0
                               ELSE Smaller(absent[s] + 1, CloseGrace)]

\* Mutant: growth of a position that stays open is not recorded.
RecordedWithoutAdds(s, snap) ==
  IF Closes(s, snap) THEN -book[s] ELSE IF Appears(s, snap) THEN snap[s] ELSE 0

\* What update() records for one symbol.
Recorded(s, snap) ==
  IF Closes(s, snap) THEN -book[s]
  ELSE IF Grows(s, snap) THEN snap[s] - book[s]
  ELSE IF Appears(s, snap) THEN snap[s] ELSE 0

Adopt(snap) == AdoptBook(snap) /\ CountAbsent(snap) /\ UNCHANGED <<account, net>>

Reconcile(snap) ==
  /\ ReconcileBook(snap)
  /\ net' = [s \in Symbols |-> net[s] + Recorded(s, snap)]
  /\ CountAbsent(snap)
  /\ UNCHANGED account

Update(holdingsOk) ==
  /\ holdingsOk \/ MayDrift
  /\ Adopt(Snapshot(holdingsOk)) \/ Reconcile(Snapshot(holdingsOk))

\* An exit of ours is accepted, capped at what the broker holds; it fills
\* while close_position polls, or works on.
OurExit(s, fills) ==
  /\ book[s] > 0 /\ Held(s) > 0
  /\ fills => MayDrift
  /\ SetPendingReason(s, fills)
  /\ IF fills THEN Sold(s, Smaller(book[s], Held(s)), TRUE) ELSE UNCHANGED account
  /\ UNCHANGED <<net, absent>>

\* A BUY or a pyramid add of ours is accepted; it fills later, if at all.
OurBuy(s) ==
  /\ stage = "scanning" /\ Held(s) < MaxQty
  /\ SetPendingReason(s, FALSE)
  /\ UNCHANGED <<account, net, absent>>

\* Pre-market dump: recorded at once, the book entry goes with it.
PreMarketDump(s) ==
  /\ stage = "asleep" /\ book[s] > 0 /\ Held(s) > 0
  /\ net' = [net EXCEPT ![s] = @ - book[s]]
  /\ book' = [book EXCEPT ![s] = 0]
  /\ UNCHANGED <<stage, reason, fill, missing, account, absent>>

Restart == MayDrift /\ ForgetBook /\ UNCHANGED <<account, net, absent>>

SellFills(s, q, complete) ==
  /\ q <= Held(s) /\ MayDrift
  /\ Sold(s, q, complete)
  /\ UNCHANGED <<memory, net, absent>>

BuyFills(s, q) ==
  /\ Held(s) + q <= MaxQty
  /\ Bought(s, q)
  /\ UNCHANGED <<memory, net, absent>>

\* The agent exits when a session ends, so no process scans into the next day.
NextDay == stage # "scanning" /\ Settled /\ UNCHANGED <<memory, net, absent>>

Next ==
  \/ \E ok \in BOOLEAN : Update(ok)
  \/ \E s \in Symbols :
       \/ \E fills \in BOOLEAN : OurExit(s, fills)
       \/ OurBuy(s) \/ PreMarketDump(s)
       \/ \E q \in 1..MaxQty : BuyFills(s, q) \/ \E c \in BOOLEAN : SellFills(s, q, c)
  \/ Restart \/ NextDay

Spec == Init /\ [][Next]_vars

\* The scan loop calls update() every interval, and its snapshot is complete
\* unless holdings() fails.
FairSpec == Spec /\ WF_vars(Update(TRUE))

-----------------------------------------------------------------------------
TypeOK == /\ BookTypeOK
          /\ net \in [Symbols -> Int] /\ absent \in [Symbols -> 0..CloseGrace]

\* "must not be mistaken for a real close, so we require several misses": a
\* sale nothing speaks for is recorded only after CloseGrace snapshots in a
\* row without the position, whatever was seen, filled or restarted before.
GraceRespected ==
  [][\A s \in Symbols :
       stage' = "scanning" /\ net'[s] < net[s] /\ ~Evidence(s) => absent'[s] >= CloseGrace]_vars

\* Every change of the book is in the trade log and the log moves only with
\* the book.  Two changes alone escape it: a position that shrinks but stays
\* open, and the book a start discards and adopts.
EveryChangeLogged ==
  [][stage # "start" /\ stage' # "start" =>
       \A s \in Symbols : \/ net'[s] - net[s] = book'[s] - book[s]
                          \/ 0 < book'[s] /\ book'[s] < book[s] /\ net'[s] = net[s]]_vars

\* Once the broker is quiet and its snapshots are whole, the book comes to
\* equal the account: neither evidence nor grace can hold a position open.
Converges ==
  <>[][Update(TRUE)]_vars => <>[](\A s \in Symbols : book[s] = Held(s))

\* "A transient/partial snapshot ... must not be mistaken for a real close":
\* update() records a sale only of a position that is gone, or that has been
\* missing for CloseGrace snapshots.
NoPhantomClose ==
  [][\A s \in Symbols :
       stage' = "scanning" /\ net'[s] < net[s] => Held(s) = 0 \/ absent'[s] >= CloseGrace]_vars
=============================================================================
