------------------------ MODULE PortfolioSyncProofs ------------------------
(***************************************************************************)
(* Theorems about PortfolioSync, for every set of symbols, every account   *)
(* and every grace: types, the grace of a vanished position, and the       *)
(* agreement of book and trade log.                                        *)
(***************************************************************************)
EXTENDS PortfolioSync, PositionBookProofs

-----------------------------------------------------------------------------
(* Types. *)

LEMMA TypeParts ==
  TypeOK => /\ MemoryTypeOK /\ AccountTypeOK
            /\ net \in [Symbols -> Int] /\ absent \in [Symbols -> 0..CloseGrace]
  BY BookTypeSplits DEF TypeOK

LEMMA TypeFromParts ==
  ASSUME MemoryTypeOK', AccountTypeOK', net' \in [Symbols -> Int],
         absent' \in [Symbols -> 0..CloseGrace]
  PROVE  TypeOK'
  BY DEF TypeOK, BookTypeOK, MemoryTypeOK, AccountTypeOK

LEMMA RecordedType ==
  ASSUME TypeOK, NEW snap \in Snapshots, NEW s \in Symbols
  PROVE  Recorded(s, snap) \in Int
  BY SMT DEF TypeOK, BookTypeOK, Recorded, Snapshots

LEMMA AbsentType ==
  ASSUME TypeOK, NEW snap \in Snapshots, CountAbsent(snap)
  PROVE  absent' \in [Symbols -> 0..CloseGrace]
  BY SMT, GraceType DEF TypeOK, CountAbsent, Smaller, Snapshots

LEMMA TypeInit == Init => TypeOK
<1> SUFFICES ASSUME Init PROVE TypeOK
  OBVIOUS
<1>1. BookTypeOK
  BY BookInitType DEF Init
<1> QED BY SMT, <1>1, GraceType DEF Init, TypeOK

LEMMA UpdateType ==
  ASSUME TypeOK, NEW ok \in BOOLEAN, Update(ok)
  PROVE  TypeOK'
<1>1. PICK snap \in Snapshots : Adopt(snap) \/ Reconcile(snap)
  BY TypeParts, SnapshotType DEF Update
<1>2. CASE Adopt(snap)
  BY <1>2, TypeParts, AbsentType, AdoptType, Untouched, TypeFromParts DEF Adopt
<1>3. CASE Reconcile(snap)
  <2>1. net' \in [Symbols -> Int]
    <3>1. ASSUME NEW s \in Symbols PROVE net[s] + Recorded(s, snap) \in Int
      <4>1. net[s] \in Int /\ Recorded(s, snap) \in Int
        BY RecordedType DEF TypeOK
      <4> QED BY SMT, <4>1
    <3> QED BY <1>3, <3>1 DEF Reconcile
  <2> QED BY <1>3, <2>1, TypeParts, AbsentType, ReconcileType, Untouched, TypeFromParts
          DEF Reconcile
<1> QED BY <1>1, <1>2, <1>3

\* Orders of ours and the dump.
AgentStep(s) ==
  \/ \E fills \in BOOLEAN : OurExit(s, fills)
  \/ OurBuy(s) \/ PreMarketDump(s)

BrokerStep(s) ==
  \E q \in 1..MaxQty : BuyFills(s, q) \/ \E c \in BOOLEAN : SellFills(s, q, c)

LEMMA AgentType ==
  ASSUME TypeOK, NEW s \in Symbols, AgentStep(s)
  PROVE  TypeOK'
<1>1. ASSUME NEW fills \in BOOLEAN, OurExit(s, fills) PROVE TypeOK'
  <2>1. AccountTypeOK'
    <3>1. Smaller(book[s], Held(s)) \in Int
      BY SMT, TypeParts, HeldType, SmallerType DEF MemoryTypeOK
    <3>2. CASE fills
      BY <1>1, <3>1, <3>2, TypeParts, SoldType DEF OurExit
    <3>3. CASE ~fills
      BY <1>1, <3>3, TypeParts, Untouched DEF OurExit
    <3> QED BY <3>2, <3>3
  <2>2. MemoryTypeOK'
    BY <1>1, TypeParts, PendingType DEF OurExit
  <2> QED BY <1>1, <2>1, <2>2, TypeParts, TypeFromParts DEF OurExit
<1>2. CASE OurBuy(s)
  <2>1. MemoryTypeOK'
    BY <1>2, TypeParts, PendingType DEF OurBuy
  <2> QED BY <1>2, <2>1, TypeParts, Untouched, TypeFromParts DEF OurBuy
<1>3. CASE PreMarketDump(s)
  BY SMT, <1>3 DEF PreMarketDump, account, TypeOK, BookTypeOK
<1> QED BY <1>1, <1>2, <1>3 DEF AgentStep

LEMMA BrokerType ==
  ASSUME TypeOK, NEW s \in Symbols, BrokerStep(s)
  PROVE  TypeOK'
<1>0. 1..MaxQty \subseteq Int
  BY SMT
<1>1. ASSUME NEW q \in 1..MaxQty, BuyFills(s, q) PROVE TypeOK'
  BY <1>0, <1>1, TypeParts, BoughtType, Untouched, TypeFromParts DEF BuyFills
<1>2. ASSUME NEW q \in 1..MaxQty, NEW c \in BOOLEAN, SellFills(s, q, c) PROVE TypeOK'
  BY <1>0, <1>2, TypeParts, SoldType, Untouched, TypeFromParts DEF SellFills
<1> QED BY <1>1, <1>2 DEF BrokerStep

LEMMA TypeStep == TypeOK /\ [Next]_vars => TypeOK'
<1> SUFFICES ASSUME TypeOK, [Next]_vars PROVE TypeOK'
  OBVIOUS
<1>1. ASSUME NEW ok \in BOOLEAN, Update(ok) PROVE TypeOK'
  BY <1>1, UpdateType
<1>2. ASSUME NEW s \in Symbols, AgentStep(s) PROVE TypeOK'
  BY <1>2, AgentType
<1>3. ASSUME NEW s \in Symbols, BrokerStep(s) PROVE TypeOK'
  BY <1>3, BrokerType
<1>4. CASE Restart
  BY <1>4, TypeParts, ForgetType, Untouched, TypeFromParts DEF Restart
<1>5. CASE NextDay
  BY <1>5, TypeParts, SettledType, Untouched, TypeFromParts DEF NextDay
<1>6. CASE UNCHANGED vars
  BY <1>6 DEF vars, memory, account, TypeOK, BookTypeOK
<1> QED BY <1>1, <1>2, <1>3, <1>4, <1>5, <1>6 DEF Next, AgentStep, BrokerStep

\* Every reachable state is well typed; the type of `missing` says that no
\* streak of missing snapshots ever reaches the grace without a close.
THEOREM TypeCorrect == Spec => []TypeOK
  BY TypeInit, TypeStep, PTL DEF Spec
-----------------------------------------------------------------------------
(* The grace.  Its counter may be trusted because a streak exists only     *)
(* while the process scans and the position is on the book, and is never   *)
(* longer than the absence it counts.                                      *)

Streak ==
  \A s \in Symbols :
    /\ missing[s] <= absent[s]
    /\ missing[s] > 0 => stage = "scanning" /\ book[s] > 0

GraceInv == TypeOK /\ Streak

LEMMA StreakInit == Init => Streak
<1> SUFFICES ASSUME Init PROVE Streak
  OBVIOUS
<1>1. \A s \in Symbols : missing[s] = 0 /\ absent[s] = 0
  BY DEF Init, BookInit
<1>2. 0 <= 0 /\ ~(0 > 0)
  BY SMT
<1> QED BY <1>1, <1>2, Zenon DEF Streak

LEMMA ReconcileStreak ==
  ASSUME GraceInv, NEW snap \in Snapshots, Reconcile(snap)
  PROVE  Streak'
<1> SUFFICES ASSUME NEW s \in Symbols
             PROVE  /\ missing'[s] <= absent'[s]
                    /\ missing'[s] > 0 => stage' = "scanning" /\ book'[s] > 0
  BY DEF Streak
<1>1. /\ missing[s] \in Nat /\ absent[s] \in Nat /\ book[s] \in Nat /\ snap[s] \in Nat
      /\ missing[s] <= absent[s] /\ (missing[s] > 0 => book[s] > 0)
      /\ CloseGrace \in Nat
  BY SMT, GraceType DEF GraceInv, TypeOK, BookTypeOK, Streak, Snapshots
<1>2. /\ stage' = "scanning"
      /\ book'[s] = IF Defers(s, snap) THEN book[s] ELSE snap[s]
      /\ missing'[s] = MissingAfter(s, snap)
      /\ absent'[s] = IF snap[s] > 0 THEN 0 ELSE Smaller(absent[s] + 1, CloseGrace)
  BY DEF Reconcile, ReconcileBook, CountAbsent
<1>3. CASE Defers(s, snap)
  BY SMT, <1>1, <1>2, <1>3 DEF Defers, Vanished, MissingAfter, Smaller
<1>4. CASE ~Defers(s, snap)
  BY SMT, <1>1, <1>2, <1>4 DEF MissingAfter, Smaller
<1> QED BY <1>3, <1>4

LEMMA AdoptStreak ==
  ASSUME GraceInv, NEW snap \in Snapshots, Adopt(snap)
  PROVE  Streak'
<1> SUFFICES ASSUME NEW s \in Symbols
             PROVE  missing'[s] = 0 /\ absent'[s] \in Nat
  BY SMT DEF Streak
<1>1. missing[s] \in Nat /\ ~(missing[s] > 0)
  BY SMT, GraceType DEF GraceInv, TypeOK, BookTypeOK, Streak, Adopt, AdoptBook
<1>2. absent' \in [Symbols -> 0..CloseGrace]
  BY AbsentType DEF GraceInv, Adopt
<1> QED BY SMT, <1>1, <1>2, GraceType DEF Adopt, AdoptBook

LEMMA StreakStep == GraceInv /\ [Next]_vars => Streak'
<1> SUFFICES ASSUME GraceInv, [Next]_vars PROVE Streak'
  OBVIOUS
<1>1. ASSUME NEW ok \in BOOLEAN, Update(ok) PROVE Streak'
  <2>1. Snapshot(ok) \in Snapshots
    BY TypeParts, SnapshotType DEF GraceInv
  <2> QED BY <1>1, <2>1, ReconcileStreak, AdoptStreak DEF Update
<1>2. ASSUME NEW s \in Symbols, AgentStep(s) PROVE Streak'
  <2>1. CASE stage = "asleep" /\ PreMarketDump(s)
    <3>1. \A t \in Symbols : ~(missing[t] > 0) /\ missing[t] <= absent[t]
      BY <2>1 DEF GraceInv, Streak
    <3> QED BY <2>1, <3>1 DEF PreMarketDump, Streak
  <2>2. CASE \/ \E fills \in BOOLEAN : OurExit(s, fills)
             \/ OurBuy(s)
    <3>1. stage' = stage /\ book' = book /\ missing' = missing /\ absent' = absent
      BY <2>2 DEF OurExit, OurBuy, SetPendingReason
    <3> QED BY <3>1 DEF GraceInv, Streak
  <2> QED BY <1>2, <2>1, <2>2 DEF AgentStep, PreMarketDump
<1>3. ASSUME NEW s \in Symbols, BrokerStep(s) PROVE Streak'
  BY <1>3 DEF BrokerStep, BuyFills, SellFills, memory, GraceInv, Streak
<1>4. CASE Restart
  BY SMT, <1>4, GraceType DEF Restart, ForgetBook, GraceInv, Streak, TypeOK
<1>5. CASE NextDay
  BY <1>5 DEF NextDay, memory, GraceInv, Streak
<1>6. CASE UNCHANGED vars
  BY <1>6 DEF vars, memory, GraceInv, Streak
<1> QED BY <1>1, <1>2, <1>3, <1>4, <1>5, <1>6 DEF Next, AgentStep, BrokerStep

LEMMA GraceInvariance == Spec => []GraceInv
<1>1. Init => GraceInv
  BY TypeInit, StreakInit DEF GraceInv
<1>2. GraceInv /\ [Next]_vars => GraceInv'
  BY TypeStep, StreakStep DEF GraceInv
<1> QED BY <1>1, <1>2, PTL DEF Spec

-----------------------------------------------------------------------------
(* The trade log. *)

\* A reconciliation moves log and book by the same amount, but for a
\* position that shrinks and stays; it records less only when it closes.
LEMMA RecordedMatches ==
  ASSUME TypeOK, NEW snap \in Snapshots, NEW s \in Symbols, Reconcile(snap)
  PROVE  /\ net'[s] = net[s] + Recorded(s, snap) /\ net[s] \in Int
         /\ Recorded(s, snap) < 0 => Closes(s, snap)
         /\ \/ Recorded(s, snap) = book'[s] - book[s]
            \/ 0 < book'[s] /\ book'[s] < book[s] /\ Recorded(s, snap) = 0
<1>1. book[s] \in Nat /\ snap[s] \in Nat /\ net[s] \in Int
  BY DEF TypeOK, BookTypeOK, Snapshots
<1>2. /\ book'[s] = IF Defers(s, snap) THEN book[s] ELSE snap[s]
      /\ net'[s] = net[s] + Recorded(s, snap)
  BY DEF Reconcile, ReconcileBook
<1>3. CASE Defers(s, snap)
  BY SMT, <1>1, <1>2, <1>3 DEF Recorded, Closes, Grows, Appears, Defers, Vanished, Present
<1>4. CASE ~Defers(s, snap)
  BY SMT, <1>1, <1>2, <1>4 DEF Recorded, Closes, Grows, Appears, Vanished, Present
<1> QED BY <1>3, <1>4

\* Steps that touch neither the log nor the scanning process.
LEMMA QuietSteps ==
  ASSUME GraceInv, [Next]_vars, stage' # "start"
  PROVE  \/ \E snap \in Snapshots : Reconcile(snap)
         \/ net' = net /\ book' = book
         \/ \E s \in Symbols : PreMarketDump(s)
         \/ stage = "start" /\ net' = net
<1>1. ASSUME NEW ok \in BOOLEAN, Update(ok)
      PROVE  (\E snap \in Snapshots : Reconcile(snap)) \/ (stage = "start" /\ net' = net)
  BY <1>1, TypeParts, SnapshotType DEF GraceInv, Update, Adopt, AdoptBook
<1>2. ASSUME NEW s \in Symbols, AgentStep(s)
      PROVE  (net' = net /\ book' = book) \/ PreMarketDump(s)
  BY <1>2 DEF AgentStep, OurExit, OurBuy, SetPendingReason
<1>3. ASSUME NEW s \in Symbols, BrokerStep(s) PROVE net' = net /\ book' = book
  BY <1>3 DEF BrokerStep, BuyFills, SellFills, memory
<1>4. ~Restart
  BY DEF Restart, ForgetBook
<1>5. CASE NextDay \/ UNCHANGED vars
  BY <1>5 DEF NextDay, vars, memory
<1> QED BY <1>1, <1>2, <1>3, <1>4, <1>5 DEF Next, AgentStep, BrokerStep

\* A sale that nothing speaks for is recorded only after CloseGrace snapshots
\* in a row without the position.
THEOREM GraceIsRespected == Spec => GraceRespected
<1>1. GraceInv /\ [Next]_vars =>
        [\A s \in Symbols :
           stage' = "scanning" /\ net'[s] < net[s] /\ ~Evidence(s) => absent'[s] >= CloseGrace]_vars
  <2> SUFFICES ASSUME GraceInv, [Next]_vars, NEW s \in Symbols,
                      stage' = "scanning", net'[s] < net[s], ~Evidence(s)
               PROVE  absent'[s] >= CloseGrace
    OBVIOUS
  <2>1. PICK snap \in Snapshots : Reconcile(snap)
    <3>1. ~(net'[s] < net[s] /\ net' = net)
      BY SMT DEF GraceInv, TypeOK
    <3>2. ~\E t \in Symbols : PreMarketDump(t)
      BY DEF PreMarketDump
    <3> QED BY <3>1, <3>2, QuietSteps
  <2>2. Closes(s, snap) /\ missing[s] + 1 >= CloseGrace
    <3>1. Closes(s, snap)
      <4>1. Recorded(s, snap) \in Int
        BY RecordedType DEF GraceInv
      <4> QED BY SMT, <2>1, <4>1, RecordedMatches DEF GraceInv
    <3> QED BY SMT, <3>1, GraceType DEF Closes, Defers, GraceInv, TypeOK, BookTypeOK
  <2>3. snap[s] = 0 /\ absent[s] \in Nat /\ missing[s] \in Nat /\ missing[s] <= absent[s]
    BY SMT, <2>2, GraceType DEF Closes, Vanished, GraceInv, TypeOK, BookTypeOK, Streak
  <2>4. absent'[s] = Smaller(absent[s] + 1, CloseGrace)
    BY SMT, <2>1, <2>3 DEF Reconcile, CountAbsent
  <2> QED BY SMT, <2>2, <2>3, <2>4, GraceType DEF Smaller
<1> QED BY <1>1, GraceInvariance, PTL DEF Spec, GraceRespected

\* Book and trade log move together for as long as a process lives, but for
\* a position that shrinks and stays open.
THEOREM BookIsLogged == Spec => EveryChangeLogged
<1>1. GraceInv /\ [Next]_vars =>
        [stage # "start" /\ stage' # "start" =>
           \A s \in Symbols : \/ net'[s] - net[s] = book'[s] - book[s]
                              \/ 0 < book'[s] /\ book'[s] < book[s] /\ net'[s] = net[s]]_vars
  <2> SUFFICES ASSUME GraceInv, [Next]_vars, stage # "start", stage' # "start",
                      NEW s \in Symbols
               PROVE  \/ net'[s] - net[s] = book'[s] - book[s]
                      \/ 0 < book'[s] /\ book'[s] < book[s] /\ net'[s] = net[s]
    OBVIOUS
  <2>0. net[s] \in Int /\ book[s] \in Nat
    BY DEF GraceInv, TypeOK, BookTypeOK
  <2>1. ASSUME NEW snap \in Snapshots, Reconcile(snap)
        PROVE  \/ net'[s] - net[s] = book'[s] - book[s]
               \/ 0 < book'[s] /\ book'[s] < book[s] /\ net'[s] = net[s]
    <3>1. Recorded(s, snap) \in Int
      BY RecordedType DEF GraceInv
    <3> QED BY SMT, <2>0, <2>1, <3>1, RecordedMatches DEF GraceInv
  <2>2. CASE net' = net /\ book' = book
    BY SMT, <2>0, <2>2
  <2>3. ASSUME NEW t \in Symbols, PreMarketDump(t)
        PROVE  net'[s] - net[s] = book'[s] - book[s]
    BY SMT, <2>0, <2>3 DEF PreMarketDump, GraceInv, TypeOK, BookTypeOK
  <2> QED BY <2>1, <2>2, <2>3, QuietSteps
<1> QED BY <1>1, GraceInvariance, PTL DEF Spec, EveryChangeLogged
=============================================================================
