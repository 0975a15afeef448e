------------------------- MODULE ExitProtocolProofs -------------------------
(***************************************************************************)
(* Theorems about ExitProtocol, for every set of symbols and every bound:  *)
(* types, and that the claims of the two threads exclude one another and   *)
(* are all released.                                                       *)
(***************************************************************************)
EXTENDS ExitProtocol, PositionBookProofs

\* The points between a claim and its release.
ClaimedPoints == {"guard", "order", "poll", "note", "release"}

\* What a call may look like at each point.
WellFormed(c) ==
  /\ c.claimed => c.at \in ClaimedPoints
  /\ c.at \in ClaimedPoints \cup {"add"} => c.sym \in Symbols
  /\ c.at = "release" => c.claimed

CallsOK == call \in [Threads -> Calls] /\ \A t \in Threads : WellFormed(call[t])

ClaimInv == CallsOK /\ exiting \in SUBSET Symbols /\ OneClaimant /\ NoOrphanClaim

-----------------------------------------------------------------------------
(* How a step changes one call. *)

\* Thread t's call becomes c, the other thread's stays.
Becomes(t, c) == call' = [call EXCEPT ![t] = c]

LEMMA IdleCall == Idle \in Calls /\ WellFormed(Idle) /\ ~Idle.claimed /\ Idle.at = "idle"
  BY DEF Idle, Calls, Points, WellFormed, ClaimedPoints

LEMMA BecomesOK ==
  ASSUME CallsOK, NEW t \in Threads, NEW c \in Calls, WellFormed(c), Becomes(t, c)
  PROVE  /\ CallsOK'
         /\ call'[t] = c
         /\ \A u \in Threads \ {t} : call'[u] = call[u]
  BY DEF CallsOK, Becomes, WellFormed

\* The calls after a step that moves on, ...
LEMMA GotoBecomes ==
  ASSUME CallsOK, NEW t \in Threads, NEW p \in ClaimedPoints, Goto(t, p),
         call[t].at \in ClaimedPoints \cup {"add"},
         p = "release" => call[t].claimed
  PROVE  \E c \in Calls : /\ WellFormed(c) /\ Becomes(t, c)
                          /\ c.claimed = call[t].claimed /\ c.sym = call[t].sym
<1> DEFINE c == [call[t] EXCEPT !.at = p]
<1>1. call[t] \in Calls /\ WellFormed(call[t])
  BY DEF CallsOK
<1>2. p \in Points
  BY DEF ClaimedPoints, Points
<1>3. /\ c \in Calls /\ c.claimed = call[t].claimed /\ c.sym = call[t].sym /\ c.at = p
  BY <1>1, <1>2 DEF Calls
<1>4. WellFormed(c)
  BY <1>1, <1>3 DEF WellFormed
<1>5. Becomes(t, c)
  BY DEF Goto, Becomes
<1> QED BY <1>3, <1>4, <1>5

\* ... and after one that returns to its caller.
LEMMA ReturnBecomes ==
  ASSUME CallsOK, NEW t \in Threads, Return(t),
         call[t].at \in ClaimedPoints \cup {"add"}
  PROVE  \E c \in Calls : /\ WellFormed(c) /\ Becomes(t, c)
                          /\ c.claimed = call[t].claimed
                          /\ c.claimed => c.sym = call[t].sym
<1>1. CASE call[t].claimed
  <2>1. Goto(t, "release") /\ "release" \in ClaimedPoints
    BY <1>1 DEF Return, ClaimedPoints
  <2> QED BY <1>1, <2>1, GotoBecomes
<1>2. CASE ~call[t].claimed
  <2>1. Becomes(t, Idle)
    BY <1>2 DEF Return, Becomes
  <2>2. call[t].claimed = FALSE /\ Idle.claimed = FALSE
    BY <1>2, IdleCall DEF CallsOK, Calls, Idle
  <2> QED BY <2>1, <2>2, IdleCall
<1> QED BY <1>1, <1>2

-----------------------------------------------------------------------------
(* The claims. *)

\* A step that leaves _exiting alone and claims nothing and releases nothing
\* preserves the claims, ...
LEMMA KeptClaims ==
  ASSUME ClaimInv, NEW t \in Threads, NEW c \in Calls, WellFormed(c), Becomes(t, c),
         c.claimed = call[t].claimed, c.claimed => c.sym = call[t].sym,
         exiting' = exiting
  PROVE  ClaimInv'
<1>1. /\ CallsOK' /\ call'[t] = c /\ \A u \in Threads \ {t} : call'[u] = call[u]
  BY BecomesOK DEF ClaimInv
<1>2. ASSUME NEW u \in Threads, NEW s \in Symbols PROVE Claims(u, s)' <=> Claims(u, s)
  <2>1. CASE u = t
    BY <1>1, <2>1 DEF Claims
  <2>2. CASE u # t
    BY <1>1, <2>2 DEF Claims
  <2> QED BY <2>1, <2>2
<1>3. OneClaimant'
  BY <1>2 DEF ClaimInv, OneClaimant
<1>4. NoOrphanClaim'
  BY <1>2 DEF ClaimInv, NoOrphanClaim
<1> QED BY <1>1, <1>3, <1>4 DEF ClaimInv

\* ... and so does one that touches neither.
LEMMA NoClaims ==
  ASSUME ClaimInv, UNCHANGED <<exiting, call>>
  PROVE  ClaimInv'
  BY DEF ClaimInv, CallsOK, WellFormed, OneClaimant, NoOrphanClaim, Claims

LEMMA ClaimClaims ==
  ASSUME ClaimInv, book \in [Symbols -> Nat], NEW t \in Threads, NEW s \in Symbols, Claim(t, s)
  PROVE  ClaimInv'
<1> DEFINE c == [at |-> "guard", sym |-> s, qty |-> book[s], claimed |-> TRUE, caught |-> FALSE]
<1>1. c \in Calls /\ WellFormed(c) /\ c.claimed /\ c.sym = s
  BY DEF Calls, Points, WellFormed, ClaimedPoints
<1>2. Becomes(t, c)
  BY DEF Claim, Becomes
<1>3. /\ CallsOK' /\ call'[t] = c /\ \A u \in Threads \ {t} : call'[u] = call[u]
  BY <1>1, <1>2, BecomesOK DEF ClaimInv
<1>4. ~call[t].claimed
  BY DEF Claim, At, ClaimInv, CallsOK, WellFormed, ClaimedPoints
<1>5. \A u \in Threads : ~Claims(u, s)
  BY DEF Claim, ClaimInv, NoOrphanClaim
<1>6. exiting' = exiting \cup {s}
  BY DEF Claim
<1>7. ASSUME NEW u \in Threads, NEW r \in Symbols
      PROVE  Claims(u, r)' <=> Claims(u, r) \/ (u = t /\ r = s)
  <2>1. CASE u = t
    BY <1>1, <1>3, <1>4, <2>1 DEF Claims
  <2>2. CASE u # t
    BY <1>3, <2>2 DEF Claims
  <2> QED BY <2>1, <2>2
<1>8. OneClaimant'
  BY <1>5, <1>7 DEF ClaimInv, OneClaimant
<1>9. NoOrphanClaim'
  BY <1>6, <1>7 DEF ClaimInv, NoOrphanClaim
<1> QED BY <1>3, <1>6, <1>8, <1>9 DEF ClaimInv

LEMMA ReleaseClaims ==
  ASSUME ClaimInv, NEW t \in Threads, Release(t)
  PROVE  ClaimInv'
<1> DEFINE s == call[t].sym
<1>1. call[t].claimed /\ s \in Symbols
  BY DEF Release, At, ClaimInv, CallsOK, WellFormed, ClaimedPoints
<1>2. /\ CallsOK' /\ call'[t] = Idle /\ \A u \in Threads \ {t} : call'[u] = call[u]
  BY IdleCall, BecomesOK DEF Release, Becomes, ClaimInv
<1>3. ASSUME NEW u \in Threads, NEW r \in Symbols
      PROVE  Claims(u, r)' <=> Claims(u, r) /\ u # t
  <2>1. CASE u = t
    BY <1>2, <2>1, IdleCall DEF Claims
  <2>2. CASE u # t
    BY <1>2, <2>2 DEF Claims
  <2> QED BY <2>1, <2>2
<1>4. OneClaimant'
  BY <1>3 DEF ClaimInv, OneClaimant
<1>5. \A u \in Threads \ {t} : ~Claims(u, s)
  BY <1>1 DEF ClaimInv, OneClaimant, Claims
<1>6. \A r \in Symbols : Claims(t, r) => r = s
  BY DEF Claims
<1>7. exiting' = exiting \ {s}
  BY DEF Release
<1>8. NoOrphanClaim'
  BY <1>3, <1>5, <1>6, <1>7 DEF ClaimInv, NoOrphanClaim
<1> QED BY <1>2, <1>4, <1>7, <1>8 DEF ClaimInv

\* A restart ends every call, and the new process starts with an empty set.
LEMMA RestartClaims ==
  ASSUME exiting' = {}, call' = [t \in Threads |-> Idle]
  PROVE  ClaimInv'
<1>1. \A t \in Threads : call'[t] = Idle
  OBVIOUS
<1>2. CallsOK'
  BY <1>1, IdleCall DEF CallsOK, WellFormed
<1>3. \A t \in Threads, s \in Symbols : ~Claims(t, s)'
  BY <1>1, IdleCall DEF Claims
<1> QED BY <1>2, <1>3 DEF ClaimInv, OneClaimant, NoOrphanClaim

-----------------------------------------------------------------------------
(* The claims, step by step. *)

LEMMA GuardClaims ==
  ASSUME ClaimInv, AccountTypeOK, NEW t \in Threads, NEW ok \in BOOLEAN, Guard(t, ok)
  PROVE  ClaimInv'
<1> DEFINE old == call[t]
           n == Smaller(old.qty, Snapshot(ok)[old.sym])
           c == [old EXCEPT !.at = "order", !.qty = n]
<1>1. old \in Calls /\ WellFormed(old) /\ old.at = "guard"
  BY DEF ClaimInv, CallsOK, Guard, At
<1>2. old.sym \in Symbols /\ old.qty \in Nat
  BY <1>1 DEF WellFormed, ClaimedPoints, Calls
<1>3. n \in Nat
  <2>1. Snapshot(ok)[old.sym] \in Nat
    BY <1>2, SnapshotType DEF Snapshots
  <2> QED BY <1>2, <2>1, SmallerType
<1>4. c \in Calls /\ c.claimed = old.claimed /\ c.sym = old.sym /\ c.at = "order"
  <2> HIDE DEF n
  <2> QED BY <1>1, <1>3 DEF Calls, Points
<1>5. WellFormed(c)
  BY <1>1, <1>4 DEF WellFormed, ClaimedPoints
<1>6. Becomes(t, c)
  <2>1. call' = [call EXCEPT ![t].at = "order", ![t].qty = n]
    BY DEF Guard
  <2>2. call \in [Threads -> Calls]
    BY DEF ClaimInv, CallsOK
  <2> HIDE DEF n
  <2> QED BY <2>1, <2>2 DEF Becomes
<1>7. exiting' = exiting
  BY DEF Guard
<1> QED BY <1>4, <1>5, <1>6, <1>7, KeptClaims

LEMMA PollClaims ==
  ASSUME ClaimInv, NEW t \in Threads, Poll(t)
  PROVE  ClaimInv'
<1>1. PICK caught \in BOOLEAN : call' = [call EXCEPT ![t].at = "note", ![t].caught = caught]
  BY DEF Poll
<1> DEFINE old == call[t]
           c == [old EXCEPT !.at = "note", !.caught = caught]
<1>2. old \in Calls /\ WellFormed(old) /\ old.at = "poll"
  BY DEF ClaimInv, CallsOK, Poll, At
<1>3. c \in Calls /\ c.claimed = old.claimed /\ c.sym = old.sym /\ c.at = "note"
  BY <1>2 DEF Calls, Points
<1>4. WellFormed(c)
  BY <1>2, <1>3 DEF WellFormed, ClaimedPoints
<1>5. Becomes(t, c)
  BY <1>1 DEF Becomes, ClaimInv, CallsOK
<1>6. exiting' = exiting
  BY DEF Poll
<1> QED BY <1>3, <1>4, <1>5, <1>6, KeptClaims

LEMMA GotoClaims ==
  ASSUME ClaimInv, NEW t \in Threads, NEW p \in ClaimedPoints, Goto(t, p),
         call[t].at \in ClaimedPoints \cup {"add"},
         p = "release" => call[t].claimed, exiting' = exiting
  PROVE  ClaimInv'
  BY GotoBecomes, KeptClaims DEF ClaimInv

LEMMA ReturnClaims ==
  ASSUME ClaimInv, NEW t \in Threads, Return(t),
         call[t].at \in ClaimedPoints \cup {"add"}, exiting' = exiting
  PROVE  ClaimInv'
  BY ReturnBecomes, KeptClaims DEF ClaimInv

LEMMA ThreadClaims ==
  ASSUME ClaimInv, AccountTypeOK, NEW t \in Threads, ThreadStep(t)
  PROVE  ClaimInv'
<1>1. ASSUME NEW ok \in BOOLEAN, Guard(t, ok) PROVE ClaimInv'
  BY <1>1, GuardClaims
<1>2. CASE Order(t)
  BY <1>2, GotoClaims DEF Order, At, ClaimedPoints
<1>3. CASE Refused(t)
  BY <1>3, ReturnClaims DEF Refused, At, ClaimedPoints
<1>4. CASE Poll(t)
  BY <1>4, PollClaims
<1>5. CASE Note(t)
  BY <1>5, ReturnClaims DEF Note, At, ClaimedPoints
<1>6. CASE Release(t)
  BY <1>6, ReleaseClaims
<1> QED BY <1>1, <1>2, <1>3, <1>4, <1>5, <1>6 DEF ThreadStep

\* A step of the scan loop that starts a call without a claim, or ends one.
LEMMA UnclaimedClaims ==
  ASSUME ClaimInv, NEW c \in Calls, WellFormed(c), ~c.claimed, Becomes("main", c),
         call["main"].at \in {"idle", "sync"}, exiting' = exiting
  PROVE  ClaimInv'
<1>1. "main" \in Threads /\ call["main"].claimed = FALSE
  BY DEF Threads, ClaimInv, CallsOK, WellFormed, ClaimedPoints, Calls
<1>2. c.claimed = FALSE
  BY DEF Calls
<1> QED BY <1>1, <1>2, KeptClaims

LEMMA CloseDirectlyClaims ==
  ASSUME ClaimInv, book \in [Symbols -> Nat], AccountTypeOK, NEW s \in Symbols, NEW q \in 1..MaxQty,
         CloseDirectly(s, q)
  PROVE  ClaimInv'
<1> DEFINE c == [at |-> "guard", sym |-> s, qty |-> q, claimed |-> FALSE, caught |-> FALSE]
<1>1. q \in Nat
  BY SMT, HeldType DEF CloseDirectly
<1>2. c \in Calls /\ WellFormed(c) /\ ~c.claimed
  BY <1>1 DEF Calls, Points, WellFormed, ClaimedPoints
<1> QED BY <1>2, UnclaimedClaims DEF CloseDirectly, At, Becomes

LEMMA AddCheckedClaims ==
  ASSUME ClaimInv, NEW s \in Symbols, AddChecked(s)
  PROVE  ClaimInv'
<1> DEFINE c == [Idle EXCEPT !.at = "add", !.sym = s]
<1>1. c \in Calls /\ WellFormed(c) /\ ~c.claimed
  BY DEF Idle, Calls, Points, WellFormed, ClaimedPoints
<1> QED BY <1>1, UnclaimedClaims DEF AddChecked, At, Becomes

LEMMA SyncFetchClaims ==
  ASSUME ClaimInv, NEW ok \in BOOLEAN, SyncFetch(ok)
  PROVE  ClaimInv'
<1> DEFINE old == call["main"]
           c == [old EXCEPT !.at = "sync"]
<1>1. old \in Calls /\ WellFormed(old) /\ old.at = "idle"
  BY DEF ClaimInv, CallsOK, SyncFetch, At, Threads
<1>2. ~old.claimed
  BY <1>1 DEF WellFormed, ClaimedPoints
<1>3. c \in Calls /\ c.claimed = old.claimed /\ c.at = "sync"
  BY <1>1 DEF Calls, Points
<1>4. WellFormed(c) /\ ~c.claimed
  BY <1>2, <1>3 DEF WellFormed, ClaimedPoints
<1> QED BY <1>1, <1>3, <1>4, UnclaimedClaims DEF SyncFetch, Goto, Becomes

-----------------------------------------------------------------------------
(* Types of the rest of the state. *)

RestTypeOK ==
  /\ tracked \in SUBSET Symbols
  /\ lock \in {"free", "main"} /\ snap \in [Symbols -> Nat]
  /\ working \in [Symbols -> Nat]

IInv == MemoryTypeOK /\ AccountTypeOK /\ RestTypeOK /\ ClaimInv

\* The call of a thread that is at the broker names a symbol.
LEMMA CallSymbol ==
  ASSUME ClaimInv, NEW t \in Threads, call[t].at \in ClaimedPoints \cup {"add"}
  PROVE  call[t].sym \in Symbols /\ call[t].qty \in Nat /\ call[t].caught \in BOOLEAN
  BY DEF ClaimInv, CallsOK, WellFormed, Calls

LEMMA ThreadStepInv ==
  ASSUME IInv, NEW t \in Threads, ThreadStep(t)
  PROVE  IInv'
<1>1. ClaimInv'
  BY ThreadClaims DEF IInv
<1>2. CASE (\E ok \in BOOLEAN : Guard(t, ok)) \/ Refused(t) \/ Poll(t) \/ Release(t)
  BY <1>1, <1>2, Untouched DEF IInv, RestTypeOK, Guard, Refused, Poll, Release
<1>3. CASE Order(t)
  <2>1. call[t].sym \in Symbols /\ call[t].qty \in Nat
    BY <1>3, CallSymbol DEF IInv, Order, At, ClaimedPoints
  <2>2. working' \in [Symbols -> Nat]
    <3>1. working' = [working EXCEPT ![call[t].sym] = working[call[t].sym] + call[t].qty]
      BY <1>3 DEF Order
    <3>2. working \in [Symbols -> Nat] /\ working[call[t].sym] + call[t].qty \in Nat
      BY SMT, <2>1 DEF IInv, RestTypeOK
    <3> QED BY <3>1, <3>2
  <2> QED BY <1>1, <1>3, <2>2, Untouched DEF IInv, RestTypeOK, Order
<1>4. CASE Note(t)
  <2>1. call[t].sym \in Symbols /\ call[t].caught \in BOOLEAN
    BY <1>4, CallSymbol DEF IInv, Note, At, ClaimedPoints
  <2> QED BY <1>1, <1>4, <2>1, PendingType, Untouched DEF IInv, RestTypeOK, Note
<1> QED BY <1>2, <1>3, <1>4 DEF ThreadStep

LEMMA ClaimStepInv ==
  ASSUME IInv, NEW t \in Threads, NEW s \in Symbols, Claim(t, s)
  PROVE  IInv'
<1>1. ClaimInv'
  BY ClaimClaims DEF IInv, MemoryTypeOK
<1> QED BY <1>1, Untouched DEF IInv, RestTypeOK, Claim

\* What only the scan loop does.
MainStep(s) ==
  \/ \E q \in 1..MaxQty : CloseDirectly(s, q) \/ AddPlaced(q)
  \/ SignalFindsNothing(s) \/ BuyAccepted(s) \/ AddChecked(s)

LEMMA MainStepInv ==
  ASSUME IInv, NEW s \in Symbols, MainStep(s)
  PROVE  IInv'
<1>1. ASSUME NEW q \in 1..MaxQty, CloseDirectly(s, q) PROVE IInv'
  <2>1. ClaimInv'
    BY <1>1, CloseDirectlyClaims DEF IInv, MemoryTypeOK
  <2> QED BY <1>1, <2>1, Untouched DEF IInv, RestTypeOK, CloseDirectly
<1>2. ASSUME NEW q \in 1..MaxQty, AddPlaced(q) PROVE IInv'
  <2>1. "main" \in Threads /\ call["main"].at = "add" /\ "note" \in ClaimedPoints
    BY <1>2 DEF AddPlaced, At, Threads, ClaimedPoints
  <2>2. ClaimInv'
    BY <1>2, <2>1, GotoClaims DEF AddPlaced, IInv
  <2>3. AccountTypeOK'
    <3>1. q \in Int /\ call["main"].sym \in Symbols
      BY SMT, <2>1, CallSymbol DEF IInv
    <3> QED BY <1>2, <3>1, BoughtType DEF AddPlaced, IInv
  <2> QED BY <1>2, <2>2, <2>3, Untouched DEF IInv, RestTypeOK, AddPlaced
<1>3. CASE SignalFindsNothing(s)
  BY <1>3, NoClaims, Untouched DEF IInv, RestTypeOK, SignalFindsNothing
<1>4. CASE BuyAccepted(s)
  BY <1>4, NoClaims, PendingType, Untouched DEF IInv, RestTypeOK, BuyAccepted
<1>5. CASE AddChecked(s)
  BY <1>5, AddCheckedClaims, Untouched DEF IInv, RestTypeOK, AddChecked
<1> QED BY <1>1, <1>2, <1>3, <1>4, <1>5 DEF MainStep

LEMMA NoteDumpInv == ASSUME IInv, NoteDump PROVE IInv'
<1>1. "main" \in Threads /\ call["main"].at \in ClaimedPoints
  BY DEF NoteDump, At, Threads, ClaimedPoints
<1>2. ClaimInv'
  BY <1>1, ReturnClaims DEF NoteDump, IInv
<1>3. MemoryTypeOK'
  <2>1. book' = [book EXCEPT ![call["main"].sym] = 0]
    BY DEF NoteDump
  <2>2. book' \in [Symbols -> Nat]
    <3>1. call["main"].sym \in Symbols
      BY <1>1, CallSymbol DEF IInv
    <3> QED BY SMT, <2>1, <3>1 DEF IInv, MemoryTypeOK
  <2> QED BY <2>2 DEF NoteDump, IInv, MemoryTypeOK
<1> QED BY <1>2, <1>3, Untouched DEF IInv, RestTypeOK, NoteDump

LEMMA AddRefusedInv == ASSUME IInv, AddRefused PROVE IInv'
<1>1. "main" \in Threads /\ call["main"].at = "add"
  BY DEF AddRefused, At, Threads
<1>2. ClaimInv'
  BY <1>1, ReturnClaims DEF AddRefused, IInv
<1> QED BY <1>2, Untouched DEF IInv, RestTypeOK, AddRefused

LEMMA SyncInv ==
  ASSUME IInv, SyncApply \/ \E ok \in BOOLEAN : SyncFetch(ok)
  PROVE  IInv'
<1>1. ASSUME NEW ok \in BOOLEAN, SyncFetch(ok) PROVE IInv'
  <2>1. snap' \in [Symbols -> Nat]
    BY <1>1, SnapshotType DEF SyncFetch, IInv, Snapshots
  <2> QED BY <1>1, <2>1, SyncFetchClaims, Untouched DEF IInv, RestTypeOK, SyncFetch
<1>2. CASE SyncApply
  <2>1. ClaimInv'
    BY <1>2, IdleCall, UnclaimedClaims DEF SyncApply, IInv, At, Becomes
  <2>2. MemoryTypeOK'
    BY <1>2, AdoptType, ReconcileType DEF SyncApply, IInv, RestTypeOK, Snapshots
  <2>3. tracked' \in SUBSET Symbols
    BY <1>2 DEF SyncApply, Synced, IInv, RestTypeOK
  <2>4. snap' \in [Symbols -> Nat]
    BY SMT, <1>2 DEF SyncApply
  <2> QED BY <1>2, <2>1, <2>2, <2>3, <2>4, Untouched DEF IInv, RestTypeOK, SyncApply
<1> QED BY <1>1, <1>2

LEMMA RestartInv == ASSUME IInv, Restart PROVE IInv'
<1>1. ClaimInv'
  BY RestartClaims DEF Restart
<1>2. snap' \in [Symbols -> Nat]
  BY SMT DEF Restart
<1> QED BY <1>1, <1>2, ForgetType, Untouched DEF IInv, RestTypeOK, Restart

BrokerStep(s) ==
  \/ \E q \in 1..MaxQty : BuyFills(s, q) \/ \E c \in BOOLEAN : WorkingFills(s, q, c)
  \/ WorkingLapses(s)

LEMMA BrokerInv ==
  ASSUME IInv, NEW s \in Symbols, BrokerStep(s)
  PROVE  IInv'
<1>0. 1..MaxQty \subseteq Int
  BY SMT
<1>1. ClaimInv'
  BY NoClaims DEF BrokerStep, BuyFills, WorkingFills, WorkingLapses, threads, IInv
<1>2. ASSUME NEW q \in 1..MaxQty, BuyFills(s, q) PROVE IInv'
  BY <1>0, <1>1, <1>2, BoughtType, Untouched DEF BuyFills, threads, IInv, RestTypeOK
<1>3. ASSUME NEW q \in 1..MaxQty, NEW c \in BOOLEAN, WorkingFills(s, q, c) PROVE IInv'
  <2>1. working' \in [Symbols -> Nat]
    BY SMT, <1>3 DEF WorkingFills, IInv, RestTypeOK
  <2> QED BY <1>0, <1>1, <1>3, <2>1, SoldType, Untouched DEF WorkingFills, threads, IInv, RestTypeOK
<1>4. CASE WorkingLapses(s)
  <2>1. working' \in [Symbols -> Nat]
    BY SMT, <1>4 DEF WorkingLapses, IInv, RestTypeOK
  <2> QED BY <1>1, <1>4, <2>1, Untouched DEF WorkingLapses, threads, IInv, RestTypeOK
<1> QED BY <1>2, <1>3, <1>4 DEF BrokerStep

-----------------------------------------------------------------------------
(* The theorems. *)

LEMMA InitInv == Init => IInv
<1> SUFFICES ASSUME Init PROVE IInv
  OBVIOUS
<1>1. MemoryTypeOK /\ AccountTypeOK
  BY BookInitType, BookTypeSplits DEF Init
<1>2. CallsOK
  BY IdleCall DEF Init, CallsOK
<1>3. \A t \in Threads, s \in Symbols : ~Claims(t, s)
  BY IdleCall DEF Init, Claims
<1>4. ClaimInv
  BY <1>2, <1>3 DEF Init, ClaimInv, OneClaimant, NoOrphanClaim
<1>5. RestTypeOK
  BY SMT DEF Init, RestTypeOK
<1> QED BY <1>1, <1>4, <1>5 DEF IInv

LEMMA NextInv == IInv /\ [Next]_vars => IInv'
<1> SUFFICES ASSUME IInv, [Next]_vars PROVE IInv'
  OBVIOUS
<1>1. ASSUME NEW t \in Threads, ThreadStep(t) PROVE IInv'
  BY <1>1, ThreadStepInv
<1>2. ASSUME NEW t \in Threads, NEW s \in Symbols, Claim(t, s) PROVE IInv'
  BY <1>2, ClaimStepInv
<1>3. ASSUME NEW s \in Symbols, MainStep(s) PROVE IInv'
  BY <1>3, MainStepInv
<1>4. ASSUME NEW s \in Symbols, BrokerStep(s) PROVE IInv'
  BY <1>4, BrokerInv
<1>5. ASSUME NEW q \in 1..MaxQty, AddPlaced(q) PROVE IInv'
  <2>1. call["main"].sym \in Symbols
    BY <1>5, CallSymbol DEF AddPlaced, At, Threads, IInv
  <2> QED BY <1>5, <2>1, MainStepInv DEF MainStep
<1>6. CASE NoteDump \/ AddRefused \/ Restart \/ SyncApply \/ \E ok \in BOOLEAN : SyncFetch(ok)
  BY <1>6, NoteDumpInv, AddRefusedInv, RestartInv, SyncInv
<1>7. CASE NextDay
  BY <1>7, NoClaims, SettledType, Untouched DEF NextDay, threads, IInv, RestTypeOK
<1>8. CASE UNCHANGED vars
  BY <1>8, NoClaims, Untouched DEF vars, threads, IInv, RestTypeOK
<1> QED BY <1>1, <1>2, <1>3, <1>4, <1>5, <1>6, <1>7, <1>8 DEF Next, MainStep, BrokerStep

LEMMA Invariance == Spec => []IInv
  BY InitInv, NextInv, PTL DEF Spec

\* Every reachable state of the two threads is well typed.
THEOREM TypeCorrect == Spec => []TypeOK
<1>1. IInv => TypeOK
  BY BookTypeSplits DEF IInv, RestTypeOK, ClaimInv, CallsOK, TypeOK
<1> QED BY <1>1, Invariance, PTL

\* The websocket callback and the scan loop never both run a claimed exit of
\* one position, whatever the sync does to its tracker meanwhile.
THEOREM ClaimsExclude == Spec => []OneClaimant
<1>1. IInv => OneClaimant
  BY DEF IInv, ClaimInv
<1> QED BY <1>1, Invariance, PTL

\* _exiting holds exactly the symbols of the claimed exits under way: every
\* path out of a claimed exit, refusals included, gives its symbol back.
THEOREM ClaimsAreReleased == Spec => []NoOrphanClaim
<1>1. IInv => NoOrphanClaim
  BY DEF IInv, ClaimInv
<1> QED BY <1>1, Invariance, PTL
=============================================================================
