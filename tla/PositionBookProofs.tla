------------------------- MODULE PositionBookProofs -------------------------
(***************************************************************************)
(* Lemmas about the operators of PositionBook: what each step of update(), *)
(* of the trader's calls and of the broker leaves well typed.  The proofs  *)
(* of PortfolioSync and ExitProtocol cite them.                            *)
(***************************************************************************)
EXTENDS PositionBook, TLAPS

MemoryTypeOK ==
  /\ stage \in Stages /\ book \in [Symbols -> Nat]
  /\ reason \in SUBSET Symbols /\ fill \in SUBSET Symbols
  /\ missing \in [Symbols -> 0..CloseGrace - 1]

AccountTypeOK ==
  /\ settled \in [Symbols -> Nat] /\ today \in [Symbols -> Int]
  /\ soldToday \in SUBSET Symbols

LEMMA BookTypeSplits == BookTypeOK <=> MemoryTypeOK /\ AccountTypeOK
  BY DEF BookTypeOK, MemoryTypeOK, AccountTypeOK

Snapshots == [Symbols -> Nat]

LEMMA GraceType == CloseGrace \in Nat \ {0}
  BY BookAssumption DEF BookAssumption

\* What the connector returns, whole or partial, never shows a short position.
LEMMA SnapshotType ==
  ASSUME AccountTypeOK, NEW ok \in BOOLEAN
  PROVE  Snapshot(ok) \in Snapshots
  BY SMT DEF AccountTypeOK, Snapshot, Snapshots, NonNegative

LEMMA HeldType == ASSUME AccountTypeOK, NEW s \in Symbols PROVE Held(s) \in Nat
  BY SMT DEF AccountTypeOK, Held, NonNegative

LEMMA SmallerType ==
  ASSUME NEW a \in Nat, NEW b \in Nat PROVE Smaller(a, b) \in Nat
  BY SMT DEF Smaller

LEMMA BookInitType == BookInit /\ AccountInit => BookTypeOK
  BY SMT, GraceType DEF BookInit, AccountInit, BookTypeOK, Stages

-----------------------------------------------------------------------------
(* update() *)

\* The streak of one symbol stays below the grace.
LEMMA MissingType ==
  ASSUME MemoryTypeOK, NEW snap \in Snapshots, NEW s \in Symbols
  PROVE  MissingAfter(s, snap) \in 0..CloseGrace - 1
<1>1. missing[s] \in 0..CloseGrace - 1 /\ CloseGrace \in Nat \ {0}
  BY SMT, GraceType DEF MemoryTypeOK
<1>2. CASE Defers(s, snap)
  BY SMT, <1>1, <1>2 DEF MissingAfter, Defers
<1>3. CASE ~Defers(s, snap)
  BY SMT, <1>1, <1>3 DEF MissingAfter
<1> QED BY <1>2, <1>3

LEMMA AdoptType ==
  ASSUME MemoryTypeOK, NEW snap \in Snapshots, AdoptBook(snap)
  PROVE  MemoryTypeOK'
  BY SMT DEF AdoptBook, MemoryTypeOK, Snapshots, Stages

LEMMA ReconcileType ==
  ASSUME MemoryTypeOK, NEW snap \in Snapshots, ReconcileBook(snap)
  PROVE  MemoryTypeOK'
<1>1. missing' \in [Symbols -> 0..CloseGrace - 1]
  BY MissingType DEF ReconcileBook
<1>2. book' \in [Symbols -> Nat]
  BY DEF ReconcileBook, MemoryTypeOK, Snapshots
<1> QED BY <1>1, <1>2 DEF ReconcileBook, MemoryTypeOK, Stages

-----------------------------------------------------------------------------
(* The trader's calls and the broker. *)

LEMMA PendingType ==
  ASSUME MemoryTypeOK, NEW s \in Symbols, NEW with \in BOOLEAN, SetPendingReason(s, with)
  PROVE  MemoryTypeOK' /\ stage' = stage /\ book' = book /\ missing' = missing
  BY SMT DEF MemoryTypeOK, SetPendingReason

LEMMA ForgetType ==
  ASSUME ForgetBook PROVE MemoryTypeOK'
  BY SMT, GraceType DEF ForgetBook, MemoryTypeOK, Stages

LEMMA SoldType ==
  ASSUME AccountTypeOK, NEW s \in Symbols, NEW q \in Int, NEW c \in BOOLEAN, Sold(s, q, c)
  PROVE  AccountTypeOK'
  BY SMT DEF AccountTypeOK, Sold

LEMMA BoughtType ==
  ASSUME AccountTypeOK, NEW s \in Symbols, NEW q \in Int, Bought(s, q)
  PROVE  AccountTypeOK'
  BY SMT DEF AccountTypeOK, Bought

LEMMA SettledType ==
  ASSUME AccountTypeOK, Settled PROVE AccountTypeOK'
  BY SMT, HeldType DEF AccountTypeOK, Settled

LEMMA Untouched ==
  /\ MemoryTypeOK /\ UNCHANGED memory => MemoryTypeOK'
  /\ AccountTypeOK /\ UNCHANGED account => AccountTypeOK'
  BY DEF MemoryTypeOK, memory, AccountTypeOK, account
=============================================================================
