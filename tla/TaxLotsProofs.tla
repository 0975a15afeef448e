---------------------------- MODULE TaxLotsProofs ----------------------------
(***************************************************************************)
(* Theorems about the tax engines of the growth bots (TaxLots), for every  *)
(* history, allowance and calendar.  The engines are folds over the trades *)
(* of a ledger: the first sections say what a fold and a sum over a set    *)
(* come to, the next what is left of each purchase after a replay, those   *)
(* after them what the UK matching rules make of a day and a year, and     *)
(* then that a harvest leaves no tax to pay.  The last section puts the    *)
(* types of all parts of MCFleet together.                                 *)
(***************************************************************************)
EXTENDS FleetPlansProofs

-----------------------------------------------------------------------------
(* The tax engines (TaxLots).  A fold takes the element that pick names    *)
(* out of a set and goes on with the rest: what holds of the empty set and *)
(* of a set whenever it holds of its rest, holds of every finite set.      *)

Picks(pick, S) == \A s \in SUBSET S : s # {} => pick[s] \in s
RestOf(pick, s) == s \ {pick[s]}
Closes(pick, S, G) == \A s \in SUBSET S : (s = {} \/ RestOf(pick, s) \in G) => s \in G

LEMMA EverySubset ==
  ASSUME NEW S, IsFiniteSet(S), NEW pick, Picks(pick, S), NEW G, Closes(pick, S, G)
  PROVE  SUBSET S \subseteq G
<1> DEFINE Bad == {s \in SUBSET S : s \notin G}
<1> SUFFICES ASSUME Bad # {} PROVE FALSE
  OBVIOUS
<1>1. Bad \in SUBSET (SUBSET S)
  OBVIOUS
<1> HIDE DEF Bad
<1>2. PICK s \in Bad : \A u \in Bad : u \subseteq s => u = s
  BY <1>1, SmallestOf
<1>3. s \in SUBSET S /\ s \notin G
  BY DEF Bad
<1> s # {}
  BY <1>3 DEF Closes
<1>4. pick[s] \in s
  BY <1>3 DEF Picks
<1>5. RestOf(pick, s) \notin Bad
  BY <1>2, <1>4 DEF RestOf
<1>6. RestOf(pick, s) \in G
  BY <1>3, <1>5 DEF Bad, RestOf
<1> QED BY <1>3, <1>6 DEF Closes

FoldsUp(F, pick, base, S, g) ==
  g = [s \in SUBSET S |-> IF s = {} THEN base ELSE F[pick[s]][g[RestOf(pick, s)]]]
FoldOf(F, pick, base, S) == CHOOSE g : FoldsUp(F, pick, base, S, g)

LEMMA FoldUnrolled ==
  ASSUME NEW F, NEW pick, NEW base, NEW S, NEW g, FoldsUp(F, pick, base, S, g), NEW s \in SUBSET S
  PROVE  g[s] = IF s = {} THEN base ELSE F[pick[s]][g[RestOf(pick, s)]]
  BY DEF FoldsUp

LEMMA FoldIsUnique ==
  ASSUME NEW F, NEW pick, NEW base, NEW S, IsFiniteSet(S), Picks(pick, S), NEW T \in SUBSET S,
         NEW g, FoldsUp(F, pick, base, S, g), NEW h, FoldsUp(F, pick, base, T, h)
  PROVE  \A s \in SUBSET T : g[s] = h[s]
<1> DEFINE G == {s \in SUBSET T : g[s] = h[s]}
<1>1. IsFiniteSet(T) /\ Picks(pick, T)
  BY FS_Subset DEF Picks
<1>2. ASSUME NEW s \in SUBSET T, s = {} \/ RestOf(pick, s) \in G PROVE s \in G
  <2>1. s \in SUBSET S
    OBVIOUS
  <2>2. g[s] = IF s = {} THEN base ELSE F[pick[s]][g[RestOf(pick, s)]]
    BY <2>1, FoldUnrolled
  <2>3. h[s] = IF s = {} THEN base ELSE F[pick[s]][h[RestOf(pick, s)]]
    BY FoldUnrolled
  <2>4. s # {} => g[RestOf(pick, s)] = h[RestOf(pick, s)]
    BY <1>2
  <2> QED BY <2>2, <2>3, <2>4
<1>3. Closes(pick, T, G)
  BY <1>2 DEF Closes
<1> HIDE DEF G
<1>4. SUBSET T \subseteq G
  BY <1>1, <1>3, EverySubset
<1> QED BY <1>4 DEF G

LEMMA FoldExists ==
  ASSUME NEW F, NEW pick, NEW base, NEW S, IsFiniteSet(S), Picks(pick, S)
  PROVE  FoldsUp(F, pick, base, S, FoldOf(F, pick, base, S))
<1> DEFINE Fold(s) == FoldOf(F, pick, base, s)
           Ok(s) == FoldsUp(F, pick, base, s, Fold(s))
           Bad == {s \in SUBSET S : ~Ok(s)}
<1> SUFFICES ASSUME Bad # {} PROVE FALSE
  OBVIOUS
<1>1. Bad \in SUBSET (SUBSET S)
  OBVIOUS
<1> HIDE DEF Bad
<1>2. PICK T \in Bad : \A u \in Bad : u \subseteq T => u = T
  BY <1>1, SmallestOf
<1>3. T \in SUBSET S /\ ~Ok(T)
  BY DEF Bad
<1>4. ASSUME NEW q \in SUBSET T, q # T PROVE Ok(q) /\ IsFiniteSet(q) /\ Picks(pick, q)
  <2>1. q \in SUBSET S /\ q \notin Bad
    BY <1>2, <1>3, <1>4
  <2>2. IsFiniteSet(q) /\ Picks(pick, q)
    BY <2>1, FS_Subset DEF Picks
  <2> QED BY <2>1, <2>2 DEF Bad
<1> DEFINE Less(s) == RestOf(pick, s)
           h == [s \in SUBSET T |-> IF s = {} THEN base ELSE F[pick[s]][Fold(Less(s))[Less(s)]]]
<1>5. ASSUME NEW s \in SUBSET T, s # {} PROVE Less(s) \in SUBSET s /\ Less(s) # s /\ Less(s) # T
  BY <1>3, <1>5 DEF Picks, RestOf
<1>6. ASSUME NEW q \in SUBSET T, q # T PROVE h[q] = Fold(q)[q]
  <2>1. Ok(q) /\ IsFiniteSet(q) /\ Picks(pick, q)
    BY <1>4, <1>6
  <2> HIDE DEF Less, Fold
  <2>2. Fold(q)[q] = IF q = {} THEN base ELSE F[pick[q]][Fold(q)[Less(q)]]
    BY <2>1, FoldUnrolled DEF Less
  <2>3. ASSUME q # {} PROVE Fold(q)[Less(q)] = Fold(Less(q))[Less(q)]
    <3>1. Less(q) \in SUBSET q /\ Less(q) # T
      BY <1>5, <2>3
    <3>2. Ok(Less(q))
      BY <1>4, <3>1
    <3> QED BY <2>1, <3>1, <3>2, FoldIsUnique
  <2> QED BY <2>2, <2>3
<1>7. ASSUME NEW s \in SUBSET T, s # {} PROVE h[Less(s)] = Fold(Less(s))[Less(s)]
  <2>1. Less(s) \in SUBSET T /\ Less(s) # T
    BY <1>5, <1>7
  <2> HIDE DEF h, Less, Fold
  <2> QED BY <1>6, <2>1
<1>8. FoldsUp(F, pick, base, T, h)
  <2>1. h = [s \in SUBSET T |-> IF s = {} THEN base ELSE F[pick[s]][Fold(Less(s))[Less(s)]]]
    OBVIOUS
  <2> HIDE DEF h, Fold
  <2>2. h = [s \in SUBSET T |-> IF s = {} THEN base ELSE F[pick[s]][h[Less(s)]]]
    BY <1>7, <2>1
  <2> QED BY <2>2 DEF FoldsUp
<1> HIDE DEF h
<1>9. Ok(T)
  BY <1>8 DEF FoldOf
<1> QED BY <1>3, <1>9

-----------------------------------------------------------------------------
(* Histories of trades: their indices, their sums and their order.         *)

Trade == [day : TaxLots!Days, side : {"BUY", "SELL"}, qty : Nat \ {0}, price : Price]
Steps(h) == {i \in DOMAIN h : i + 1 \in DOMAIN h}
Chronological(h) == \A i, j \in DOMAIN h : i < j => h[i].day <= h[j].day
NeverShort(h) == \A c \in 1 .. Len(h) + 1 : TaxLots!Prior(h, "SELL", c) <= TaxLots!Prior(h, "BUY", c)
Sound(h) == h \in Seq(Trade) /\ Chronological(h) /\ NeverShort(h)

Buys(h) == TaxLots!Of("BUY", h)
Sales(h) == TaxLots!Of("SELL", h)

LEMMA TotalsAreSums == \A f, S : TaxLots!Total(f, S) = Sum(f, S)
  BY DEF TaxLots!Total, TaxLots!MapThenSumSet, TaxLots!MapThenFoldSet,
         Sum, SumOf, SumsUp, FirstOf, Rest

Cuts(h) == 1 .. Len(h) + 1

LEMMA TradeParts ==
  ASSUME NEW t \in Trade
  PROVE  /\ t.day \in TaxLots!Days /\ t.day \in Int /\ t.qty \in Int /\ t.qty > 0
         /\ t.price \in Price /\ t.price \in Int /\ t.price >= 0 /\ t.side \in {"BUY", "SELL"}
<1>1. TaxLots!Days \subseteq Int /\ Price \subseteq Nat
  BY TaxAssumption DEF TaxLots!Days
<1>2. t.day \in TaxLots!Days /\ t.side \in {"BUY", "SELL"} /\ t.qty \in Nat \ {0} /\ t.price \in Price
  BY DEF Trade
<1>3. t.day \in Int /\ t.price \in Nat
  BY <1>1, <1>2
<1>4. ASSUME NEW n \in Nat \ {0} PROVE n \in Int /\ n > 0
  OBVIOUS
<1>5. ASSUME NEW n \in Nat PROVE n \in Int /\ n >= 0
  OBVIOUS
<1> QED BY <1>2, <1>3, <1>4, <1>5

LEMMA TradesOf ==
  ASSUME NEW h \in Seq(Trade)
  PROVE  /\ Len(h) \in Nat /\ DOMAIN h = 1 .. Len(h) /\ IsFiniteSet(DOMAIN h)
         /\ \A i \in DOMAIN h : /\ h[i] \in Trade /\ i \in Int /\ h[i].day \in Int /\ h[i].qty \in Int
                                /\ h[i].qty > 0 /\ h[i].price \in Int /\ h[i].price >= 0
                                /\ h[i].side \in {"BUY", "SELL"}
         /\ Buys(h) \subseteq DOMAIN h /\ Sales(h) \subseteq DOMAIN h /\ Buys(h) \cap Sales(h) = {}
         /\ DOMAIN h = Buys(h) \cup Sales(h)
<1>1. Len(h) \in Nat /\ DOMAIN h = 1 .. Len(h)
  OBVIOUS
<1>2. IsFiniteSet(1 .. Len(h))
  BY <1>1, FS_Interval
<1>3. ASSUME NEW i \in DOMAIN h
      PROVE  /\ h[i] \in Trade /\ i \in Int /\ h[i].day \in Int /\ h[i].qty \in Int
             /\ h[i].qty > 0 /\ h[i].price \in Int /\ h[i].price >= 0
             /\ h[i].side \in {"BUY", "SELL"}
  <2>1. h[i] \in Trade
    BY <1>3
  <2> QED BY <1>1, <2>1, TradeParts
<1> QED BY <1>1, <1>2, <1>3 DEF Buys, Sales, TaxLots!Of

LEMMA TradeAt ==
  ASSUME NEW h \in Seq(Trade), NEW i \in DOMAIN h
  PROVE  /\ h[i] \in Trade /\ i \in Nat \ {0} /\ h[i].day \in Int
         /\ h[i].qty \in Nat /\ h[i].qty > 0 /\ h[i].price \in Int /\ h[i].price >= 0
         /\ i \in Cuts(h) /\ i + 1 \in Cuts(h)
<1>1. i \in 1 .. Len(h) /\ Len(h) \in Nat
  BY TradesOf
<1>2. i \in Nat \ {0} /\ i \in Cuts(h) /\ i + 1 \in Cuts(h)
  BY <1>1 DEF Cuts
<1>3. /\ h[i] \in Trade /\ h[i].day \in Int /\ h[i].qty \in Int
      /\ h[i].qty > 0 /\ h[i].price \in Int /\ h[i].price >= 0
  BY TradesOf
<1> HIDE DEF Trade
<1>4. h[i].qty \in Nat
  BY <1>3
<1> QED BY <1>2, <1>3, <1>4

QtyOf(h) == [i \in DOMAIN h |-> h[i].qty]

LEMMA SharesAreSummed ==
  ASSUME NEW h, IsFiniteSet(DOMAIN h), NEW S \in SUBSET DOMAIN h
  PROVE  TaxLots!Shares(h, S) = Sum(QtyOf(h), S)
<1>1. IsFiniteSet(S)
  BY FS_Subset
<1>2. Alike([i \in S |-> h[i].qty], QtyOf(h), S)
  BY DEF Alike, QtyOf
<1>3. TaxLots!Shares(h, S) = Sum([i \in S |-> h[i].qty], S)
  BY TotalsAreSums DEF TaxLots!Shares
<1> QED BY <1>1, <1>2, <1>3, SumAlike

LEMMA SharesWithOneMore ==
  ASSUME NEW h \in Seq(Trade), NEW S \in SUBSET DOMAIN h, NEW i \in DOMAIN h, i \notin S
  PROVE  TaxLots!Shares(h, S \cup {i}) = TaxLots!Shares(h, S) + h[i].qty
<1>1. IsFiniteSet(DOMAIN h) /\ S \cup {i} \in SUBSET DOMAIN h
  BY TradesOf
<1>2. Sums(QtyOf(h), S \cup {i}) /\ Sums(QtyOf(h), S)
  BY <1>1, TradesOf, FS_Subset DEF Sums, QtyOf
<1>3. Sum(QtyOf(h), S \cup {i}) = QtyOf(h)[i] + Sum(QtyOf(h), S) /\ Sum(QtyOf(h), S) \in Int
  BY <1>2, SumWithOneMore, SumIsInt
<1>4. QtyOf(h)[i] = h[i].qty /\ h[i].qty \in Int
  BY TradesOf DEF QtyOf
<1> QED BY <1>1, <1>3, <1>4, SharesAreSummed

LEMMA SharesOfNothing ==
  ASSUME NEW h, IsFiniteSet(DOMAIN h)
  PROVE  TaxLots!Shares(h, {}) = 0
  BY SharesAreSummed, SumOfNothing

LEMMA SharesAreInt ==
  ASSUME NEW h \in Seq(Trade), NEW S \in SUBSET DOMAIN h
  PROVE  TaxLots!Shares(h, S) \in Int
<1>1. IsFiniteSet(DOMAIN h) /\ Sums(QtyOf(h), S)
  BY TradesOf, FS_Subset DEF Sums, QtyOf
<1> QED BY <1>1, SumIsInt, SharesAreSummed

(* Whatever holds of the first place and passes on holds of every place.   *)
Passes(n, G) == 1 \in G /\ \A c \in 1 .. n : c \in G => c + 1 \in G

LEMMA EveryCut ==
  ASSUME NEW n \in Nat, NEW G, Passes(n, G)
  PROVE  1 .. n + 1 \subseteq G
<1> DEFINE Bad == {c \in 0 - (n + 1) .. 0 - 1 : 0 - c \notin G}
<1>1. CASE Bad = {}
  <2>1. ASSUME NEW c \in 1 .. n + 1 PROVE c \in G
    <3>1. 0 - c \in 0 - (n + 1) .. 0 - 1 /\ 0 - (0 - c) = c
      OBVIOUS
    <3> QED BY <1>1, <3>1
  <2> QED BY <2>1
<1>2. CASE Bad # {}
  <2>1. Bad \in SUBSET Int /\ IsFiniteSet(Bad)
    <3>1. IsFiniteSet(0 - (n + 1) .. 0 - 1)
      BY FS_Interval
    <3> QED BY <3>1, FS_Subset
  <2> HIDE DEF Bad
  <2>2. PICK m \in Bad : \A k \in Bad : k <= m
    BY <1>2, <2>1, LastOf
  <2> DEFINE c == 0 - m
  <2>3. c \in 1 .. n + 1 /\ c \notin G
    BY DEF Bad
  <2>4. CASE c = 1
    BY <2>3, <2>4 DEF Passes
  <2>5. CASE c # 1
    <3>1. c - 1 \in 1 .. n /\ (c - 1) + 1 = c
      BY <2>3, <2>5
    <3>2. m + 1 \in 0 - (n + 1) .. 0 - 1 /\ 0 - (m + 1) = c - 1 /\ ~(m + 1 <= m)
      BY <2>1, <2>3, <2>5
    <3>3. c - 1 \in G
      BY <2>2, <3>2 DEF Bad
    <3> HIDE DEF c
    <3> QED BY <2>3, <3>1, <3>3 DEF Passes
  <2> QED BY <2>4, <2>5
<1> QED BY <1>1, <1>2

LEMMA PriorSteps ==
  ASSUME NEW h \in Seq(Trade), NEW side, NEW c \in DOMAIN h
  PROVE  TaxLots!Prior(h, side, c + 1)
           = TaxLots!Prior(h, side, c) + IF h[c].side = side THEN h[c].qty ELSE 0
<1> DEFINE S == {k \in TaxLots!Of(side, h) : k < c}
           T == {k \in TaxLots!Of(side, h) : k < c + 1}
<1>1. /\ S \in SUBSET DOMAIN h /\ c \notin S
      /\ T = IF h[c].side = side THEN S \cup {c} ELSE S
  <2>1. DOMAIN h \subseteq Int
    BY TradesOf
  <2> QED BY <2>1 DEF TaxLots!Of
<1>2. TaxLots!Shares(h, S) \in Int
  BY <1>1, SharesAreInt
<1> HIDE DEF S, T
<1>3. TaxLots!Shares(h, T) = TaxLots!Shares(h, S) + IF h[c].side = side THEN h[c].qty ELSE 0
  BY <1>1, <1>2, SharesWithOneMore
<1> QED BY <1>3 DEF S, T, TaxLots!Prior

LEMMA PriorStarts ==
  ASSUME NEW h \in Seq(Trade), NEW side
  PROVE  TaxLots!Prior(h, side, 1) = 0
<1>1. {k \in TaxLots!Of(side, h) : k < 1} = {}
  BY TradesOf DEF TaxLots!Of
<1> QED BY <1>1, SharesOfNothing, TradesOf DEF TaxLots!Prior

LEMMA PriorIsNat ==
  ASSUME NEW h \in Seq(Trade), NEW side
  PROVE  \A c \in Cuts(h) : TaxLots!Prior(h, side, c) \in Nat
<1> DEFINE G == {c \in Cuts(h) : TaxLots!Prior(h, side, c) \in Nat}
<1>1. Passes(Len(h), G)
  <2>1. 1 \in G
    BY PriorStarts, TradesOf DEF Cuts
  <2>2. ASSUME NEW c \in 1 .. Len(h), c \in G PROVE c + 1 \in G
    <3>1. TaxLots!Prior(h, side, c) \in Nat /\ c \in DOMAIN h /\ c + 1 \in Cuts(h)
      BY <2>2, TradesOf DEF Cuts
    <3>2. TaxLots!Prior(h, side, c + 1)
            = TaxLots!Prior(h, side, c) + IF h[c].side = side THEN h[c].qty ELSE 0
      BY <3>1, PriorSteps
    <3>3. h[c].qty \in Nat
      BY <3>1, TradeAt
    <3> QED BY <3>1, <3>2, <3>3
  <2> QED BY <2>1, <2>2 DEF Passes
<1> HIDE DEF G
<1>2. 1 .. Len(h) + 1 \subseteq G
  BY <1>1, EveryCut, TradesOf
<1> QED BY <1>2 DEF G, Cuts

LEMMA PriorGrows ==
  ASSUME NEW h \in Seq(Trade), NEW side, NEW a \in Cuts(h)
  PROVE  \A c \in Cuts(h) : a <= c => TaxLots!Prior(h, side, a) <= TaxLots!Prior(h, side, c)
<1> DEFINE P(c) == TaxLots!Prior(h, side, c)
           G == {c \in Cuts(h) : a <= c => P(a) <= P(c)}
<1>0. Cuts(h) = 1 .. Len(h) + 1 /\ Len(h) \in Nat /\ DOMAIN h = 1 .. Len(h)
  BY TradesOf DEF Cuts
<1>1. Passes(Len(h), G)
  <2>1. 1 \in G
    <3>1. a <= 1 => a = 1
      BY <1>0
    <3>2. 1 \in Cuts(h) /\ P(1) \in Nat
      BY <1>0, PriorIsNat
    <3> HIDE DEF P
    <3> QED BY <3>1, <3>2
  <2>2. ASSUME NEW c \in 1 .. Len(h), c \in G PROVE c + 1 \in G
    <3>1. c \in Cuts(h) /\ c \in DOMAIN h /\ c + 1 \in Cuts(h) /\ a \in Int /\ c \in Int
      BY <1>0
    <3>2. P(c + 1) = P(c) + IF h[c].side = side THEN h[c].qty ELSE 0
      BY <3>1, PriorSteps
    <3>3. h[c].qty \in Nat /\ P(c) \in Nat /\ P(a) \in Nat
      BY <3>1, TradeAt, PriorIsNat
    <3>4. a <= c => P(a) <= P(c)
      BY <2>2
    <3> HIDE DEF P
    <3>5. P(c) <= P(c + 1) /\ P(c + 1) \in Nat
      BY <3>2, <3>3
    <3>6. a <= c + 1 => a <= c \/ a = c + 1
      BY <3>1
    <3> QED BY <3>1, <3>3, <3>4, <3>5, <3>6
  <2> QED BY <2>1, <2>2 DEF Passes
<1> HIDE DEF G
<1>2. 1 .. Len(h) + 1 \subseteq G
  BY <1>0, <1>1, EveryCut
<1> QED BY <1>2 DEF G, Cuts

-----------------------------------------------------------------------------
(* The numbers of shares, as arithmetic.                                   *)

Larger(a, b) == IF a <= b THEN b ELSE a
Smaller(a, b) == IF a <= b THEN a ELSE b
Overlap(a, b, c, d) ==
  IF Larger(a, c) < Smaller(b, d) THEN Smaller(b, d) - Larger(a, c) ELSE 0
Beyond(a, b, t) == IF Larger(a, t) < b THEN b - Larger(a, t) ELSE 0

LEMMA OverlapCounts ==
  ASSUME NEW a \in Int, NEW b \in Int, NEW c \in Int, NEW d \in Int
  PROVE  Cardinality((a + 1 .. b) \cap (c + 1 .. d)) = Overlap(a, b, c, d)
<1> DEFINE lo == Larger(a, c)
           hi == Smaller(b, d)
<1>1. lo \in Int /\ hi \in Int
  BY DEF Larger, Smaller
<1>2. (a + 1 .. b) \cap (c + 1 .. d) = lo + 1 .. hi
  BY DEF Larger, Smaller
<1> HIDE DEF lo, hi
<1>3. Cardinality(lo + 1 .. hi) = IF lo + 1 > hi THEN 0 ELSE hi - (lo + 1) + 1
  BY <1>1, FS_Interval
<1>4. Cardinality(lo + 1 .. hi) = IF lo < hi THEN hi - lo ELSE 0
  BY <1>1, <1>3
<1> QED BY <1>2, <1>4 DEF lo, hi, Overlap

LEMMA BeyondCounts ==
  ASSUME NEW a \in Nat, NEW b \in Int, NEW t \in Nat
  PROVE  Cardinality((a + 1 .. b) \ (1 .. t)) = Beyond(a, b, t)
<1> DEFINE lo == Larger(a, t)
<1>1. lo \in Int
  BY DEF Larger
<1>2. (a + 1 .. b) \ (1 .. t) = lo + 1 .. b
  BY DEF Larger
<1> HIDE DEF lo
<1>3. Cardinality(lo + 1 .. b) = IF lo + 1 > b THEN 0 ELSE b - (lo + 1) + 1
  BY <1>1, FS_Interval
<1>4. Cardinality(lo + 1 .. b) = IF lo < b THEN b - lo ELSE 0
  BY <1>1, <1>3
<1> QED BY <1>2, <1>4 DEF lo, Beyond

LEMMA SameCount == \A S : TaxLots!Cardinality(S) = Cardinality(S)
  BY Zenon DEF TaxLots!Cardinality, Cardinality

Bought(h, c) == TaxLots!Prior(h, "BUY", c)
Sold(h, c) == TaxLots!Prior(h, "SELL", c)
LeftAfter(h, i, t) == TaxLots!Cardinality(TaxLots!Numbers(h, i) \ 1 .. t)
Common(h, i, j) == TaxLots!Cardinality(TaxLots!Numbers(h, i) \cap TaxLots!Numbers(h, j))

LEMMA LeftIsBeyond ==
  ASSUME NEW h \in Seq(Trade), NEW i \in Buys(h), NEW t \in Nat
  PROVE  /\ LeftAfter(h, i, t) = Beyond(Bought(h, i), Bought(h, i) + h[i].qty, t)
         /\ LeftAfter(h, i, t) \in Nat
<1>1. i \in DOMAIN h /\ h[i].side = "BUY"
  BY DEF Buys, TaxLots!Of
<1>2. i \in Cuts(h) /\ h[i].qty \in Nat
  BY <1>1, TradeAt
<1>3. Bought(h, i) \in Nat
  BY <1>2, PriorIsNat DEF Bought
<1>4. TaxLots!Numbers(h, i) = Bought(h, i) + 1 .. Bought(h, i) + h[i].qty
  BY <1>1 DEF TaxLots!Numbers, Bought
<1>5. LeftAfter(h, i, t) = Beyond(Bought(h, i), Bought(h, i) + h[i].qty, t)
  <2> DEFINE b == Bought(h, i) + h[i].qty
  <2>1. b \in Int
    BY <1>2, <1>3
  <2> HIDE DEF b
  <2>2. Cardinality((Bought(h, i) + 1 .. b) \ (1 .. t)) = Beyond(Bought(h, i), b, t)
    BY <1>3, <2>1, BeyondCounts
  <2> QED BY <1>4, <2>2, SameCount DEF b, LeftAfter
<1>6. Beyond(Bought(h, i), Bought(h, i) + h[i].qty, t) \in Nat
  BY <1>2, <1>3 DEF Beyond, Larger
<1> QED BY <1>5, <1>6

LEMMA CommonIsOverlap ==
  ASSUME NEW h \in Seq(Trade), NEW i \in Buys(h), NEW j \in Sales(h)
  PROVE  /\ Common(h, i, j) = Overlap(Bought(h, i), Bought(h, i) + h[i].qty, Sold(h, j), Sold(h, j) + h[j].qty)
         /\ Common(h, i, j) \in Nat
<1>1. i \in DOMAIN h /\ h[i].side = "BUY" /\ j \in DOMAIN h /\ h[j].side = "SELL"
  BY DEF Buys, Sales, TaxLots!Of
<1>2. i \in Cuts(h) /\ h[i].qty \in Nat /\ j \in Cuts(h) /\ h[j].qty \in Nat
  BY <1>1, TradeAt
<1>3. Bought(h, i) \in Nat /\ Sold(h, j) \in Nat
  BY <1>2, PriorIsNat DEF Bought, Sold
<1>4. /\ TaxLots!Numbers(h, i) = Bought(h, i) + 1 .. Bought(h, i) + h[i].qty
      /\ TaxLots!Numbers(h, j) = Sold(h, j) + 1 .. Sold(h, j) + h[j].qty
  BY <1>1 DEF TaxLots!Numbers, Bought, Sold
<1> DEFINE b == Bought(h, i) + h[i].qty
           d == Sold(h, j) + h[j].qty
<1>5. b \in Int /\ d \in Int
  BY <1>2, <1>3
<1> HIDE DEF b, d
<1>6. Cardinality((Bought(h, i) + 1 .. b) \cap (Sold(h, j) + 1 .. d)) = Overlap(Bought(h, i), b, Sold(h, j), d)
  BY <1>3, <1>5, OverlapCounts
<1>7. Overlap(Bought(h, i), b, Sold(h, j), d) \in Nat
  BY <1>3, <1>5 DEF Overlap, Larger, Smaller
<1> QED BY <1>4, <1>6, <1>7, SameCount DEF b, d, Common

(* The order of the replay.                                                *)
LEMMA BeforeIsAnOrder ==
  ASSUME NEW h \in Seq(Trade), NEW i \in DOMAIN h, NEW j \in DOMAIN h, i # j
  PROVE  (TaxLots!Before(h, i, j) \/ TaxLots!Before(h, j, i)) /\ ~(TaxLots!Before(h, i, j) /\ TaxLots!Before(h, j, i))
<1>1. i \in Int /\ j \in Int /\ h[i].day \in Int /\ h[j].day \in Int
  BY TradeAt
<1>2. h[i].side \in {"BUY", "SELL"} /\ h[j].side \in {"BUY", "SELL"}
  BY TradesOf
<1> QED BY <1>1, <1>2 DEF TaxLots!Before

IsLatest(h, S, x) == x \in S /\ \A j \in S : x = j \/ TaxLots!Before(h, j, x)

LEMMA LatestExists ==
  ASSUME NEW h \in Seq(Trade), NEW S \in SUBSET DOMAIN h, S # {}
  PROVE  IsLatest(h, S, TaxLots!Latest(h, S))
<1> SUFFICES \E x \in S : \A j \in S : x = j \/ TaxLots!Before(h, j, x)
  BY DEF TaxLots!Latest, IsLatest
<1>1. IsFiniteSet(S) /\ S \subseteq Int
  BY TradesOf, FS_Subset
<1> DEFINE D == {h[i].day : i \in S}
<1>2. PICK x1 \in S : \A j \in S : h[j].day <= h[x1].day
  <2>1. D \in SUBSET Int /\ D # {} /\ IsFiniteSet(D)
    <3>1. TaxLots!Days \in SUBSET Int /\ IsFiniteSet(TaxLots!Days)
      BY TaxAssumption, FS_Interval DEF TaxLots!Days
    <3>2. D \in SUBSET TaxLots!Days /\ D # {}
      BY TradeAt, TradeParts
    <3> HIDE DEF D
    <3> QED BY <3>1, <3>2, FS_Subset
  <2> HIDE DEF D
  <2>2. PICK d \in D : \A e \in D : e <= d
    BY <2>1, LastOf
  <2> QED BY <2>2 DEF D
<1> DEFINE S1 == {j \in S : h[j].day = h[x1].day}
           S2 == IF \E j \in S1 : h[j].side = "SELL" THEN {j \in S1 : h[j].side = "SELL"} ELSE S1
<1>3. S2 \in SUBSET S /\ S2 # {} /\ IsFiniteSet(S2) /\ S2 \in SUBSET Int
  <2>1. S2 \in SUBSET S /\ S2 # {}
    BY <1>2
  <2> HIDE DEF S2
  <2> QED BY <1>1, <2>1, FS_Subset
<1>4. PICK x \in S2 : \A j \in S2 : j <= x
  <2> HIDE DEF S2
  <2> QED BY <1>3, LastOf
<1>5. x \in S /\ h[x].day = h[x1].day
  BY <1>4
<1>6. ASSUME NEW j \in S, x # j PROVE TaxLots!Before(h, j, x)
  <2>1. h[j].day <= h[x].day /\ h[j].day \in Int /\ h[x].day \in Int /\ j \in Int /\ x \in Int
    BY <1>2, <1>5, TradeAt
  <2>2. h[j].side \in {"BUY", "SELL"} /\ h[x].side \in {"BUY", "SELL"}
    BY <1>5, TradesOf
  <2>3. CASE j \in S2
    <3>1. j < x /\ h[j].day = h[x].day /\ h[j].side = h[x].side
      BY <1>4, <1>5, <1>6, <2>1, <2>2, <2>3
    <3> QED BY <3>1 DEF TaxLots!Before
  <2>4. CASE j \notin S2
    <3>1. h[j].day < h[x].day \/ (h[j].day = h[x].day /\ h[j].side = "BUY" /\ h[x].side = "SELL")
      BY <1>4, <1>5, <2>1, <2>2, <2>4
    <3> QED BY <3>1 DEF TaxLots!Before
  <2> QED BY <2>3, <2>4
<1> QED BY <1>5, <1>6

-----------------------------------------------------------------------------
(* A sale takes the lots one by one.                                       *)

LEMMA SmallerOfTwo ==
  ASSUME NEW a \in Int, NEW b \in Int
  PROVE  TaxLots!Min({a, b}) = Smaller(a, b)
<1>1. \E x \in {a, b} : \A y \in {a, b} : x =< y
  OBVIOUS
<1> QED BY <1>1 DEF TaxLots!Min, Smaller

LEMMA LargerOfTwo ==
  ASSUME NEW a \in Int, NEW b \in Int
  PROVE  TaxLots!Max({a, b}) = Larger(a, b)
<1>1. \E x \in {a, b} : \A y \in {a, b} : x >= y
  OBVIOUS
<1> QED BY <1>1 DEF TaxLots!Max, Larger

Lots(h) == [DOMAIN h -> Int]
Takings(h) == [left : Int, lots : Lots(h), lt : Int, st : Int]
Gain(h, t, i, n) == n * (t.price - h[i].price) * TaxLots!Parts
Taken(acc, i) == Smaller(acc.left, acc.lots[i])

LEMMA TakeLotIs ==
  ASSUME NEW h \in Seq(Trade), NEW t \in Trade, NEW i \in DOMAIN h, NEW acc \in Takings(h)
  PROVE  LET n == Taken(acc, i)
             long == TaxLots!IsLongTerm(h[i].day, t.day)
             r == TaxLots!TakeLot(h, t, i, acc)
         IN /\ n \in Int /\ Gain(h, t, i, n) \in Int
            /\ r = [left |-> acc.left - n, lots |-> [acc.lots EXCEPT ![i] = @ - n],
                    lt |-> acc.lt + (IF long THEN Gain(h, t, i, n) ELSE 0),
                    st |-> acc.st + (IF long THEN 0 ELSE Gain(h, t, i, n))]
            /\ r \in Takings(h)
<1> DEFINE n == Taken(acc, i)
           long == TaxLots!IsLongTerm(h[i].day, t.day)
           g == Gain(h, t, i, n)
           lots == [acc.lots EXCEPT ![i] = @ - n]
<1>1. /\ acc.left \in Int /\ acc.lots \in Lots(h) /\ acc.lt \in Int /\ acc.st \in Int
      /\ acc.lots[i] \in Int
  BY DEF Takings, Lots
<1>2. n \in Int /\ TaxLots!Min({acc.left, acc.lots[i]}) = n
  BY <1>1, SmallerOfTwo DEF Taken, Smaller
<1>3. t.price \in Int /\ h[i].price \in Int
  BY TradeAt, TradeParts
<1> HIDE DEF n
<1>4. g \in Int
  BY <1>2, <1>3 DEF Gain, TaxLots!Parts
<1>5. lots \in Lots(h)
  BY <1>1, <1>2 DEF Lots
<1>6. TaxLots!TakeLot(h, t, i, acc)
        = [left |-> acc.left - n, lots |-> lots,
           lt |-> acc.lt + (IF long THEN g ELSE 0), st |-> acc.st + (IF long THEN 0 ELSE g)]
  BY <1>2 DEF TaxLots!TakeLot, Gain
<1>7. /\ acc.left - n \in Int /\ acc.lt + (IF long THEN g ELSE 0) \in Int
      /\ acc.st + (IF long THEN 0 ELSE g) \in Int
  <2> HIDE DEF g, long
  <2> QED BY <1>1, <1>2, <1>4
<1>8. TaxLots!TakeLot(h, t, i, acc) \in Takings(h)
  <2> HIDE DEF g, long, lots
  <2> QED BY <1>5, <1>6, <1>7 DEF Takings
<1> QED BY <1>2, <1>4, <1>6, <1>8 DEF n

SellUp(h, lots, t, D, g) ==
  g = [s \in SUBSET D |-> IF s = {} THEN TaxLots!Unsold(t, lots)
                          ELSE TaxLots!TakeLot(h, t, TaxLots!Latest(h, s), g[s \ {TaxLots!Latest(h, s)}])]
SellOf(h, lots, t, D) == CHOOSE g : SellUp(h, lots, t, D, g)
OpenIn(lots) == {i \in DOMAIN lots : lots[i] > 0}

LEMMA SellIsChosen ==
  \A h, lots, t : TaxLots!SellLots(h, lots, t) = SellOf(h, lots, t, OpenIn(lots))[OpenIn(lots)]
  BY DEF TaxLots!SellLots, TaxLots!MapThenFoldSet, SellOf, SellUp, OpenIn

LatestOf(h, D) == [s \in SUBSET D |-> TaxLots!Latest(h, s)]

LEMMA LatestPicks ==
  ASSUME NEW h \in Seq(Trade), NEW D \in SUBSET DOMAIN h
  PROVE  /\ Picks(LatestOf(h, D), D) /\ IsFiniteSet(D)
         /\ \A s \in SUBSET D : LatestOf(h, D)[s] = TaxLots!Latest(h, s)
<1>1. IsFiniteSet(D)
  BY TradesOf, FS_Subset
<1>2. \A s \in SUBSET D : LatestOf(h, D)[s] = TaxLots!Latest(h, s)
  BY DEF LatestOf
<1>3. ASSUME NEW s \in SUBSET D, s # {} PROVE TaxLots!Latest(h, s) \in s
  BY <1>3, LatestExists DEF IsLatest
<1> QED BY <1>1, <1>2, <1>3 DEF Picks

LEMMA SellUnrolled ==
  ASSUME NEW h \in Seq(Trade), NEW t \in Trade, NEW D \in SUBSET DOMAIN h, NEW lots \in Lots(h)
  PROVE  LET g == SellOf(h, lots, t, D)
         IN /\ SellUp(h, lots, t, D, g)
            /\ \A s \in SUBSET D : g[s] \in Takings(h)
<1> DEFINE V == Takings(h)
           pick == LatestOf(h, D)
           base == TaxLots!Unsold(t, lots)
           F == [i \in D |-> [acc \in V |-> TaxLots!TakeLot(h, t, i, acc)]]
           f == FoldOf(F, pick, base, D)
           g == SellOf(h, lots, t, D)
<1>1. base \in V
  BY TradeParts DEF TaxLots!Unsold, Takings
<1>2. Picks(pick, D) /\ IsFiniteSet(D) /\ \A s \in SUBSET D : pick[s] = TaxLots!Latest(h, s)
  BY LatestPicks
<1>3. ASSUME NEW i \in D, NEW acc \in V
      PROVE  F[i][acc] = TaxLots!TakeLot(h, t, i, acc) /\ TaxLots!TakeLot(h, t, i, acc) \in V
  <2>1. i \in DOMAIN h
    OBVIOUS
  <2>2. TaxLots!TakeLot(h, t, i, acc) \in V
    BY <2>1, TakeLotIs
  <2> QED BY <2>2
<1> HIDE DEF V, pick, base, F
<1>4. FoldsUp(F, pick, base, D, f)
  BY <1>2, FoldExists
<1> HIDE DEF f
<1>5. \A s \in SUBSET D : f[s] \in V
  <2> DEFINE G == {s \in SUBSET D : f[s] \in V}
  <2>1. ASSUME NEW s \in SUBSET D, s = {} \/ RestOf(pick, s) \in G PROVE s \in G
    <3>1. f[s] = IF s = {} THEN base ELSE F[pick[s]][f[RestOf(pick, s)]]
      BY <1>4, FoldUnrolled
    <3>2. s # {} => f[RestOf(pick, s)] \in V /\ pick[s] \in D
      BY <1>2, <2>1 DEF Picks
    <3> QED BY <1>1, <1>3, <3>1, <3>2
  <2>2. Closes(pick, D, G)
    BY <2>1 DEF Closes
  <2> HIDE DEF G
  <2>3. SUBSET D \subseteq G
    BY <1>2, <2>2, EverySubset
  <2> QED BY <2>3 DEF G
<1>6. SellUp(h, lots, t, D, f)
  <2>1. ASSUME NEW s \in SUBSET D, s # {}
        PROVE  /\ F[pick[s]][f[RestOf(pick, s)]]
                    = TaxLots!TakeLot(h, t, TaxLots!Latest(h, s), f[s \ {TaxLots!Latest(h, s)}])
    <3>1. pick[s] \in D /\ pick[s] = TaxLots!Latest(h, s) /\ RestOf(pick, s) \in SUBSET D
      BY <1>2, <2>1 DEF Picks, RestOf
    <3>2. f[RestOf(pick, s)] \in V
      BY <1>5, <3>1
    <3> QED BY <1>3, <3>1, <3>2 DEF RestOf
  <2>2. f = [s \in SUBSET D |-> IF s = {} THEN base ELSE F[pick[s]][f[RestOf(pick, s)]]]
    BY <1>4 DEF FoldsUp
  <2>3. f = [s \in SUBSET D |-> IF s = {} THEN base
                ELSE TaxLots!TakeLot(h, t, TaxLots!Latest(h, s), f[s \ {TaxLots!Latest(h, s)}])]
    BY <2>1, <2>2
  <2> QED BY <2>3 DEF SellUp, base
<1>7. SellUp(h, lots, t, D, g)
  BY <1>6 DEF SellOf
<1> HIDE DEF g
<1>8. \A s \in SUBSET D : g[s] \in V
  <2> DEFINE G == {s \in SUBSET D : g[s] \in V}
  <2>1. ASSUME NEW s \in SUBSET D, s = {} \/ RestOf(pick, s) \in G PROVE s \in G
    <3>1. g[s] = IF s = {} THEN base
                 ELSE TaxLots!TakeLot(h, t, TaxLots!Latest(h, s), g[s \ {TaxLots!Latest(h, s)}])
      BY <1>7 DEF SellUp, base
    <3>2. s # {} => g[s \ {TaxLots!Latest(h, s)}] \in V /\ TaxLots!Latest(h, s) \in D
      BY <1>2, <2>1 DEF Picks, RestOf
    <3> QED BY <1>1, <1>3, <3>1, <3>2
  <2>2. Closes(pick, D, G)
    BY <2>1 DEF Closes
  <2> HIDE DEF G
  <2>3. SUBSET D \subseteq G
    BY <1>2, <2>2, EverySubset
  <2> QED BY <2>3 DEF G
<1> QED BY <1>7, <1>8 DEF g, V

(* The gains of a sale over some purchases.                                *)
LongOf(h, j) == {i \in Buys(h) : TaxLots!IsLongTerm(h[i].day, h[j].day)}
CommonGain(h, j, i) == Gain(h, h[j], i, Common(h, i, j))
GainsIn(h, j) == [i \in Buys(h) |-> CommonGain(h, j, i)]

LEMMA GainsAreInt ==
  ASSUME NEW h \in Seq(Trade), NEW j \in Sales(h), NEW i \in Buys(h)
  PROVE  CommonGain(h, j, i) \in Int
<1>1. i \in DOMAIN h /\ j \in DOMAIN h
  BY DEF Buys, Sales, TaxLots!Of
<1>2. h[i].price \in Int /\ h[j].price \in Int /\ Common(h, i, j) \in Int
  BY <1>1, TradeAt, CommonIsOverlap
<1> HIDE DEF Common
<1> QED BY <1>2 DEF CommonGain, Gain, TaxLots!Parts

LEMMA GainsAreSummed ==
  ASSUME NEW h \in Seq(Trade), NEW j \in Sales(h), NEW S \in SUBSET Buys(h)
  PROVE  TaxLots!GainsOver(h, j, S) = Sum(GainsIn(h, j), S) /\ Sums(GainsIn(h, j), S)
<1> DEFINE f == [i \in S |-> TaxLots!Cardinality(TaxLots!Numbers(h, i) \cap TaxLots!Numbers(h, j))
                               * (h[j].price - h[i].price) * TaxLots!Parts]
<1>1. IsFiniteSet(S)
  BY TradesOf, FS_Subset
<1>2. Alike(f, GainsIn(h, j), S)
  BY DEF Alike, GainsIn, CommonGain, Gain, Common
<1>3. TaxLots!GainsOver(h, j, S) = Sum(f, S)
  BY Zenon, TotalsAreSums DEF TaxLots!GainsOver
<1> HIDE DEF f
<1>4. \A i \in S : GainsIn(h, j)[i] \in Int
  BY GainsAreInt DEF GainsIn
<1> QED BY <1>1, <1>2, <1>3, <1>4, SumAlike DEF Sums

LEMMA GainsWithOneMore ==
  ASSUME NEW h \in Seq(Trade), NEW j \in Sales(h), NEW S \in SUBSET Buys(h), NEW i \in Buys(h), i \notin S
  PROVE  /\ TaxLots!GainsOver(h, j, S \cup {i}) = TaxLots!GainsOver(h, j, S) + CommonGain(h, j, i)
         /\ TaxLots!GainsOver(h, j, S) \in Int
<1>1. S \cup {i} \in SUBSET Buys(h)
  OBVIOUS
<1>2. Sums(GainsIn(h, j), S \cup {i}) /\ Sums(GainsIn(h, j), S)
  BY <1>1, GainsAreSummed
<1>3. Sum(GainsIn(h, j), S \cup {i}) = GainsIn(h, j)[i] + Sum(GainsIn(h, j), S) /\ Sum(GainsIn(h, j), S) \in Int
  BY <1>2, SumWithOneMore, SumIsInt
<1>4. GainsIn(h, j)[i] = CommonGain(h, j, i) /\ CommonGain(h, j, i) \in Int
  BY GainsAreInt DEF GainsIn
<1> QED BY <1>1, <1>3, <1>4, GainsAreSummed

LEMMA GainsOfNothing ==
  ASSUME NEW h \in Seq(Trade), NEW j \in Sales(h)
  PROVE  TaxLots!GainsOver(h, j, {}) = 0
  BY GainsAreSummed, SumOfNothing

(* What a sale of q shares still has to take when b shares were bought     *)
(* before, of which the earlier sales took t.                              *)
Remaining(b, t, q) == IF b <= t THEN q ELSE IF b >= t + q THEN 0 ELSE t + q - b

Takes(b, q, t, x) ==
  LET n == Overlap(b, b + q, t, t + x)
  IN /\ n \in Nat
     /\ Smaller(Remaining(b, t, x), Beyond(b, b + q, t)) = n
     /\ Beyond(b, b + q, t) - n = Beyond(b, b + q, t + x)
     /\ Remaining(b, t, x) - n = Remaining(b + q, t, x)
     /\ b >= t + x => n = 0
     /\ Beyond(b, b + q, t) = 0 => n = 0

LEMMA TakingIsOverlap ==
  ASSUME NEW b \in Nat, NEW q \in Nat, NEW t \in Nat, NEW x \in Nat
  PROVE  Takes(b, q, t, x)
  BY DEF Takes, Overlap, Smaller, Larger, Remaining, Beyond

Until(S, c) == {i \in S : i < c}

(* The lots open to the sale j: what is left of the purchases of M.        *)
SaleOpens(h, j, M, lots) ==
  /\ Sound(h) /\ j \in Sales(h) /\ M \subseteq Buys(h) /\ lots \in Lots(h)
  /\ \A k \in Buys(h) : k < j => k \in M
  /\ \A i \in DOMAIN h : lots[i] = IF i \in M THEN LeftAfter(h, i, Sold(h, j)) ELSE 0

(* The sale has come as far as the trade c.                                *)
SaleIsAt(h, j, M, lots, a, c) ==
  /\ a \in Takings(h)
  /\ a.left = Remaining(Bought(h, c), Sold(h, j), h[j].qty)
  /\ \A i \in DOMAIN h : a.lots[i] = IF i \in M /\ i < c THEN LeftAfter(h, i, Sold(h, j + 1)) ELSE lots[i]
  /\ a.lt = TaxLots!GainsOver(h, j, Until(LongOf(h, j), c))
  /\ a.st = TaxLots!GainsOver(h, j, Until(Buys(h) \ LongOf(h, j), c))

LEMMA SaleFacts ==
  ASSUME NEW h, NEW j, NEW M, NEW lots, SaleOpens(h, j, M, lots)
  PROVE  /\ h \in Seq(Trade) /\ j \in DOMAIN h /\ j \in Sales(h) /\ h[j].side = "SELL" /\ h[j].qty \in Nat
         /\ h[j].qty > 0 /\ Sold(h, j) \in Nat /\ Sold(h, j + 1) = Sold(h, j) + h[j].qty
         /\ \A k \in Buys(h) : k \notin M => Bought(h, k) >= Sold(h, j + 1)
<1>1. h \in Seq(Trade) /\ j \in Sales(h) /\ j \in DOMAIN h /\ h[j].side = "SELL"
  BY DEF SaleOpens, Sound, Sales, TaxLots!Of
<1>2. h[j].qty \in Nat /\ h[j].qty > 0 /\ j \in Cuts(h) /\ j + 1 \in Cuts(h)
  BY <1>1, TradeAt
<1>3. Sold(h, j) \in Nat
  BY <1>1, <1>2, PriorIsNat DEF Sold
<1>4. Sold(h, j + 1) = Sold(h, j) + h[j].qty
  BY <1>1, PriorSteps DEF Sold
<1>5. ASSUME NEW k \in Buys(h), k \notin M PROVE Bought(h, k) >= Sold(h, j + 1)
  <2>1. k \in DOMAIN h /\ h[k].side = "BUY" /\ ~(k < j)
    BY <1>5 DEF SaleOpens, Buys, TaxLots!Of
  <2>2. k \in Cuts(h) /\ k \in Nat /\ j \in Nat /\ k # j
    BY <1>1, <2>1, TradeAt
  <2>3. j + 1 <= k
    BY <2>1, <2>2
  <2>4. Bought(h, j + 1) <= Bought(h, k)
    BY <1>1, <1>2, <2>2, <2>3, PriorGrows DEF Bought
  <2>5. Sold(h, j + 1) <= Bought(h, j + 1)
    BY <1>2 DEF SaleOpens, Sound, NeverShort, Cuts, Sold, Bought
  <2>6. Sold(h, j + 1) \in Nat /\ Bought(h, j + 1) \in Nat /\ Bought(h, k) \in Nat
    BY <1>1, <1>2, <2>2, PriorIsNat DEF Sold, Bought
  <2> QED BY <2>4, <2>5, <2>6
<1> QED BY <1>1, <1>2, <1>3, <1>4, <1>5

LEMMA SaleMovesOn ==
  ASSUME NEW h, NEW j, NEW M, NEW lots, SaleOpens(h, j, M, lots), NEW c \in DOMAIN h,
         NEW a, SaleIsAt(h, j, M, lots, a, c), NEW b,
         b = IF lots[c] > 0 THEN TaxLots!TakeLot(h, h[j], c, a) ELSE a
  PROVE  SaleIsAt(h, j, M, lots, b, c + 1)
<1> DEFINE Q == h[j].qty
           T == Sold(h, j)
           B == Bought(h, c)
           q == h[c].qty
           L == LongOf(h, j)
           S == Buys(h) \ L
           n == Overlap(B, B + q, T, T + Q)
<1>1. /\ h \in Seq(Trade) /\ j \in DOMAIN h /\ j \in Sales(h) /\ h[j].side = "SELL" /\ Q \in Nat
      /\ T \in Nat /\ Sold(h, j + 1) = T + Q
      /\ \A k \in Buys(h) : k \notin M => Bought(h, k) >= T + Q
  BY SaleFacts
<1>2. /\ h[c] \in Trade /\ h[j] \in Trade /\ c \in Nat /\ q \in Nat /\ B \in Nat /\ Bought(h, c + 1) \in Nat
      /\ h[c].side \in {"BUY", "SELL"}
  BY <1>1, TradeAt, TradesOf, PriorIsNat DEF Bought
<1>3. /\ M \subseteq Buys(h) /\ lots \in Lots(h)
      /\ \A i \in DOMAIN h : lots[i] = IF i \in M THEN LeftAfter(h, i, T) ELSE 0
  BY DEF SaleOpens
<1>4. /\ a \in Takings(h) /\ a.left = Remaining(B, T, Q)
      /\ \A i \in DOMAIN h : a.lots[i] = IF i \in M /\ i < c THEN LeftAfter(h, i, T + Q) ELSE lots[i]
      /\ a.lt = TaxLots!GainsOver(h, j, Until(L, c)) /\ a.st = TaxLots!GainsOver(h, j, Until(S, c))
  BY <1>1 DEF SaleIsAt
<1>5. /\ L \in SUBSET Buys(h) /\ S \in SUBSET Buys(h) /\ L \cap S = {} /\ Buys(h) = L \cup S
      /\ Buys(h) \subseteq DOMAIN h /\ DOMAIN h \subseteq Nat
      /\ c \in Buys(h) <=> h[c].side = "BUY"
  <2>1. DOMAIN h \subseteq Nat
    BY <1>1, TradeAt
  <2> QED BY <2>1 DEF LongOf, Buys, TaxLots!Of
<1> HIDE DEF Q, T, B, q, L, S
<1>6. /\ Until(L, c + 1) = IF c \in L THEN Until(L, c) \cup {c} ELSE Until(L, c)
      /\ Until(S, c + 1) = IF c \in S THEN Until(S, c) \cup {c} ELSE Until(S, c)
      /\ Until(L, c) \in SUBSET Buys(h) /\ Until(S, c) \in SUBSET Buys(h)
      /\ c \notin Until(L, c) /\ c \notin Until(S, c)
  BY <1>2, <1>5 DEF Until
<1>7. Bought(h, c + 1) = B + IF c \in Buys(h) THEN q ELSE 0
  BY <1>1, <1>5, PriorSteps DEF Bought, B, q
<1>8. /\ n \in Nat
      /\ Smaller(Remaining(B, T, Q), Beyond(B, B + q, T)) = n
      /\ Beyond(B, B + q, T) - n = Beyond(B, B + q, T + Q)
      /\ Remaining(B, T, Q) - n = Remaining(B + q, T, Q)
      /\ B >= T + Q => n = 0
      /\ Beyond(B, B + q, T) = 0 => n = 0
  <2>1. B \in Nat /\ q \in Nat /\ T \in Nat /\ Q \in Nat
    BY <1>1, <1>2
  <2>2. Takes(B, q, T, Q)
    BY <2>1, TakingIsOverlap
  <2> QED BY <2>2 DEF Takes
<1> HIDE DEF n
<1>9. ASSUME c \in Buys(h)
      PROVE  /\ LeftAfter(h, c, T) = Beyond(B, B + q, T) /\ LeftAfter(h, c, T) \in Nat
             /\ LeftAfter(h, c, T + Q) = Beyond(B, B + q, T + Q) /\ LeftAfter(h, c, T + Q) \in Nat
             /\ Common(h, c, j) = n
  <2>1. T + Q \in Nat
    BY <1>1
  <2>2. /\ LeftAfter(h, c, T) = Beyond(B, B + q, T) /\ LeftAfter(h, c, T) \in Nat
        /\ LeftAfter(h, c, T + Q) = Beyond(B, B + q, T + Q) /\ LeftAfter(h, c, T + Q) \in Nat
    BY <1>1, <1>9, <2>1, LeftIsBeyond DEF B, q
  <2>3. Common(h, c, j) = n
    BY <1>1, <1>9, CommonIsOverlap DEF B, q, T, Q, n
  <2> QED BY <2>2, <2>3
<1>10. CASE lots[c] > 0
  <2>1. c \in M /\ c \in Buys(h) /\ lots[c] = LeftAfter(h, c, T)
    BY <1>3, <1>10
  <2>2. a.lots[c] = lots[c] /\ ~(c < c)
    BY <1>2, <1>4
  <2>3. Taken(a, c) = n
    BY <1>4, <1>8, <1>9, <2>1, <2>2 DEF Taken
  <2> DEFINE long == TaxLots!IsLongTerm(h[c].day, h[j].day)
  <2>4. /\ Gain(h, h[j], c, n) \in Int
        /\ b = [left |-> a.left - n, lots |-> [a.lots EXCEPT ![c] = @ - n],
                lt |-> a.lt + (IF long THEN Gain(h, h[j], c, n) ELSE 0),
                st |-> a.st + (IF long THEN 0 ELSE Gain(h, h[j], c, n))]
        /\ b \in Takings(h)
    BY <1>1, <1>2, <1>4, <1>10, <2>3, TakeLotIs
  <2>5. long <=> c \in L
    BY <2>1 DEF L, LongOf
  <2> HIDE DEF long
  <2>0. /\ b.lt = a.lt + (IF long THEN Gain(h, h[j], c, n) ELSE 0)
        /\ b.st = a.st + (IF long THEN 0 ELSE Gain(h, h[j], c, n))
    BY <2>4
  <2>6. b.left = Remaining(Bought(h, c + 1), T, Q)
    BY <1>4, <1>7, <1>8, <2>1, <2>4
  <2>7. ASSUME NEW i \in DOMAIN h
        PROVE  b.lots[i] = IF i \in M /\ i < c + 1 THEN LeftAfter(h, i, T + Q) ELSE lots[i]
    <3>1. a.lots \in Lots(h) /\ i \in Nat
      BY <1>4, <1>5 DEF Takings
    <3>2. CASE i = c
      <4>1. b.lots[c] = lots[c] - n
        BY <2>2, <2>4, <3>1 DEF Lots
      <4> QED BY <1>2, <1>8, <1>9, <2>1, <3>2, <4>1
    <3>3. CASE i # c
      <4>1. b.lots[i] = a.lots[i]
        BY <2>4, <3>1, <3>3 DEF Lots
      <4>2. i < c + 1 <=> i < c
        BY <1>2, <3>1, <3>3
      <4> QED BY <1>4, <4>1, <4>2
    <3> QED BY <3>2, <3>3
  <2>8. CommonGain(h, j, c) = Gain(h, h[j], c, n)
    BY <1>9, <2>1 DEF CommonGain
  <2>9. b.lt = TaxLots!GainsOver(h, j, Until(L, c + 1))
    <3>1. a.lt \in Int
      BY <1>4 DEF Takings
    <3>2. CASE c \in L
      <4>1. TaxLots!GainsOver(h, j, Until(L, c) \cup {c}) = TaxLots!GainsOver(h, j, Until(L, c)) + CommonGain(h, j, c)
        BY <1>1, <1>6, <2>1, GainsWithOneMore
      <4> QED BY <1>4, <1>6, <2>0, <2>5, <2>8, <3>2, <4>1
    <3>3. CASE c \notin L
      BY <1>4, <1>6, <2>4, <2>5, <3>1, <3>3
    <3> QED BY <3>2, <3>3
  <2>10. b.st = TaxLots!GainsOver(h, j, Until(S, c + 1))
    <3>1. a.st \in Int /\ (c \in S <=> c \notin L)
      BY <1>4, <1>5, <2>1 DEF Takings
    <3>2. CASE c \in S
      <4>1. TaxLots!GainsOver(h, j, Until(S, c) \cup {c}) = TaxLots!GainsOver(h, j, Until(S, c)) + CommonGain(h, j, c)
        BY <1>1, <1>6, <2>1, GainsWithOneMore
      <4> QED BY <1>4, <1>6, <2>0, <2>5, <2>8, <3>1, <3>2, <4>1
    <3>3. CASE c \notin S
      BY <1>4, <1>6, <2>4, <2>5, <3>1, <3>3
    <3> QED BY <3>2, <3>3
  <2> QED BY <1>1, <2>4, <2>6, <2>7, <2>9, <2>10 DEF SaleIsAt, Q, T, L, S
<1>11. CASE ~(lots[c] > 0)
  <2>1. b = a
    BY <1>11
  <2>2. c \in Buys(h) => n = 0
    <3>1. ASSUME c \in Buys(h), c \in M PROVE n = 0
      <4>1. LeftAfter(h, c, T) = 0
        BY <1>3, <1>9, <1>11, <3>1
      <4> QED BY <1>8, <1>9, <3>1, <4>1
    <3>2. ASSUME c \in Buys(h), c \notin M PROVE n = 0
      BY <1>1, <1>8, <3>2 DEF B
    <3> QED BY <3>1, <3>2
  <2>3. a.left = Remaining(Bought(h, c + 1), T, Q)
    <3>1. Remaining(B, T, Q) \in Int
      BY <1>1, <1>2 DEF Remaining
    <3>2. CASE c \in Buys(h)
      BY <1>4, <1>7, <1>8, <2>2, <3>1, <3>2
    <3>3. CASE c \notin Buys(h)
      BY <1>2, <1>4, <1>7, <3>3
    <3> QED BY <3>2, <3>3
  <2>4. ASSUME NEW i \in DOMAIN h
        PROVE  a.lots[i] = IF i \in M /\ i < c + 1 THEN LeftAfter(h, i, T + Q) ELSE lots[i]
    <3>1. CASE i = c /\ c \in M
      <4>1. c \in Buys(h) /\ n = 0 /\ lots[c] = LeftAfter(h, c, T)
        BY <1>3, <2>2, <3>1
      <4>2. LeftAfter(h, c, T + Q) = LeftAfter(h, c, T)
        BY <1>8, <1>9, <4>1
      <4> QED BY <1>2, <1>4, <3>1, <4>1, <4>2
    <3>2. CASE ~(i = c /\ c \in M)
      <4>1. (i \in M /\ i < c + 1) <=> (i \in M /\ i < c)
        BY <1>2, <1>5, <3>2
      <4> QED BY <1>4, <4>1
    <3> QED BY <3>1, <3>2
  <2>5. ASSUME c \in Buys(h) PROVE CommonGain(h, j, c) = 0
    <3>1. h[c].price \in Int /\ h[j].price \in Int
      BY <1>1, TradeAt
    <3>2. Common(h, c, j) = 0
      BY <1>9, <2>2, <2>5
    <3> QED BY <3>1, <3>2 DEF CommonGain, Gain, TaxLots!Parts
  <2>6. ASSUME NEW X \in SUBSET Buys(h), c \in Buys(h), c \notin X
        PROVE  TaxLots!GainsOver(h, j, X \cup {c}) = TaxLots!GainsOver(h, j, X)
    <3>1. /\ TaxLots!GainsOver(h, j, X \cup {c}) = TaxLots!GainsOver(h, j, X) + CommonGain(h, j, c)
          /\ TaxLots!GainsOver(h, j, X) \in Int
      BY <1>1, <2>6, GainsWithOneMore
    <3> QED BY <2>5, <2>6, <3>1
  <2>7. a.lt = TaxLots!GainsOver(h, j, Until(L, c + 1))
    BY <1>4, <1>5, <1>6, <2>6
  <2>8. a.st = TaxLots!GainsOver(h, j, Until(S, c + 1))
    BY <1>4, <1>5, <1>6, <2>6
  <2> QED BY <1>1, <1>4, <2>1, <2>3, <2>4, <2>7, <2>8 DEF SaleIsAt, Q, T, L, S
<1> QED BY <1>10, <1>11

LEMMA SaleStarts ==
  ASSUME NEW h, NEW j, NEW M, NEW lots, SaleOpens(h, j, M, lots)
  PROVE  SaleIsAt(h, j, M, lots, TaxLots!Unsold(h[j], lots), 1)
<1> DEFINE a == TaxLots!Unsold(h[j], lots)
<1>1. /\ h \in Seq(Trade) /\ j \in Sales(h) /\ h[j].qty \in Nat /\ Sold(h, j) \in Nat /\ lots \in Lots(h)
      /\ DOMAIN h \subseteq Nat \ {0}
  BY SaleFacts, TradeAt DEF SaleOpens
<1>2. a.left = h[j].qty /\ a.lots = lots /\ a.lt = 0 /\ a.st = 0 /\ a \in Takings(h)
  BY <1>1 DEF TaxLots!Unsold, Takings
<1>3. Bought(h, 1) = 0
  BY <1>1, PriorStarts DEF Bought
<1>4. Remaining(0, Sold(h, j), h[j].qty) = h[j].qty
  BY <1>1 DEF Remaining
<1>5. \A S \in SUBSET DOMAIN h : Until(S, 1) = {}
  BY <1>1 DEF Until
<1>6. Until(LongOf(h, j), 1) = {} /\ Until(Buys(h) \ LongOf(h, j), 1) = {}
  BY <1>1, <1>5, TradesOf DEF LongOf
<1>7. TaxLots!GainsOver(h, j, {}) = 0
  BY <1>1, GainsOfNothing
<1>8. \A i \in DOMAIN h : ~(i < 1)
  BY <1>1
<1> HIDE DEF a
<1>9. SaleIsAt(h, j, M, lots, a, 1)
  BY <1>2, <1>3, <1>4, <1>6, <1>7, <1>8 DEF SaleIsAt
<1> QED BY <1>9 DEF a

SaleCloses(h, j, M, r) ==
  /\ r \in Takings(h)
  /\ \A i \in DOMAIN h : r.lots[i] = IF i \in M THEN LeftAfter(h, i, Sold(h, j + 1)) ELSE 0
  /\ r.lt = TaxLots!GainsOver(h, j, LongOf(h, j))
  /\ r.st = TaxLots!GainsOver(h, j, Buys(h) \ LongOf(h, j))

LEMMA SaleIsShareByShare ==
  ASSUME NEW h, NEW j, NEW M, NEW lots, SaleOpens(h, j, M, lots)
  PROVE  SaleCloses(h, j, M, TaxLots!SellLots(h, lots, h[j]))
<1> DEFINE D == OpenIn(lots)
           g == SellOf(h, lots, h[j], D)
           n == Len(h)
           G == {c \in Cuts(h) : SaleIsAt(h, j, M, lots, g[Until(D, c)], c)}
<1>1. /\ h \in Seq(Trade) /\ j \in Sales(h) /\ h[j] \in Trade /\ lots \in Lots(h) /\ M \subseteq Buys(h)
      /\ n \in Nat /\ DOMAIN h = 1 .. n /\ Cuts(h) = 1 .. n + 1
  <2>1. h \in Seq(Trade) /\ j \in Sales(h) /\ j \in DOMAIN h
    BY SaleFacts
  <2>2. lots \in Lots(h) /\ M \subseteq Buys(h)
    BY DEF SaleOpens
  <2> QED BY <2>1, <2>2, TradeAt, TradesOf DEF Cuts
<1>2. /\ D \in SUBSET DOMAIN h /\ D \in SUBSET Buys(h)
      /\ \A c \in DOMAIN h : c \in D <=> lots[c] > 0
  BY <1>1 DEF OpenIn, Lots, SaleOpens
<1> HIDE DEF D
<1>3. SellUp(h, lots, h[j], D, g)
  BY <1>1, <1>2, SellUnrolled
<1> HIDE DEF g
<1>4. \A s \in SUBSET D :
        g[s] = IF s = {} THEN TaxLots!Unsold(h[j], lots)
               ELSE TaxLots!TakeLot(h, h[j], TaxLots!Latest(h, s), g[s \ {TaxLots!Latest(h, s)}])
  BY <1>3 DEF SellUp
<1>5. ASSUME NEW c \in DOMAIN h, c \in D
      PROVE  g[Until(D, c + 1)] = TaxLots!TakeLot(h, h[j], c, g[Until(D, c)])
  <2> DEFINE s == Until(D, c + 1)
             x == TaxLots!Latest(h, s)
  <2>1. s \in SUBSET D /\ s \in SUBSET DOMAIN h /\ c \in s /\ s # {} /\ s \ {c} = Until(D, c)
        /\ \A k \in s : k = c \/ k < c
    BY <1>1, <1>2, <1>5 DEF Until
  <2>2. IsLatest(h, s, x)
    BY <1>1, <2>1, LatestExists
  <2>3. x = c
    <3>1. x \in s /\ (x = c \/ TaxLots!Before(h, c, x))
      BY <2>1, <2>2 DEF IsLatest
    <3>2. SUFFICES ASSUME x # c PROVE FALSE
      OBVIOUS
    <3> HIDE DEF x, s
    <3>3. x < c /\ x \in DOMAIN h /\ x \in Buys(h) /\ c \in Buys(h)
      BY <1>2, <1>5, <2>1, <3>1, <3>2
    <3>4. h[x].day <= h[c].day /\ h[x].side = "BUY" /\ h[c].side = "BUY"
      BY <3>3 DEF SaleOpens, Sound, Chronological, Buys, TaxLots!Of
    <3>5. h[x].day \in Int /\ h[c].day \in Int /\ x \in Int /\ c \in Int
      BY <1>1, <3>3, TradeAt
    <3>6. ~TaxLots!Before(h, c, x)
      BY <3>3, <3>4, <3>5 DEF TaxLots!Before
    <3> QED BY <3>1, <3>2, <3>6
  <2> HIDE DEF x, s
  <2>4. g[s] = TaxLots!TakeLot(h, h[j], x, g[s \ {x}])
    BY <1>4, <2>1 DEF x
  <2> QED BY <2>1, <2>3, <2>4 DEF s
<1>6. Passes(n, G)
  <2>1. 1 \in G
    <3>1. Until(D, 1) = {} /\ Until(D, 1) \in SUBSET D /\ 1 \in Cuts(h)
      BY <1>1, <1>2 DEF Until
    <3>2. g[Until(D, 1)] = TaxLots!Unsold(h[j], lots)
      BY <1>4, <3>1
    <3> QED BY <3>1, <3>2, SaleStarts
  <2>2. ASSUME NEW c \in 1 .. n, c \in G PROVE c + 1 \in G
    <3>1. c \in DOMAIN h /\ SaleIsAt(h, j, M, lots, g[Until(D, c)], c) /\ c + 1 \in Cuts(h)
      BY <1>1, <2>2
    <3>2. c \notin D => Until(D, c + 1) = Until(D, c)
      BY <1>1, <1>2 DEF Until
    <3>3. g[Until(D, c + 1)]
            = IF lots[c] > 0 THEN TaxLots!TakeLot(h, h[j], c, g[Until(D, c)]) ELSE g[Until(D, c)]
      BY <1>2, <1>5, <3>1, <3>2
    <3>4. SaleIsAt(h, j, M, lots, g[Until(D, c + 1)], c + 1)
      BY <3>1, <3>3, SaleMovesOn
    <3> QED BY <3>1, <3>4
  <2> HIDE DEF G
  <2> QED BY <2>1, <2>2 DEF Passes
<1> HIDE DEF G
<1>7. n + 1 \in G
  <2>1. 1 .. n + 1 \subseteq G
    BY <1>1, <1>6, EveryCut
  <2> QED BY <1>1, <2>1
<1>8. SaleIsAt(h, j, M, lots, g[Until(D, n + 1)], n + 1)
  BY <1>7 DEF G
<1>9. /\ \A i \in DOMAIN h : i < n + 1
      /\ \A S \in SUBSET DOMAIN h : Until(S, n + 1) = S
  BY <1>1 DEF Until
<1>10. /\ Until(D, n + 1) = D /\ Until(LongOf(h, j), n + 1) = LongOf(h, j)
       /\ Until(Buys(h) \ LongOf(h, j), n + 1) = Buys(h) \ LongOf(h, j)
  <2>1. Buys(h) \subseteq DOMAIN h
    BY <1>1, TradesOf
  <2>2. LongOf(h, j) \in SUBSET DOMAIN h /\ Buys(h) \ LongOf(h, j) \in SUBSET DOMAIN h
    BY <2>1 DEF LongOf
  <2> QED BY <1>2, <1>9, <2>2
<1>11. TaxLots!SellLots(h, lots, h[j]) = g[D]
  BY SellIsChosen DEF g, D
<1>12. ASSUME NEW i \in DOMAIN h, i \notin M PROVE lots[i] = 0
  BY <1>12 DEF SaleOpens
<1> QED BY <1>8, <1>9, <1>10, <1>11, <1>12 DEF SaleIsAt, SaleCloses

-----------------------------------------------------------------------------
(* The replay of a history, trade by trade.                                *)

Plays(h) == [lots : Lots(h), lt : Lots(h), st : Lots(h)]

LEMMA SaleIsTyped ==
  ASSUME NEW h \in Seq(Trade), NEW t \in Trade, NEW lots \in Lots(h)
  PROVE  TaxLots!SellLots(h, lots, t) \in Takings(h)
<1>1. OpenIn(lots) \in SUBSET DOMAIN h
  BY DEF OpenIn, Lots
<1>2. SellOf(h, lots, t, OpenIn(lots))[OpenIn(lots)] \in Takings(h)
  BY <1>1, SellUnrolled
<1> QED BY <1>2, SellIsChosen

LEMMA ReplayedIsTyped ==
  ASSUME NEW h \in Seq(Trade), NEW i \in DOMAIN h, NEW acc \in Plays(h)
  PROVE  TaxLots!Replayed(h, i, acc) \in Plays(h)
<1>1. acc.lots \in Lots(h) /\ acc.lt \in Lots(h) /\ acc.st \in Lots(h)
  BY DEF Plays
<1>2. CASE h[i].side = "BUY"
  <2>1. h[i].qty \in Int
    BY TradesOf
  <2>2. [acc.lots EXCEPT ![i] = h[i].qty] \in Lots(h)
    BY <1>1, <2>1 DEF Lots
  <2>3. TaxLots!Replayed(h, i, acc) = [acc EXCEPT !.lots[i] = h[i].qty]
    BY <1>2 DEF TaxLots!Replayed
  <2>4. [acc EXCEPT !.lots[i] = h[i].qty]
          = [lots |-> [acc.lots EXCEPT ![i] = h[i].qty], lt |-> acc.lt, st |-> acc.st]
    BY DEF Plays
  <2> QED BY <1>1, <2>2, <2>3, <2>4 DEF Plays
<1>3. CASE h[i].side # "BUY"
  <2> DEFINE r == TaxLots!SellLots(h, acc.lots, h[i])
  <2>1. h[i] \in Trade
    BY TradeAt
  <2>2. r \in Takings(h)
    BY <1>1, <2>1, SaleIsTyped
  <2>3. r.lots \in Lots(h) /\ r.lt \in Int /\ r.st \in Int
    BY <2>2 DEF Takings
  <2>4. TaxLots!Replayed(h, i, acc)
          = [lots |-> r.lots, lt |-> [acc.lt EXCEPT ![i] = r.lt], st |-> [acc.st EXCEPT ![i] = r.st]]
    BY <1>3 DEF TaxLots!Replayed
  <2> HIDE DEF r
  <2>5. [acc.lt EXCEPT ![i] = r.lt] \in Lots(h) /\ [acc.st EXCEPT ![i] = r.st] \in Lots(h)
    BY <1>1, <2>3 DEF Lots
  <2> QED BY <2>3, <2>4, <2>5 DEF Plays
<1> QED BY <1>2, <1>3

ReplayUp(h, D, g) ==
  g = [s \in SUBSET D |-> IF s = {} THEN TaxLots!Unplayed(h)
                          ELSE TaxLots!Replayed(h, TaxLots!Latest(h, s), g[s \ {TaxLots!Latest(h, s)}])]
ReplayOf(h, D) == CHOOSE g : ReplayUp(h, D, g)

LEMMA ReplayIsChosen == \A h : TaxLots!Replay(h) = ReplayOf(h, DOMAIN h)[DOMAIN h]
  BY DEF TaxLots!Replay, TaxLots!MapThenFoldSet, ReplayOf, ReplayUp

LEMMA ReplayUnrolled ==
  ASSUME NEW h \in Seq(Trade)
  PROVE  LET D == DOMAIN h
             g == ReplayOf(h, D)
         IN /\ ReplayUp(h, D, g)
            /\ \A s \in SUBSET D : g[s] \in Plays(h)
<1> DEFINE V == Plays(h)
           D == DOMAIN h
           pick == LatestOf(h, D)
           base == TaxLots!Unplayed(h)
           F == [i \in D |-> [acc \in V |-> TaxLots!Replayed(h, i, acc)]]
           f == FoldOf(F, pick, base, D)
           g == ReplayOf(h, D)
<1>1. base \in V
  <2>1. [i \in DOMAIN h |-> 0] \in Lots(h)
    BY DEF Lots
  <2> QED BY <2>1 DEF TaxLots!Unplayed, Plays
<1>2. Picks(pick, D) /\ IsFiniteSet(D) /\ \A s \in SUBSET D : pick[s] = TaxLots!Latest(h, s)
  <2>1. DOMAIN h \in SUBSET DOMAIN h
    OBVIOUS
  <2> QED BY <2>1, LatestPicks
<1>3. ASSUME NEW i \in D, NEW acc \in V
      PROVE  F[i][acc] = TaxLots!Replayed(h, i, acc) /\ TaxLots!Replayed(h, i, acc) \in V
  <2>1. TaxLots!Replayed(h, i, acc) \in V
    BY ReplayedIsTyped
  <2> QED BY <2>1
<1> HIDE DEF V, pick, base, F, D
<1>4. FoldsUp(F, pick, base, D, f)
  BY <1>2, FoldExists
<1> HIDE DEF f
<1>5. \A s \in SUBSET D : f[s] \in V
  <2> DEFINE G == {s \in SUBSET D : f[s] \in V}
  <2>1. ASSUME NEW s \in SUBSET D, s = {} \/ RestOf(pick, s) \in G PROVE s \in G
    <3>1. f[s] = IF s = {} THEN base ELSE F[pick[s]][f[RestOf(pick, s)]]
      BY <1>4, FoldUnrolled
    <3>2. s # {} => f[RestOf(pick, s)] \in V /\ pick[s] \in D
      BY <1>2, <2>1 DEF Picks
    <3> QED BY <1>1, <1>3, <3>1, <3>2
  <2>2. Closes(pick, D, G)
    BY <2>1 DEF Closes
  <2> HIDE DEF G
  <2>3. SUBSET D \subseteq G
    BY <1>2, <2>2, EverySubset
  <2> QED BY <2>3 DEF G
<1>6. ReplayUp(h, D, f)
  <2>1. ASSUME NEW s \in SUBSET D, s # {}
        PROVE  F[pick[s]][f[RestOf(pick, s)]]
                 = TaxLots!Replayed(h, TaxLots!Latest(h, s), f[s \ {TaxLots!Latest(h, s)}])
    <3>1. pick[s] \in D /\ pick[s] = TaxLots!Latest(h, s) /\ RestOf(pick, s) \in SUBSET D
      BY <1>2, <2>1 DEF Picks, RestOf
    <3>2. f[RestOf(pick, s)] \in V
      BY <1>5, <3>1
    <3> QED BY <1>3, <3>1, <3>2 DEF RestOf
  <2>2. f = [s \in SUBSET D |-> IF s = {} THEN base ELSE F[pick[s]][f[RestOf(pick, s)]]]
    BY <1>4 DEF FoldsUp
  <2>3. f = [s \in SUBSET D |-> IF s = {} THEN base
                ELSE TaxLots!Replayed(h, TaxLots!Latest(h, s), f[s \ {TaxLots!Latest(h, s)}])]
    BY <2>1, <2>2
  <2> QED BY <2>3 DEF ReplayUp, base
<1>7. ReplayUp(h, D, g)
  BY <1>6 DEF ReplayOf
<1> HIDE DEF g
<1>8. \A s \in SUBSET D : g[s] \in V
  <2> DEFINE G == {s \in SUBSET D : g[s] \in V}
  <2>1. ASSUME NEW s \in SUBSET D, s = {} \/ RestOf(pick, s) \in G PROVE s \in G
    <3>1. g[s] = IF s = {} THEN base
                 ELSE TaxLots!Replayed(h, TaxLots!Latest(h, s), g[s \ {TaxLots!Latest(h, s)}])
      BY <1>7 DEF ReplayUp, base
    <3>2. s # {} => g[s \ {TaxLots!Latest(h, s)}] \in V /\ TaxLots!Latest(h, s) \in D
      BY <1>2, <2>1 DEF Picks, RestOf
    <3> QED BY <1>1, <1>3, <3>1, <3>2
  <2>2. Closes(pick, D, G)
    BY <2>1 DEF Closes
  <2> HIDE DEF G
  <2>3. SUBSET D \subseteq G
    BY <1>2, <2>2, EverySubset
  <2> QED BY <2>3 DEF G
<1> QED BY <1>7, <1>8 DEF g, V, D

(* A part of a sum of natural numbers is not larger than the sum.          *)
LEMMA SumOfPart ==
  ASSUME NEW w, NEW T, Sums(w, T), \A x \in T : w[x] >= 0, NEW S \in SUBSET T
  PROVE  Sum(w, S) <= Sum(w, T) /\ Sum(w, S) \in Nat
<1> DEFINE pick == [u \in SUBSET T |-> FirstOf(u)]
           G == {u \in SUBSET T : Sum(w, u \cap S) <= Sum(w, u) /\ Sum(w, u \cap S) >= 0}
<1>1. IsFiniteSet(T) /\ Picks(pick, T)
  BY FirstAndRest DEF Picks, Sums
<1>2. ASSUME NEW u \in SUBSET T, u = {} \/ RestOf(pick, u) \in G PROVE u \in G
  <2>1. CASE u = {}
    <3>1. u \cap S = {}
      BY <2>1
    <3>2. Sum(w, u) = 0 /\ Sum(w, u \cap S) = 0
      BY <2>1, <3>1, SumOfNothing
    <3> QED BY <3>2
  <2>2. CASE u # {}
    <3> DEFINE x == pick[u]
               R == RestOf(pick, u)
    <3>1. x \in T /\ u = R \cup {x} /\ x \notin R /\ R \in SUBSET T
      BY <1>1, <2>2 DEF Picks, RestOf
    <3>2. Sum(w, R \cap S) <= Sum(w, R) /\ Sum(w, R \cap S) >= 0
      BY <1>2, <2>2
    <3> HIDE DEF x, R
    <3>3. Sums(w, R) /\ Sums(w, R \cup {x}) /\ Sums(w, R \cap S) /\ Sums(w, (R \cap S) \cup {x})
      <4>1. R \cup {x} \in SUBSET T /\ R \cap S \in SUBSET T /\ (R \cap S) \cup {x} \in SUBSET T
        BY <3>1
      <4> QED BY <3>1, <4>1, SumsOfParts
    <3>4. Sum(w, u) = w[x] + Sum(w, R) /\ Sum(w, (R \cap S) \cup {x}) = w[x] + Sum(w, R \cap S)
      BY <3>1, <3>3, SumWithOneMore
    <3>5. Sum(w, R) \in Int /\ Sum(w, R \cap S) \in Int /\ w[x] \in Int /\ w[x] >= 0
      BY <3>1, <3>3, SumIsInt DEF Sums
    <3>6. u \cap S = IF x \in S THEN (R \cap S) \cup {x} ELSE R \cap S
      BY <3>1
    <3>7. Sum(w, u \cap S) = IF x \in S THEN w[x] + Sum(w, R \cap S) ELSE Sum(w, R \cap S)
      BY <3>4, <3>6
    <3>8. Sum(w, u \cap S) <= Sum(w, u) /\ Sum(w, u \cap S) >= 0
      BY <3>2, <3>4, <3>5, <3>7
    <3> QED BY <3>8
  <2> QED BY <2>1, <2>2
<1>3. Closes(pick, T, G)
  BY <1>2 DEF Closes
<1> HIDE DEF G, pick
<1>4. T \in G
  BY <1>1, <1>3, EverySubset
<1>5. Sum(w, T \cap S) <= Sum(w, T) /\ Sum(w, T \cap S) >= 0 /\ T \cap S = S
  BY <1>4 DEF G
<1>6. Sum(w, S) \in Int
  BY SumsOfParts, SumIsInt
<1> QED BY <1>5, <1>6

LEMMA SharesGrow ==
  ASSUME NEW h \in Seq(Trade), NEW T \in SUBSET DOMAIN h, NEW S \in SUBSET T
  PROVE  TaxLots!Shares(h, S) <= TaxLots!Shares(h, T)
<1>1. IsFiniteSet(DOMAIN h) /\ IsFiniteSet(T) /\ S \in SUBSET DOMAIN h
  BY TradesOf, FS_Subset
<1>2. \A i \in T : QtyOf(h)[i] \in Int /\ QtyOf(h)[i] >= 0
  BY TradeAt DEF QtyOf
<1>3. Sums(QtyOf(h), T)
  BY <1>1, <1>2 DEF Sums
<1>4. Sum(QtyOf(h), S) <= Sum(QtyOf(h), T)
  BY <1>2, <1>3, SumOfPart
<1> QED BY <1>1, <1>4, SharesAreSummed

Closed(h, s) == \A i \in s, k \in DOMAIN h : TaxLots!Before(h, k, i) => k \in s
SoldIn(h, s) == TaxLots!Shares(h, Sales(h) \cap s)

(* The gains and the lots, once the trades of s have been replayed.        *)
PlayedTo(h, s, r) ==
  /\ r \in Plays(h)
  /\ \A i \in DOMAIN h : r.lots[i] = IF i \in Buys(h) \cap s THEN LeftAfter(h, i, SoldIn(h, s)) ELSE 0
  /\ \A j \in Sales(h) \cap s :
       /\ r.lt[j] = TaxLots!GainsOver(h, j, LongOf(h, j))
       /\ r.st[j] = TaxLots!GainsOver(h, j, Buys(h) \ LongOf(h, j))

LEMMA ClosedBelowLatest ==
  ASSUME NEW h \in Seq(Trade), NEW s \in SUBSET DOMAIN h, Closed(h, s), NEW x, IsLatest(h, s, x)
  PROVE  Closed(h, s \ {x}) /\ x \in DOMAIN h
<1>1. x \in DOMAIN h /\ x \in s
  BY DEF IsLatest
<1>2. ASSUME NEW i \in s \ {x}, NEW k \in DOMAIN h, TaxLots!Before(h, k, i) PROVE k \in s \ {x}
  <2>1. k \in s
    BY <1>2 DEF Closed
  <2>2. TaxLots!Before(h, i, x) /\ i \in DOMAIN h /\ i # x
    BY <1>2 DEF IsLatest
  <2>3. ~TaxLots!Before(h, x, i)
    BY <1>1, <2>2, BeforeIsAnOrder
  <2> QED BY <1>2, <2>1, <2>3
<1> QED BY <1>1, <1>2 DEF Closed

LEMMA SoldIsNat ==
  ASSUME NEW h \in Seq(Trade), NEW s
  PROVE  SoldIn(h, s) \in Nat
<1>1. Sales(h) \cap s \in SUBSET DOMAIN h /\ {} \in SUBSET (Sales(h) \cap s)
  BY TradesOf
<1>2. TaxLots!Shares(h, Sales(h) \cap s) \in Int
  BY <1>1, SharesAreInt
<1>3. TaxLots!Shares(h, {}) <= TaxLots!Shares(h, Sales(h) \cap s)
  BY <1>1, SharesGrow
<1>4. TaxLots!Shares(h, {}) = 0
  BY SharesOfNothing, TradesOf
<1> QED BY <1>2, <1>3, <1>4 DEF SoldIn

LEMMA PurchaseIsReplayed ==
  ASSUME NEW h, Sound(h), NEW s \in SUBSET DOMAIN h, Closed(h, s), NEW x, IsLatest(h, s, x),
         h[x].side = "BUY", NEW acc, PlayedTo(h, s \ {x}, acc)
  PROVE  PlayedTo(h, s, TaxLots!Replayed(h, x, acc))
<1> DEFINE u == s \ {x}
           r == TaxLots!Replayed(h, x, acc)
<1>1. h \in Seq(Trade) /\ x \in DOMAIN h /\ x \in s /\ x \in Buys(h) /\ x \notin Sales(h)
  <2>1. h \in Seq(Trade) /\ x \in DOMAIN h /\ x \in s
    BY DEF Sound, IsLatest
  <2> QED BY <2>1 DEF Buys, Sales, TaxLots!Of
<1>2. Sales(h) \cap s = Sales(h) \cap u
  BY <1>1
<1>3. SoldIn(h, s) = SoldIn(h, u) /\ SoldIn(h, u) \in Nat
  BY <1>1, <1>2, SoldIsNat DEF SoldIn
<1>4. h[x].qty \in Nat /\ x \in Cuts(h) /\ Bought(h, x) \in Nat /\ Sold(h, x) \in Nat
  <2>1. h[x].qty \in Nat /\ x \in Cuts(h)
    BY <1>1, TradeAt
  <2> QED BY <1>1, <2>1, PriorIsNat DEF Bought, Sold
<1>5. SoldIn(h, u) <= Sold(h, x)
  <2>1. ASSUME NEW k \in Sales(h) \cap u PROVE k < x /\ k \in DOMAIN h
    <3>1. k \in DOMAIN h /\ k \in s /\ k # x /\ h[k].side = "SELL"
      BY DEF Sales, TaxLots!Of
    <3>2. TaxLots!Before(h, k, x)
      BY <3>1 DEF IsLatest
    <3>3. h[k].day < h[x].day
      BY <3>1, <3>2 DEF TaxLots!Before
    <3>4. h[k].day \in Int /\ h[x].day \in Int /\ k \in Int /\ x \in Int
      BY <1>1, <3>1, TradeAt
    <3>5. ~(x < k)
      BY <1>1, <3>1, <3>3, <3>4 DEF Sound, Chronological
    <3> QED BY <3>1, <3>4, <3>5
  <2>2. Sales(h) \cap u \in SUBSET {k \in TaxLots!Of("SELL", h) : k < x}
    BY <2>1 DEF Sales
  <2>3. {k \in TaxLots!Of("SELL", h) : k < x} \in SUBSET DOMAIN h
    BY DEF TaxLots!Of
  <2> QED BY <1>1, <2>2, <2>3, SharesGrow DEF SoldIn, Sold, TaxLots!Prior
<1>6. Sold(h, x) <= Bought(h, x)
  BY <1>4 DEF Sound, NeverShort, Cuts, Sold, Bought
<1>7. LeftAfter(h, x, SoldIn(h, u)) = h[x].qty
  <2>1. LeftAfter(h, x, SoldIn(h, u)) = Beyond(Bought(h, x), Bought(h, x) + h[x].qty, SoldIn(h, u))
    BY <1>1, <1>3, LeftIsBeyond
  <2>2. SoldIn(h, u) <= Bought(h, x)
    BY <1>3, <1>4, <1>5, <1>6
  <2> QED BY <1>3, <1>4, <2>1, <2>2 DEF Beyond, Larger
<1>8. /\ acc \in Plays(h)
      /\ \A i \in DOMAIN h : acc.lots[i] = IF i \in Buys(h) \cap u THEN LeftAfter(h, i, SoldIn(h, u)) ELSE 0
      /\ \A j \in Sales(h) \cap u :
           /\ acc.lt[j] = TaxLots!GainsOver(h, j, LongOf(h, j))
           /\ acc.st[j] = TaxLots!GainsOver(h, j, Buys(h) \ LongOf(h, j))
  BY DEF PlayedTo
<1>9. r = [acc EXCEPT !.lots[x] = h[x].qty] /\ r \in Plays(h)
  BY <1>1, <1>8, ReplayedIsTyped DEF TaxLots!Replayed
<1>10. r.lots = [acc.lots EXCEPT ![x] = h[x].qty] /\ r.lt = acc.lt /\ r.st = acc.st /\ acc.lots \in Lots(h)
  BY <1>8, <1>9 DEF Plays
<1> HIDE DEF r
<1>11. ASSUME NEW i \in DOMAIN h
       PROVE  r.lots[i] = IF i \in Buys(h) \cap s THEN LeftAfter(h, i, SoldIn(h, s)) ELSE 0
  <2>1. CASE i = x
    BY <1>1, <1>3, <1>7, <1>10, <2>1 DEF Lots
  <2>2. CASE i # x
    <3>1. r.lots[i] = acc.lots[i] /\ (i \in Buys(h) \cap s <=> i \in Buys(h) \cap u)
      BY <1>10, <2>2 DEF Lots
    <3> QED BY <1>3, <1>8, <3>1
  <2> QED BY <2>1, <2>2
<1>12. PlayedTo(h, s, r)
  BY <1>2, <1>8, <1>9, <1>10, <1>11 DEF PlayedTo
<1> QED BY <1>12 DEF r

LEMMA SaleIsReplayed ==
  ASSUME NEW h, Sound(h), NEW s \in SUBSET DOMAIN h, Closed(h, s), NEW x, IsLatest(h, s, x),
         h[x].side = "SELL", NEW acc, PlayedTo(h, s \ {x}, acc)
  PROVE  PlayedTo(h, s, TaxLots!Replayed(h, x, acc))
<1> DEFINE u == s \ {x}
           r == TaxLots!Replayed(h, x, acc)
           M == Buys(h) \cap u
           t == TaxLots!SellLots(h, acc.lots, h[x])
<1>1. h \in Seq(Trade) /\ x \in DOMAIN h /\ x \in s /\ x \in Sales(h) /\ x \notin Buys(h)
  <2>1. h \in Seq(Trade) /\ x \in DOMAIN h /\ x \in s
    BY DEF Sound, IsLatest
  <2> QED BY <2>1 DEF Buys, Sales, TaxLots!Of
<1>2. ASSUME NEW k \in DOMAIN h, k < x PROVE k \in u /\ TaxLots!Before(h, k, x)
  <2>1. h[k].day \in Int /\ h[x].day \in Int /\ h[k].side \in {"BUY", "SELL"} /\ k \in Int /\ x \in Int
    BY <1>1, TradeAt, TradesOf
  <2>2. h[k].day <= h[x].day
    BY <1>1, <1>2 DEF Sound, Chronological
  <2>3. TaxLots!Before(h, k, x)
    BY <1>2, <2>1, <2>2 DEF TaxLots!Before
  <2>4. k \in s
    BY <1>1, <2>3 DEF Closed
  <2> QED BY <1>2, <2>1, <2>3, <2>4
<1>3. ASSUME NEW k \in Sales(h) \cap u PROVE k < x
  <2>1. k \in DOMAIN h /\ k \in s /\ k # x /\ h[k].side = "SELL"
    BY DEF Sales, TaxLots!Of
  <2>2. TaxLots!Before(h, k, x)
    BY <2>1 DEF IsLatest
  <2>3. h[k].day \in Int /\ h[x].day \in Int /\ k \in Int /\ x \in Int
    BY <1>1, <2>1, TradeAt
  <2>4. CASE h[k].day < h[x].day
    <3>1. ~(x < k)
      BY <1>1, <2>1, <2>3, <2>4 DEF Sound, Chronological
    <3> QED BY <2>1, <2>3, <3>1
  <2>5. CASE ~(h[k].day < h[x].day)
    BY <2>1, <2>2, <2>5 DEF TaxLots!Before
  <2> QED BY <2>4, <2>5
<1>4. /\ Sales(h) \cap u = {k \in TaxLots!Of("SELL", h) : k < x}
      /\ Sales(h) \cap s = {k \in TaxLots!Of("SELL", h) : k < x + 1}
  <2>1. Sales(h) = TaxLots!Of("SELL", h) /\ Sales(h) \subseteq DOMAIN h
    BY DEF Sales, TaxLots!Of
  <2>2. \A k \in DOMAIN h : k < x + 1 <=> (k < x \/ k = x)
    <3>1. x \in Int /\ \A k \in DOMAIN h : k \in Int
      BY <1>1, TradeAt
    <3> QED BY <3>1
  <2>3. \A k \in Sales(h) : (k \in u <=> k < x) /\ (k \in s <=> k < x + 1)
    BY <1>1, <1>2, <1>3, <2>1, <2>2
  <2> QED BY <2>1, <2>3
<1>5. SoldIn(h, u) = Sold(h, x) /\ SoldIn(h, s) = Sold(h, x + 1)
  BY <1>4 DEF SoldIn, Sold, TaxLots!Prior
<1>6. /\ acc \in Plays(h) /\ acc.lots \in Lots(h) /\ acc.lt \in Lots(h) /\ acc.st \in Lots(h)
      /\ \A i \in DOMAIN h : acc.lots[i] = IF i \in M THEN LeftAfter(h, i, Sold(h, x)) ELSE 0
      /\ \A j \in Sales(h) \cap u :
           /\ acc.lt[j] = TaxLots!GainsOver(h, j, LongOf(h, j))
           /\ acc.st[j] = TaxLots!GainsOver(h, j, Buys(h) \ LongOf(h, j))
  BY <1>5 DEF PlayedTo, Plays
<1>7. SaleOpens(h, x, M, acc.lots)
  <2>1. \A k \in Buys(h) : k < x => k \in M
    BY <1>2, TradesOf DEF Buys, TaxLots!Of
  <2> QED BY <1>1, <1>6, <2>1 DEF SaleOpens
<1>8. /\ t \in Takings(h)
      /\ \A i \in DOMAIN h : t.lots[i] = IF i \in M THEN LeftAfter(h, i, Sold(h, x + 1)) ELSE 0
      /\ t.lt = TaxLots!GainsOver(h, x, LongOf(h, x))
      /\ t.st = TaxLots!GainsOver(h, x, Buys(h) \ LongOf(h, x))
  <2>1. SaleCloses(h, x, M, t)
    BY <1>7, SaleIsShareByShare
  <2> QED BY <2>1 DEF SaleCloses
<1>9. r \in Plays(h)
  BY <1>1, <1>6, ReplayedIsTyped
<1>10. r.lots = t.lots /\ r.lt = [acc.lt EXCEPT ![x] = t.lt] /\ r.st = [acc.st EXCEPT ![x] = t.st]
  BY DEF TaxLots!Replayed
<1> HIDE DEF r, t
<1>11. ASSUME NEW i \in DOMAIN h
       PROVE  r.lots[i] = IF i \in Buys(h) \cap s THEN LeftAfter(h, i, SoldIn(h, s)) ELSE 0
  BY <1>1, <1>5, <1>8, <1>10
<1>12. ASSUME NEW j \in Sales(h) \cap s
       PROVE  /\ r.lt[j] = TaxLots!GainsOver(h, j, LongOf(h, j))
              /\ r.st[j] = TaxLots!GainsOver(h, j, Buys(h) \ LongOf(h, j))
  <2>1. j \in DOMAIN h
    OBVIOUS
  <2>2. CASE j = x
    BY <1>6, <1>8, <1>10, <2>1, <2>2 DEF Lots
  <2>3. CASE j # x
    <3>1. r.lt[j] = acc.lt[j] /\ r.st[j] = acc.st[j]
      BY <1>6, <1>10, <2>1, <2>3 DEF Lots
    <3> QED BY <1>6, <2>3, <3>1
  <2> QED BY <2>2, <2>3
<1>13. PlayedTo(h, s, r)
  BY <1>9, <1>11, <1>12 DEF PlayedTo
<1> QED BY <1>13 DEF r

LEMMA NothingIsReplayed ==
  ASSUME NEW h \in Seq(Trade)
  PROVE  PlayedTo(h, {}, TaxLots!Unplayed(h))
<1>1. [i \in DOMAIN h |-> 0] \in Lots(h)
  BY DEF Lots
<1>2. TaxLots!Unplayed(h) \in Plays(h) /\ \A i \in DOMAIN h : TaxLots!Unplayed(h).lots[i] = 0
  BY <1>1 DEF TaxLots!Unplayed, Plays
<1> QED BY <1>2 DEF PlayedTo

(* The replay is the first-in-first-out rule, share by share.              *)
LEMMA ReplayIsShareByShare ==
  ASSUME NEW h, Sound(h)
  PROVE  PlayedTo(h, DOMAIN h, TaxLots!Replay(h))
<1> DEFINE D == DOMAIN h
           pick == LatestOf(h, D)
           g == ReplayOf(h, D)
           G == {s \in SUBSET D : Closed(h, s) => PlayedTo(h, s, g[s])}
<1>1. h \in Seq(Trade)
  BY DEF Sound
<1>2. Picks(pick, D) /\ IsFiniteSet(D) /\ \A s \in SUBSET D : pick[s] = TaxLots!Latest(h, s)
  <2>1. DOMAIN h \in SUBSET DOMAIN h
    OBVIOUS
  <2> QED BY <1>1, <2>1, LatestPicks
<1>3. ReplayUp(h, D, g)
  BY <1>1, ReplayUnrolled
<1> HIDE DEF g, pick
<1>4. ASSUME NEW s \in SUBSET D, s = {} \/ RestOf(pick, s) \in G PROVE s \in G
  <2> DEFINE x == TaxLots!Latest(h, s)
  <2>1. g[s] = IF s = {} THEN TaxLots!Unplayed(h) ELSE TaxLots!Replayed(h, x, g[s \ {x}])
    BY <1>3 DEF ReplayUp
  <2>2. CASE s = {}
    BY <1>1, <2>1, <2>2, NothingIsReplayed
  <2>3. CASE s # {}
    <3>1. SUFFICES ASSUME Closed(h, s) PROVE PlayedTo(h, s, g[s])
      OBVIOUS
    <3>2. IsLatest(h, s, x)
      BY <1>1, <2>3, LatestExists
    <3>3. RestOf(pick, s) = s \ {x}
      BY <1>2 DEF RestOf
    <3> HIDE DEF x
    <3>4. Closed(h, s \ {x}) /\ x \in DOMAIN h
      BY <1>1, <3>1, <3>2, ClosedBelowLatest
    <3>5. PlayedTo(h, s \ {x}, g[s \ {x}])
      BY <1>4, <2>3, <3>3, <3>4
    <3>6. h[x].side \in {"BUY", "SELL"}
      BY <1>1, <3>4, TradesOf
    <3>7. CASE h[x].side = "BUY"
      BY <2>1, <2>3, <3>1, <3>2, <3>5, <3>7, PurchaseIsReplayed
    <3>8. CASE h[x].side = "SELL"
      BY <2>1, <2>3, <3>1, <3>2, <3>5, <3>8, SaleIsReplayed
    <3> QED BY <3>6, <3>7, <3>8
  <2> QED BY <2>2, <2>3
<1>5. Closes(pick, D, G)
  BY <1>4 DEF Closes
<1> HIDE DEF G
<1>6. D \in G
  BY <1>2, <1>5, EverySubset
<1>7. Closed(h, D)
  BY DEF Closed
<1>8. PlayedTo(h, D, g[D])
  BY <1>6, <1>7 DEF G
<1> QED BY <1>8, ReplayIsChosen DEF g

-----------------------------------------------------------------------------
(* One trade more.                                                         *)

LEMMA OneTradeMore ==
  ASSUME NEW h \in Seq(Trade), NEW t \in Trade
  PROVE  LET e == Append(h, t)
             n == Len(h) + 1
         IN /\ e \in Seq(Trade) /\ Len(e) = n /\ n \in Nat /\ DOMAIN e = DOMAIN h \cup {n} /\ n \notin DOMAIN h
            /\ e[n] = t /\ \A i \in DOMAIN h : e[i] = h[i] /\ i < n
            /\ Cuts(h) = 1 .. n /\ Cuts(e) = Cuts(h) \cup {n + 1} /\ DOMAIN h = 1 .. n - 1
  BY DEF Cuts

LEMMA OfOneTradeMore ==
  ASSUME NEW h \in Seq(Trade), NEW t \in Trade, NEW side
  PROVE  TaxLots!Of(side, Append(h, t))
           = TaxLots!Of(side, h) \cup (IF t.side = side THEN {Len(h) + 1} ELSE {})
<1> DEFINE e == Append(h, t)
           n == Len(h) + 1
<1>1. DOMAIN e = DOMAIN h \cup {n} /\ e[n] = t /\ \A i \in DOMAIN h : e[i] = h[i]
  BY OneTradeMore
<1> HIDE DEF e, n
<1>2. TaxLots!Of(side, e) = TaxLots!Of(side, h) \cup (IF t.side = side THEN {n} ELSE {})
  BY <1>1 DEF TaxLots!Of
<1> QED BY <1>2 DEF e, n

LEMMA SharesStay ==
  ASSUME NEW h \in Seq(Trade), NEW t \in Trade, NEW S \in SUBSET DOMAIN h
  PROVE  /\ TaxLots!Shares(Append(h, t), S) = TaxLots!Shares(h, S)
         /\ TaxLots!Paid(Append(h, t), S) = TaxLots!Paid(h, S)
<1> DEFINE e == Append(h, t)
<1>1. \A i \in S : e[i] = h[i]
  BY OneTradeMore
<1> HIDE DEF e
<1>2. /\ [i \in S |-> e[i].qty] = [i \in S |-> h[i].qty]
      /\ [i \in S |-> e[i].qty * e[i].price * TaxLots!Parts] = [i \in S |-> h[i].qty * h[i].price * TaxLots!Parts]
  BY <1>1
<1>3. TaxLots!Shares(e, S) = TaxLots!Shares(h, S) /\ TaxLots!Paid(e, S) = TaxLots!Paid(h, S)
  BY <1>2 DEF TaxLots!Shares, TaxLots!Paid
<1> QED BY <1>3 DEF e

LEMMA PriorStays ==
  ASSUME NEW h \in Seq(Trade), NEW t \in Trade, NEW side, NEW c \in Cuts(h)
  PROVE  TaxLots!Prior(Append(h, t), side, c) = TaxLots!Prior(h, side, c)
<1> DEFINE n == Len(h) + 1
           S == {k \in TaxLots!Of(side, h) : k < c}
<1>1. c <= n /\ c \in Int /\ n \in Int /\ DOMAIN h \subseteq Int
  BY OneTradeMore
<1>2. {k \in TaxLots!Of(side, Append(h, t)) : k < c} = S
  BY <1>1, OfOneTradeMore
<1>3. S \in SUBSET DOMAIN h
  BY DEF TaxLots!Of
<1> QED BY <1>2, <1>3, SharesStay DEF TaxLots!Prior

LEMMA HeldIsTheDifference ==
  ASSUME NEW h \in Seq(Trade)
  PROVE  /\ TaxLots!Held(h) = Bought(h, Len(h) + 1) - Sold(h, Len(h) + 1)
         /\ TaxLots!Held(h) \in Int
         /\ SoldIn(h, DOMAIN h) = Sold(h, Len(h) + 1)
<1> DEFINE n == Len(h) + 1
<1>1. n \in Cuts(h) /\ \A i \in DOMAIN h : i < n
  BY TradesOf DEF Cuts
<1>2. \A side : {k \in TaxLots!Of(side, h) : k < n} = TaxLots!Of(side, h)
  BY <1>1 DEF TaxLots!Of
<1>3. TaxLots!Of("SELL", h) = Sales(h) \cap DOMAIN h
  BY DEF Sales, TaxLots!Of
<1>4. Bought(h, n) \in Nat /\ Sold(h, n) \in Nat
  BY <1>1, PriorIsNat DEF Bought, Sold
<1> HIDE DEF n
<1>5. TaxLots!Held(h) = Bought(h, n) - Sold(h, n) /\ SoldIn(h, DOMAIN h) = Sold(h, n)
  BY <1>2, <1>3 DEF TaxLots!Held, Bought, Sold, TaxLots!Prior, SoldIn
<1> QED BY <1>4, <1>5 DEF n

LEMMA SoundWithOneMore ==
  ASSUME NEW h, Sound(h), NEW t \in Trade, \A i \in DOMAIN h : h[i].day <= t.day,
         t.side = "SELL" => t.qty <= TaxLots!Held(h)
  PROVE  Sound(Append(h, t))
<1> DEFINE e == Append(h, t)
           n == Len(h) + 1
<1>1. /\ h \in Seq(Trade) /\ e \in Seq(Trade) /\ n \in Nat /\ DOMAIN e = DOMAIN h \cup {n} /\ n \notin DOMAIN h
      /\ e[n] = t /\ \A i \in DOMAIN h : e[i] = h[i] /\ i < n /\ i \in Int
  BY OneTradeMore, TradeAt DEF Sound
<1>2. Cuts(e) = Cuts(h) \cup {n + 1} /\ n \in Cuts(h) /\ Len(e) = n
  BY <1>1, OneTradeMore
<1> HIDE DEF e
<1>3. Chronological(e)
  <2>1. ASSUME NEW i \in DOMAIN e, NEW j \in DOMAIN e, i < j PROVE e[i].day <= e[j].day
    <3>1. i \in DOMAIN h
      BY <1>1, <2>1
    <3>2. CASE j = n
      BY <1>1, <3>1, <3>2
    <3>3. CASE j # n
      BY <1>1, <2>1, <3>1, <3>3 DEF Sound, Chronological
    <3> QED BY <3>2, <3>3
  <2> QED BY <2>1 DEF Chronological
<1>4. \A c \in Cuts(h) : Sold(e, c) = Sold(h, c) /\ Bought(e, c) = Bought(h, c)
  BY <1>1, PriorStays DEF Sold, Bought, e
<1>5. Sold(e, n + 1) <= Bought(e, n + 1)
  <2>1. /\ Sold(e, n + 1) = Sold(e, n) + IF t.side = "SELL" THEN t.qty ELSE 0
        /\ Bought(e, n + 1) = Bought(e, n) + IF t.side = "BUY" THEN t.qty ELSE 0
    BY <1>1, PriorSteps DEF Sold, Bought
  <2>2. Sold(h, n) <= Bought(h, n) /\ Sold(h, n) \in Nat /\ Bought(h, n) \in Nat
    BY <1>1, <1>2, PriorIsNat DEF Sound, NeverShort, Cuts, Sold, Bought
  <2>3. t.side = "SELL" => t.qty <= Bought(h, n) - Sold(h, n)
    BY <1>1, HeldIsTheDifference
  <2>4. t.qty \in Int /\ t.qty > 0 /\ t.side \in {"BUY", "SELL"}
    BY TradeParts
  <2>5. Sold(e, n) = Sold(h, n) /\ Bought(e, n) = Bought(h, n)
    BY <1>2, <1>4
  <2> HIDE DEF n
  <2> QED BY <2>1, <2>2, <2>3, <2>4, <2>5
<1>6. NeverShort(e)
  <2>1. \A c \in Cuts(h) : Sold(h, c) <= Bought(h, c)
    BY DEF Sound, NeverShort, Cuts, Sold, Bought
  <2>2. \A c \in Cuts(e) : Sold(e, c) <= Bought(e, c)
    BY <1>2, <1>4, <1>5, <2>1
  <2> QED BY <1>1, <2>2 DEF NeverShort, Cuts, Sold, Bought
<1> QED BY <1>1, <1>3, <1>6 DEF Sound, e

LEMMA NoTradesAreSound == Sound(<<>>)
<1>1. <<>> \in Seq(Trade) /\ DOMAIN <<>> = {} /\ Len(<<>>) = 0
  OBVIOUS
<1>2. TaxLots!Prior(<<>>, "SELL", 1) = 0 /\ TaxLots!Prior(<<>>, "BUY", 1) = 0
  BY <1>1, PriorStarts
<1> QED BY <1>1, <1>2 DEF Sound, Chronological, NeverShort

-----------------------------------------------------------------------------
(* What a harvest in India sells.                                          *)

LEMMA OpenLotsAre ==
  ASSUME NEW h, Sound(h)
  PROVE  LET lots == TaxLots!OpenLots(h)
             t == Sold(h, Len(h) + 1)
         IN /\ lots \in Lots(h) /\ t \in Nat
            /\ \A i \in DOMAIN h : lots[i] = (IF i \in Buys(h) THEN LeftAfter(h, i, t) ELSE 0) /\ lots[i] \in Nat
<1> DEFINE t == Sold(h, Len(h) + 1)
           lots == TaxLots!OpenLots(h)
<1>1. h \in Seq(Trade) /\ PlayedTo(h, DOMAIN h, TaxLots!Replay(h)) /\ SoldIn(h, DOMAIN h) = t
  BY ReplayIsShareByShare, HeldIsTheDifference DEF Sound
<1>2. lots = TaxLots!Replay(h).lots
  BY DEF TaxLots!OpenLots
<1>3. lots \in Lots(h) /\ \A i \in DOMAIN h : lots[i] = IF i \in Buys(h) \cap DOMAIN h THEN LeftAfter(h, i, t) ELSE 0
  BY <1>1, <1>2 DEF PlayedTo, Plays
<1>4. t \in Nat
  BY <1>1, SoldIsNat
<1> HIDE DEF t, lots
<1>5. ASSUME NEW i \in DOMAIN h PROVE lots[i] = (IF i \in Buys(h) THEN LeftAfter(h, i, t) ELSE 0) /\ lots[i] \in Nat
  <2>1. i \in Buys(h) => LeftAfter(h, i, t) \in Nat
    BY <1>1, <1>4, LeftIsBeyond
  <2> QED BY <1>3, <2>1
<1> QED BY <1>3, <1>4, <1>5 DEF t, lots

LEMMA OpenLotsUpTo ==
  ASSUME NEW h, Sound(h), NEW c \in Cuts(h)
  PROVE  Sum(TaxLots!OpenLots(h), Until(DOMAIN h, c)) = Larger(0, Bought(h, c) - Sold(h, Len(h) + 1))
<1> DEFINE lots == TaxLots!OpenLots(h)
           t == Sold(h, Len(h) + 1)
           G == {k \in Cuts(h) : Sum(lots, Until(DOMAIN h, k)) = Larger(0, Bought(h, k) - t)}
<1>1. h \in Seq(Trade) /\ lots \in Lots(h) /\ t \in Nat
      /\ \A i \in DOMAIN h : lots[i] = (IF i \in Buys(h) THEN LeftAfter(h, i, t) ELSE 0) /\ lots[i] \in Nat
  BY OpenLotsAre DEF Sound
<1>2. /\ DOMAIN h = 1 .. Len(h) /\ Cuts(h) = 1 .. Len(h) + 1 /\ Len(h) \in Nat /\ IsFiniteSet(DOMAIN h)
  BY <1>1, TradesOf DEF Cuts
<1> HIDE DEF lots, t
<1>3. Passes(Len(h), G)
  <2>1. 1 \in G
    <3>1. Until(DOMAIN h, 1) = {} /\ 1 \in Cuts(h)
      BY <1>2 DEF Until
    <3>2. Sum(lots, Until(DOMAIN h, 1)) = 0
      BY <3>1, SumOfNothing
    <3>3. Bought(h, 1) = 0
      BY <1>1, PriorStarts DEF Bought
    <3>4. Larger(0, 0 - t) = 0
      BY <1>1 DEF Larger
    <3> QED BY <3>1, <3>2, <3>3, <3>4
  <2>2. ASSUME NEW k \in 1 .. Len(h), k \in G PROVE k + 1 \in G
    <3> DEFINE U == Until(DOMAIN h, k)
               B == Bought(h, k)
               q == h[k].qty
    <3>1. /\ k \in DOMAIN h /\ k \in Cuts(h) /\ k + 1 \in Cuts(h)
          /\ Until(DOMAIN h, k + 1) = U \cup {k} /\ k \notin U /\ U \in SUBSET DOMAIN h
      BY <1>2 DEF Until
    <3>2. Sum(lots, U) = Larger(0, B - t)
      BY <2>2
    <3>3. B \in Nat /\ q \in Nat
      BY <1>1, <3>1, TradeAt, PriorIsNat DEF Bought
    <3>4. Bought(h, k + 1) = B + IF k \in Buys(h) THEN q ELSE 0
      BY <1>1, <3>1, PriorSteps DEF Bought, Buys, TaxLots!Of
    <3>5. lots[k] = IF k \in Buys(h) THEN Beyond(B, B + q, t) ELSE 0
      BY <1>1, <3>1, LeftIsBeyond
    <3>6. Sums(lots, U \cup {k})
      <4>1. IsFiniteSet(U \cup {k}) /\ U \cup {k} \in SUBSET DOMAIN h
        BY <1>2, <3>1, FS_Subset
      <4> QED BY <1>1, <4>1 DEF Sums
    <3> HIDE DEF U, B, q
    <3>7. Sum(lots, U \cup {k}) = lots[k] + Sum(lots, U)
      BY <3>1, <3>6, SumWithOneMore
    <3>8. Larger(0, B - t) + Beyond(B, B + q, t) = Larger(0, (B + q) - t)
      BY <1>1, <3>3 DEF Larger, Beyond
    <3>9. Larger(0, B - t) \in Int /\ Beyond(B, B + q, t) \in Int
      BY <1>1, <3>3 DEF Larger, Beyond
    <3>10. Sum(lots, U \cup {k}) = Larger(0, Bought(h, k + 1) - t)
      <4>1. CASE k \in Buys(h)
        <5>1. Bought(h, k + 1) = B + q
          BY <3>4, <4>1
        <5>2. Sum(lots, U \cup {k}) = Beyond(B, B + q, t) + Larger(0, B - t)
          BY <3>2, <3>5, <3>7, <4>1
        <5> QED BY <3>8, <3>9, <5>1, <5>2
      <4>2. CASE k \notin Buys(h)
        <5>1. Bought(h, k + 1) = B
          BY <3>3, <3>4, <4>2
        <5> QED BY <3>2, <3>5, <3>7, <3>9, <4>2, <5>1
      <4> QED BY <4>1, <4>2
    <3> QED BY <3>1, <3>10
  <2> HIDE DEF G
  <2> QED BY <2>1, <2>2 DEF Passes
<1> HIDE DEF G
<1>4. 1 .. Len(h) + 1 \subseteq G
  BY <1>2, <1>3, EveryCut
<1> QED BY <1>2, <1>4 DEF G, lots, t

LEMMA LongTermIsHeld ==
  ASSUME NEW h, Sound(h), NEW d
  PROVE  /\ TaxLots!LongTermQty(h, d) \in Nat /\ TaxLots!LongTermQty(h, d) <= TaxLots!Held(h)
         /\ TaxLots!Held(h) \in Nat
<1> DEFINE lots == TaxLots!OpenLots(h)
           D == DOMAIN h
           S == {i \in D : TaxLots!IsLongTerm(h[i].day, d)}
           n == Len(h) + 1
<1>1. h \in Seq(Trade) /\ \A i \in D : lots[i] \in Int /\ lots[i] >= 0
  BY OpenLotsAre DEF Sound
<1>2. IsFiniteSet(D) /\ n \in Cuts(h) /\ Until(D, n) = D
  <2>1. IsFiniteSet(D) /\ D = 1 .. Len(h) /\ Len(h) \in Nat
    BY <1>1, TradesOf
  <2> QED BY <2>1 DEF Cuts, Until
<1>3. Sums(lots, D)
  BY <1>1, <1>2 DEF Sums
<1> HIDE DEF lots
<1>4. Sum(lots, S) <= Sum(lots, D) /\ Sum(lots, S) \in Nat
  BY <1>1, <1>3, SumOfPart
<1>5. Sum(lots, D) = Larger(0, Bought(h, n) - Sold(h, n))
  BY <1>2, OpenLotsUpTo DEF lots
<1>6. Bought(h, n) \in Nat /\ Sold(h, n) \in Nat /\ Sold(h, n) <= Bought(h, n)
  BY <1>1, <1>2, PriorIsNat DEF Bought, Sold, Sound, NeverShort, Cuts
<1>7. TaxLots!Held(h) = Bought(h, n) - Sold(h, n)
  BY <1>1, HeldIsTheDifference
<1>8. Sum(lots, D) = TaxLots!Held(h) /\ TaxLots!Held(h) \in Nat
  BY <1>5, <1>6, <1>7 DEF Larger
<1>9. TaxLots!LongTermQty(h, d) = Sum(lots, S)
  BY TotalsAreSums DEF TaxLots!LongTermQty, lots
<1> QED BY <1>4, <1>8, <1>9

LEMMA QuotientIsBelow ==
  ASSUME NEW a \in Nat, NEW g \in Nat \ {0}, NEW n \in Nat, a <= n * g
  PROVE  a \div g \in Nat /\ a \div g <= n /\ (a \div g) * g <= a
<1> DEFINE q == a \div g
<1>1. q \in Int /\ q * g <= a /\ a < (q + 1) * g
  OBVIOUS
<1> HIDE DEF q
<1>2. q >= 0
  <2>1. SUFFICES ASSUME q + 1 <= 0 PROVE FALSE
    BY <1>1
  <2>2. (q + 1) * g <= 0 * g
    BY <1>1, <2>1, ProductGrows
  <2> QED BY <1>1, <2>2
<1>3. q <= n
  <2>1. SUFFICES ASSUME n + 1 <= q PROVE FALSE
    BY <1>1
  <2>2. (n + 1) * g <= q * g
    BY <1>1, <2>1, ProductGrows
  <2>3. (n + 1) * g = n * g + g
    OBVIOUS
  <2>4. n * g \in Int /\ q * g \in Int
    BY <1>1
  <2> QED BY <1>1, <2>2, <2>3, <2>4
<1> QED BY <1>1, <1>2, <1>3 DEF q

LEMMA ReplayIsTyped ==
  ASSUME NEW h \in Seq(Trade)
  PROVE  TaxLots!Replay(h) \in Plays(h)
<1>1. DOMAIN h \in SUBSET DOMAIN h
  OBVIOUS
<1>2. ReplayOf(h, DOMAIN h)[DOMAIN h] \in Plays(h)
  BY <1>1, ReplayUnrolled
<1> QED BY <1>2, ReplayIsChosen

SalesOfYear(h, d) == {i \in Sales(h) : TaxLots!InYear(h[i].day) = TaxLots!InYear(d)}

LEMMA YearIsSummed ==
  ASSUME NEW h \in Seq(Trade), NEW d, NEW f \in Lots(h)
  PROVE  /\ TaxLots!YearSum(h, d, f) = Sum(f, SalesOfYear(h, d))
         /\ Sums(f, SalesOfYear(h, d)) /\ TaxLots!YearSum(h, d, f) \in Int
<1>1. IsFiniteSet(SalesOfYear(h, d)) /\ SalesOfYear(h, d) \in SUBSET DOMAIN h
  <2>1. SalesOfYear(h, d) \in SUBSET DOMAIN h /\ IsFiniteSet(DOMAIN h)
    BY TradesOf DEF SalesOfYear
  <2> QED BY <2>1, FS_Subset
<1>2. Sums(f, SalesOfYear(h, d))
  BY <1>1 DEF Sums, Lots
<1>3. TaxLots!YearSum(h, d, f) = Sum(f, SalesOfYear(h, d))
  BY TotalsAreSums DEF TaxLots!YearSum, SalesOfYear, Sales
<1> QED BY <1>2, <1>3, SumIsInt

LEMMA SetoffIsInt ==
  ASSUME NEW h \in Seq(Trade), NEW d
  PROVE  LET r == TaxLots!Replay(h)
             lt == TaxLots!YearSum(h, d, r.lt)
             st == TaxLots!YearSum(h, d, r.st)
         IN /\ lt \in Int /\ st \in Int
            /\ TaxLots!LtAfterSetoff(h, d) = lt + Smaller(0, st)
            /\ TaxLots!LtAfterSetoff(h, d) \in Int
<1> DEFINE r == TaxLots!Replay(h)
           lt == TaxLots!YearSum(h, d, r.lt)
           st == TaxLots!YearSum(h, d, r.st)
<1>1. r.lt \in Lots(h) /\ r.st \in Lots(h)
  BY ReplayIsTyped DEF Plays
<1>2. lt \in Int /\ st \in Int
  BY <1>1, YearIsSummed
<1>3. TaxLots!LtAfterSetoff(h, d) = lt + TaxLots!Min({0, st})
  BY DEF TaxLots!LtAfterSetoff
<1> HIDE DEF lt, st
<1>4. TaxLots!Min({0, st}) = Smaller(0, st) /\ Smaller(0, st) \in Int
  BY <1>2, SmallerOfTwo DEF Smaller
<1>5. lt \in Int /\ st \in Int /\ TaxLots!LtAfterSetoff(h, d) = lt + Smaller(0, st)
      /\ TaxLots!LtAfterSetoff(h, d) \in Int
  BY <1>2, <1>3, <1>4
<1> QED BY <1>5 DEF lt, st

(* What is left of the allowance beside a gain.                            *)
Room(gain) == Larger(0, Allowance * TaxLots!Parts - Larger(0, gain))

LEMMA RoomIsNat ==
  ASSUME NEW gain \in Int
  PROVE  /\ Room(gain) \in Nat /\ Allowance * TaxLots!Parts \in Nat
         /\ Room(gain) > 0 => gain + Room(gain) <= Allowance * TaxLots!Parts
         /\ TaxLots!Max({0, Allowance * TaxLots!Parts - TaxLots!Max({0, gain})}) = Room(gain)
<1> DEFINE A == Allowance * TaxLots!Parts
<1>1. A \in Nat
  BY TaxAssumption DEF TaxLots!Parts
<1> HIDE DEF A
<1>2. TaxLots!Max({0, gain}) = Larger(0, gain) /\ Larger(0, gain) \in Int
  BY LargerOfTwo DEF Larger
<1>3. A - Larger(0, gain) \in Int
  BY <1>1, <1>2
<1>4. TaxLots!Max({0, A - Larger(0, gain)}) = Larger(0, A - Larger(0, gain))
  BY <1>3, LargerOfTwo
<1>5. /\ Larger(0, A - Larger(0, gain)) \in Nat
      /\ Larger(0, A - Larger(0, gain)) > 0 => gain + Larger(0, A - Larger(0, gain)) <= A
  BY <1>1 DEF Larger
<1> QED BY <1>1, <1>2, <1>4, <1>5 DEF A, Room

LEMMA ExemptionIsRoom ==
  ASSUME NEW h \in Seq(Trade), NEW d
  PROVE  /\ TaxLots!ExemptionRemaining(h, d) = Room(TaxLots!LtAfterSetoff(h, d))
         /\ TaxLots!ExemptionRemaining(h, d) \in Nat
  BY SetoffIsInt, RoomIsNat DEF TaxLots!ExemptionRemaining

LEMMA SaleOfIsTrade ==
  ASSUME NEW d \in TaxLots!Days, NEW n \in Nat \ {0}, NEW p \in Price
  PROVE  /\ TaxLots!SaleOf(d, n, p) \in Trade /\ TaxLots!SaleOf(d, n, p).day = d
         /\ TaxLots!SaleOf(d, n, p).side = "SELL" /\ TaxLots!SaleOf(d, n, p).qty = n
         /\ TaxLots!SaleOf(d, n, p).price = p
  BY DEF TaxLots!SaleOf, Trade

(* The harvest is a part of the long-term shares: all of them when their   *)
(* gain fits, the part of them that fits otherwise.                        *)
Harvests(h, n, all, gain, left) ==
  /\ n \in Nat /\ n <= all /\ n <= TaxLots!Held(h)
  /\ n > 0 => /\ all \in Nat \ {0} /\ gain \in Int /\ gain > 0 /\ left \in Nat
              /\ n * gain <= all * left
              /\ gain <= left => n = all

LEMMA HarvestIsHeld ==
  ASSUME NEW h, Sound(h), NEW d \in TaxLots!Days, NEW p \in Price
  PROVE  Harvests(h, TaxLots!HarvestQty(h, p, d), TaxLots!LongTermQty(h, d),
                  TaxLots!EstimateSale(h, TaxLots!LongTermQty(h, d), p, d).lt,
                  TaxLots!ExemptionRemaining(h, d))
<1> DEFINE n == TaxLots!HarvestQty(h, p, d)
           all == TaxLots!LongTermQty(h, d)
           gain == TaxLots!EstimateSale(h, all, p, d).lt
           left == TaxLots!ExemptionRemaining(h, d)
<1>1. h \in Seq(Trade) /\ all \in Nat /\ all <= TaxLots!Held(h) /\ TaxLots!Held(h) \in Nat /\ left \in Nat
  BY LongTermIsHeld, ExemptionIsRoom DEF Sound
<1>2. n = IF all = 0 \/ gain <= 0 THEN 0 ELSE IF gain <= left THEN all ELSE (all * left) \div gain
  BY DEF TaxLots!HarvestQty
<1>3. all # 0 => gain \in Int
  <2>1. SUFFICES ASSUME all # 0 PROVE gain \in Int
    OBVIOUS
  <2> DEFINE s == TaxLots!SaleOf(d, all, p)
             e == Append(h, s)
  <2>2. s \in Trade
    BY <1>1, <2>1, SaleOfIsTrade
  <2>3. e \in Seq(Trade) /\ Len(h) + 1 \in DOMAIN e
    BY <1>1, <2>2, OneTradeMore
  <2>4. gain = TaxLots!Replay(e).lt[Len(h) + 1]
    BY DEF TaxLots!EstimateSale
  <2> HIDE DEF e
  <2>5. TaxLots!Replay(e).lt \in Lots(e)
    BY <2>3, ReplayIsTyped DEF Plays
  <2> QED BY <2>3, <2>4, <2>5 DEF Lots
<1> HIDE DEF n, all, gain, left
<1>4. Harvests(h, n, all, gain, left)
  <2>1. CASE all = 0 \/ gain <= 0
    BY <1>1, <1>2, <2>1 DEF Harvests
  <2>2. CASE ~(all = 0 \/ gain <= 0) /\ gain <= left
    <3>1. n = all /\ gain \in Nat
      BY <1>1, <1>2, <1>3, <2>2
    <3>2. gain * all <= left * all
      BY <1>1, <2>2, <3>1, ProductGrows
    <3>3. n * gain <= all * left
      BY <1>1, <3>1, <3>2
    <3> QED BY <1>1, <1>3, <2>2, <3>1, <3>3 DEF Harvests
  <2>3. CASE ~(all = 0 \/ gain <= 0) /\ ~(gain <= left)
    <3>1. n = (all * left) \div gain /\ gain \in Nat \ {0} /\ all * left \in Nat
      BY <1>1, <1>2, <1>3, <2>3
    <3>2. left * all <= gain * all
      BY <1>1, <2>3, <3>1, ProductGrows
    <3>3. all * left <= all * gain
      BY <1>1, <3>1, <3>2
    <3>4. n \in Nat /\ n <= all /\ n * gain <= all * left
      BY <1>1, <3>1, <3>3, QuotientIsBelow
    <3> QED BY <1>1, <1>3, <2>3, <3>1, <3>4 DEF Harvests
  <2> QED BY <2>1, <2>2, <2>3
<1> QED BY <1>4 DEF n, all, gain, left

(* The ledger of a day: a history in order, up to today.                   *)
UpTo(h, d) == Sound(h) /\ \A i \in DOMAIN h : h[i].day <= d

LEMMA UpToWithOneMore ==
  ASSUME NEW h, NEW d \in TaxLots!Days, UpTo(h, d), NEW t \in Trade, t.day = d,
         t.side = "SELL" => t.qty <= TaxLots!Held(h)
  PROVE  UpTo(Append(h, t), d)
<1> DEFINE e == Append(h, t)
<1>1. Sound(e)
  BY SoundWithOneMore DEF UpTo
<1>2. DOMAIN e = DOMAIN h \cup {Len(h) + 1} /\ e[Len(h) + 1] = t /\ \A i \in DOMAIN h : e[i] = h[i]
  BY OneTradeMore DEF UpTo, Sound
<1>3. d <= d
  BY DEF TaxLots!Days
<1> HIDE DEF e
<1> QED BY <1>1, <1>2, <1>3 DEF UpTo, e

LEMMA UpToTomorrow ==
  ASSUME NEW h, NEW d \in TaxLots!Days, UpTo(h, d)
  PROVE  UpTo(h, d + 1)
  BY TradeAt DEF UpTo, TaxLots!Days, Sound

LEMMA NothingIsUpTo == \A d : UpTo(<<>>, d)
  BY NoTradesAreSound DEF UpTo

(* A purchase, a sale of what is held and another day leave it so.         *)
LEMMA BuysUpTo ==
  ASSUME v2 \in TaxLots!Days, UpTo(v3, v2), TaxLots!Buy
  PROVE  UpTo(v3', v2')
<1>1. PICK n \in 1 .. MaxLot, p \in Price :
        v3' = Append(v3, [day |-> v2, side |-> "BUY", qty |-> n, price |-> p])
  BY DEF TaxLots!Buy
<1>2. v2' = v2
  BY DEF TaxLots!Buy
<1> DEFINE t == [day |-> v2, side |-> "BUY", qty |-> n, price |-> p]
<1>3. t \in Trade /\ t.day = v2 /\ t.side # "SELL"
  BY TaxAssumption DEF Trade
<1> HIDE DEF t
<1> QED BY <1>1, <1>2, <1>3, UpToWithOneMore DEF t

LEMMA SoldByTheShare ==
  ASSUME NEW h, Sound(h), NEW n \in 1 .. TaxLots!Min({MaxLot, TaxLots!Held(h)})
  PROVE  n \in Nat \ {0} /\ n <= TaxLots!Held(h)
<1>1. TaxLots!Held(h) \in Int /\ MaxLot \in Int
  BY HeldIsTheDifference, TaxAssumption DEF Sound
<1>2. TaxLots!Min({MaxLot, TaxLots!Held(h)}) = Smaller(MaxLot, TaxLots!Held(h))
  BY <1>1, SmallerOfTwo DEF Smaller
<1> QED BY <1>1, <1>2 DEF Smaller

LEMMA SellsUpTo ==
  ASSUME v2 \in TaxLots!Days, UpTo(v3, v2), TaxLots!Sell
  PROVE  UpTo(v3', v2')
<1>1. PICK n \in 1 .. TaxLots!Min({MaxLot, TaxLots!Held(v3)}), p \in Price :
        v3' = Append(v3, TaxLots!SaleOf(v2, n, p))
  BY DEF TaxLots!Sell
<1>2. v2' = v2
  BY DEF TaxLots!Sell
<1>3. n \in Nat \ {0} /\ n <= TaxLots!Held(v3)
  BY SoldByTheShare DEF UpTo
<1> QED BY <1>1, <1>2, <1>3, SaleOfIsTrade, UpToWithOneMore

LEMMA AnotherDayUpTo ==
  ASSUME v2 \in TaxLots!Days, UpTo(v3, v2), TaxLots!NextDay
  PROVE  UpTo(v3', v2')
  BY UpToTomorrow DEF TaxLots!NextDay

(* The closed form of the replay is the property.                          *)
LEMMA SoundIsShareByShare ==
  ASSUME Sound(v3)
  PROVE  TaxLots!FifoIsShareByShare
<1> DEFINE r == TaxLots!Replay(v3)
           sold == 1 .. TaxLots!Shares(v3, Sales(v3))
<1>1. PlayedTo(v3, DOMAIN v3, r)
  BY ReplayIsShareByShare
<1>2. Buys(v3) \cap DOMAIN v3 = Buys(v3) /\ Sales(v3) \cap DOMAIN v3 = Sales(v3) /\ Buys(v3) \subseteq DOMAIN v3
  BY DEF Buys, Sales, TaxLots!Of
<1>3. \A i \in Buys(v3) : r.lots[i] = TaxLots!Cardinality(TaxLots!Numbers(v3, i) \ sold)
  BY <1>1, <1>2 DEF PlayedTo, LeftAfter, SoldIn
<1>4. \A j \in Sales(v3) : /\ r.lt[j] = TaxLots!GainsOver(v3, j, LongOf(v3, j))
                           /\ r.st[j] = TaxLots!GainsOver(v3, j, Buys(v3) \ LongOf(v3, j))
  BY <1>1, <1>2 DEF PlayedTo
<1> HIDE DEF r
<1> QED BY <1>3, <1>4 DEF TaxLots!FifoIsShareByShare, r, Buys, Sales, LongOf

-----------------------------------------------------------------------------
(* The UK: what a day buys, sells and pays.                                *)

LEMMA DaysAreFinite ==
  /\ TaxLots!Days \in SUBSET Int /\ IsFiniteSet(TaxLots!Days)
  /\ \A d \in TaxLots!Days : d \in Nat \ {0} /\ d <= TaxDays
  /\ \A d \in Int : d \in TaxLots!Days <=> 1 <= d /\ d <= TaxDays
  BY TaxAssumption, FS_Interval DEF TaxLots!Days

LEMMA OnAreTrades ==
  ASSUME NEW h \in Seq(Trade), NEW d, NEW side
  PROVE  /\ TaxLots!On(d, side, h) \in SUBSET DOMAIN h
         /\ TaxLots!On(d, side, h) = {i \in DOMAIN h : h[i].side = side /\ h[i].day = d}
  BY DEF TaxLots!On, TaxLots!Of

LEMMA SharesAreNat ==
  ASSUME NEW h \in Seq(Trade), NEW S \in SUBSET DOMAIN h
  PROVE  TaxLots!Shares(h, S) \in Nat
<1>1. TaxLots!Shares(h, S) \in Int
  BY SharesAreInt
<1>2. TaxLots!Shares(h, {}) <= TaxLots!Shares(h, S)
  BY SharesGrow
<1>3. TaxLots!Shares(h, {}) = 0
  BY SharesOfNothing, TradesOf
<1> QED BY <1>1, <1>2, <1>3

LEMMA PaidIsInt ==
  ASSUME NEW h \in Seq(Trade), NEW S \in SUBSET DOMAIN h
  PROVE  TaxLots!Paid(h, S) \in Int
<1> DEFINE f == [i \in S |-> h[i].qty * h[i].price * TaxLots!Parts]
<1>1. IsFiniteSet(S)
  BY TradesOf, FS_Subset
<1>2. \A i \in S : f[i] \in Int
  <2>1. ASSUME NEW i \in S PROVE h[i].qty * h[i].price * TaxLots!Parts \in Int
    <3>1. h[i].qty \in Int /\ h[i].price \in Int
      BY TradeAt
    <3> QED BY <3>1 DEF TaxLots!Parts
  <2> QED BY <2>1
<1>3. TaxLots!Paid(h, S) = Sum(f, S)
  BY TotalsAreSums DEF TaxLots!Paid
<1> HIDE DEF f
<1> QED BY <1>1, <1>2, <1>3, SumIsInt DEF Sums

Naturals == [TaxLots!Days -> Nat]
Figures == [bought : Naturals, sold : Naturals, paid : [TaxLots!Days -> Int]]
Matched == [bought : Naturals, sold : Naturals, cost : [TaxLots!Days -> Int]]

LEMMA DayLotsAre ==
  ASSUME NEW h \in Seq(Trade)
  PROVE  /\ TaxLots!DayLots(h) \in Figures
         /\ \A d \in TaxLots!Days :
              /\ TaxLots!DayLots(h).bought[d] = TaxLots!Shares(h, TaxLots!On(d, "BUY", h))
              /\ TaxLots!DayLots(h).sold[d] = TaxLots!Shares(h, TaxLots!On(d, "SELL", h))
              /\ TaxLots!DayLots(h).paid[d] = TaxLots!Paid(h, TaxLots!On(d, "BUY", h))
<1>1. \A d, side : /\ TaxLots!Shares(h, TaxLots!On(d, side, h)) \in Nat
                   /\ TaxLots!Paid(h, TaxLots!On(d, side, h)) \in Int
  BY OnAreTrades, SharesAreNat, PaidIsInt
<1> QED BY <1>1 DEF TaxLots!DayLots, Figures, Naturals

LEMMA UnitIsInt ==
  ASSUME NEW m0 \in Figures, NEW d \in TaxLots!Days
  PROVE  TaxLots!Unit(m0, d) \in Int
<1>1. m0.bought[d] \in Nat /\ m0.paid[d] \in Int
  BY DEF Figures, Naturals
<1> QED BY <1>1 DEF TaxLots!Unit

SameDayQty(m0, d) == Smaller(m0.bought[d], m0.sold[d])

LEMMA SameDayIs ==
  ASSUME NEW m0 \in Figures
  PROVE  LET m == TaxLots!SameDay(m0)
         IN /\ m \in Matched
            /\ \A d \in TaxLots!Days :
                 /\ m.bought[d] = m0.bought[d] - SameDayQty(m0, d)
                 /\ m.sold[d] = m0.sold[d] - SameDayQty(m0, d)
                 /\ m.cost[d] = SameDayQty(m0, d) * TaxLots!Unit(m0, d)
<1> DEFINE m == TaxLots!SameDay(m0)
<1>1. \A d \in TaxLots!Days : m0.bought[d] \in Nat /\ m0.sold[d] \in Nat
  BY DEF Figures, Naturals
<1>2. \A d \in TaxLots!Days : TaxLots!Min({m0.bought[d], m0.sold[d]}) = SameDayQty(m0, d)
  BY <1>1, SmallerOfTwo DEF SameDayQty
<1>3. m = [bought |-> [d \in TaxLots!Days |-> m0.bought[d] - SameDayQty(m0, d)],
           sold   |-> [d \in TaxLots!Days |-> m0.sold[d] - SameDayQty(m0, d)],
           cost   |-> [d \in TaxLots!Days |-> SameDayQty(m0, d) * TaxLots!Unit(m0, d)]]
  BY <1>2 DEF TaxLots!SameDay
<1>4. \A d \in TaxLots!Days : /\ m0.bought[d] - SameDayQty(m0, d) \in Nat
                              /\ m0.sold[d] - SameDayQty(m0, d) \in Nat
                              /\ SameDayQty(m0, d) \in Int
  BY <1>1 DEF SameDayQty, Smaller
<1>5. \A d \in TaxLots!Days : SameDayQty(m0, d) * TaxLots!Unit(m0, d) \in Int
  BY <1>4, UnitIsInt
<1> HIDE DEF m
<1>6. m \in Matched
  BY <1>3, <1>4, <1>5 DEF Matched, Naturals
<1>7. \A d \in TaxLots!Days : /\ m.bought[d] = m0.bought[d] - SameDayQty(m0, d)
                              /\ m.sold[d] = m0.sold[d] - SameDayQty(m0, d)
                              /\ m.cost[d] = SameDayQty(m0, d) * TaxLots!Unit(m0, d)
  BY <1>3
<1> QED BY <1>6, <1>7 DEF m

(* A pair of days with nothing left to match changes nothing.              *)
LEMMA NothingToMatch ==
  ASSUME NEW m0 \in Figures, NEW m \in Matched, NEW e \in TaxLots!Pairs,
         m.bought[e[2]] = 0 \/ m.sold[e[1]] = 0
  PROVE  TaxLots!MatchDays(m0, e, m) = m
<1>1. e[1] \in TaxLots!Days /\ e[2] \in TaxLots!Days
  BY DEF TaxLots!Pairs
<1> DEFINE b == e[2]
           s == e[1]
           n == TaxLots!Min({m.bought[b], m.sold[s]})
<1>2. m.bought \in Naturals /\ m.sold \in Naturals /\ m.cost \in [TaxLots!Days -> Int]
      /\ m = [bought |-> m.bought, sold |-> m.sold, cost |-> m.cost]
  BY DEF Matched
<1>3. m.bought[b] \in Nat /\ m.sold[s] \in Nat /\ m.cost[s] \in Int
  BY <1>1, <1>2 DEF Naturals
<1>4. n = 0
  BY <1>3, SmallerOfTwo DEF Smaller
<1>5. TaxLots!Unit(m0, b) \in Int
  BY <1>1, UnitIsInt
<1>6. TaxLots!MatchDays(m0, e, m)
        = [m EXCEPT !.bought[b] = @ - n, !.sold[s] = @ - n, !.cost[s] = @ + n * TaxLots!Unit(m0, b)]
  BY DEF TaxLots!MatchDays
<1> HIDE DEF n
<1>7. m.bought[b] - n = m.bought[b] /\ m.sold[s] - n = m.sold[s]
      /\ m.cost[s] + n * TaxLots!Unit(m0, b) = m.cost[s]
  BY <1>3, <1>4, <1>5
<1>8. /\ [m.bought EXCEPT ![b] = m.bought[b] - n] = m.bought
      /\ [m.sold EXCEPT ![s] = m.sold[s] - n] = m.sold
      /\ [m.cost EXCEPT ![s] = m.cost[s] + n * TaxLots!Unit(m0, b)] = m.cost
  BY <1>1, <1>2, <1>7 DEF Naturals
<1>9. TaxLots!MatchDays(m0, e, m)
        = [bought |-> [m.bought EXCEPT ![b] = m.bought[b] - n],
           sold |-> [m.sold EXCEPT ![s] = m.sold[s] - n],
           cost |-> [m.cost EXCEPT ![s] = m.cost[s] + n * TaxLots!Unit(m0, b)]]
  BY <1>2, <1>6
<1> QED BY <1>2, <1>8, <1>9

LEMMA LastPairIsIn ==
  ASSUME NEW S \in SUBSET TaxLots!Pairs, S # {}
  PROVE  TaxLots!LastPair(S) \in S
<1> SUFFICES \E e \in S : \A f \in S : f[1] < e[1] \/ (f[1] = e[1] /\ f[2] <= e[2])
  BY DEF TaxLots!LastPair
<1>1. \A e \in S : e[1] \in TaxLots!Days /\ e[2] \in TaxLots!Days
  BY DEF TaxLots!Pairs
<1> DEFINE D1 == {d \in TaxLots!Days : \E e \in S : e[1] = d}
<1>2. PICK a \in D1 : \A x \in D1 : x <= a
  <2>1. D1 \in SUBSET Int /\ D1 # {} /\ IsFiniteSet(D1)
    BY <1>1, DaysAreFinite, FS_Subset
  <2> HIDE DEF D1
  <2> QED BY <2>1, LastOf
<1> DEFINE D2 == {d \in TaxLots!Days : \E e \in S : e[1] = a /\ e[2] = d}
<1>3. PICK b \in D2 : \A x \in D2 : x <= b
  <2>1. D2 \in SUBSET Int /\ D2 # {} /\ IsFiniteSet(D2)
    BY <1>1, <1>2, DaysAreFinite, FS_Subset
  <2> HIDE DEF D2
  <2> QED BY <2>1, LastOf
<1>4. PICK e \in S : e[1] = a /\ e[2] = b
  BY <1>3
<1>5. ASSUME NEW f \in S PROVE f[1] < e[1] \/ (f[1] = e[1] /\ f[2] <= e[2])
  <2>1. f[1] \in D1
    BY <1>1
  <2>2. f[1] <= a /\ f[1] \in Int /\ a \in Int
    BY <1>2, <2>1, DaysAreFinite
  <2>3. CASE f[1] = a
    BY <1>1, <1>3, <1>4, <2>3
  <2>4. CASE f[1] # a
    BY <1>4, <2>2, <2>4
  <2> QED BY <2>3, <2>4
<1> QED BY <1>5

ThirtyUp(m0, m1, S, g) ==
  g = [s \in SUBSET S |-> IF s = {} THEN m1
                          ELSE TaxLots!MatchDays(m0, TaxLots!LastPair(s), g[s \ {TaxLots!LastPair(s)}])]
ThirtyOf(m0, m1, S) == CHOOSE g : ThirtyUp(m0, m1, S, g)

(* Nothing is left to match in thirty days: the rule does not apply.       *)
LEMMA ThirtyDaysIdle ==
  ASSUME NEW m0 \in Figures, NEW m \in Matched,
         \A e \in TaxLots!Pairs : m.bought[e[2]] = 0 \/ m.sold[e[1]] = 0
  PROVE  TaxLots!ThirtyDays(m0, m) = m
<1> DEFINE P == TaxLots!Pairs
           g == ThirtyOf(m0, m, P)
           pick == [s \in SUBSET P |-> TaxLots!LastPair(s)]
<1>1. TaxLots!ThirtyDays(m0, m) = g[P]
  BY DEF TaxLots!ThirtyDays, TaxLots!MapThenFoldSet, ThirtyOf, ThirtyUp
<1>2. Picks(pick, P) /\ \A s \in SUBSET P : pick[s] = TaxLots!LastPair(s)
  BY LastPairIsIn DEF Picks
<1>3. IsFiniteSet(P)
  <2>1. P \in SUBSET (TaxLots!Days \X TaxLots!Days)
    BY DEF TaxLots!Pairs
  <2> QED BY <2>1, DaysAreFinite, FS_Product, FS_Subset
<1>4. \A e \in P : TaxLots!MatchDays(m0, e, m) = m
  BY NothingToMatch
<1> HIDE DEF P, pick
<1>5. ThirtyUp(m0, m, P, g)
  <2> DEFINE f == [s \in SUBSET P |-> m]
  <2>1. ASSUME NEW s \in SUBSET P, s # {}
        PROVE  TaxLots!MatchDays(m0, TaxLots!LastPair(s), f[s \ {TaxLots!LastPair(s)}]) = m
    <3>1. TaxLots!LastPair(s) \in P /\ s \ {TaxLots!LastPair(s)} \in SUBSET P
      BY <1>2, <2>1 DEF Picks
    <3> QED BY <1>4, <3>1
  <2>2. \A s \in SUBSET P : f[s] = m
    OBVIOUS
  <2>3. f = [s \in SUBSET P |-> IF s = {} THEN m
               ELSE TaxLots!MatchDays(m0, TaxLots!LastPair(s), f[s \ {TaxLots!LastPair(s)}])]
    BY <2>1, <2>2
  <2> HIDE DEF f
  <2>4. ThirtyUp(m0, m, P, f)
    BY <2>3 DEF ThirtyUp
  <2> QED BY <2>4 DEF ThirtyOf
<1> HIDE DEF g
<1> DEFINE G == {s \in SUBSET P : g[s] = m}
<1>6. ASSUME NEW s \in SUBSET P, s = {} \/ RestOf(pick, s) \in G PROVE s \in G
  <2>1. g[s] = IF s = {} THEN m
               ELSE TaxLots!MatchDays(m0, TaxLots!LastPair(s), g[s \ {TaxLots!LastPair(s)}])
    BY <1>5 DEF ThirtyUp
  <2>2. s # {} => g[s \ {TaxLots!LastPair(s)}] = m /\ TaxLots!LastPair(s) \in P
    BY <1>2, <1>6 DEF Picks, RestOf
  <2> QED BY <1>4, <2>1, <2>2
<1>7. Closes(pick, P, G)
  BY <1>6 DEF Closes
<1> HIDE DEF G
<1>8. P \in G
  BY <1>2, <1>3, <1>7, EverySubset
<1> QED BY <1>1, <1>8 DEF G

(* No purchase follows a sale within the thirty days.                      *)
NoBuyBack(h) == \A i \in Sales(h), k \in Buys(h) : i < k => h[k].day > h[i].day + BedAndBreakfast

LEMMA NothingOnDay ==
  ASSUME NEW h \in Seq(Trade), NEW d, NEW side, TaxLots!On(d, side, h) = {}
  PROVE  TaxLots!Shares(h, TaxLots!On(d, side, h)) = 0
  BY SharesOfNothing, TradesOf

LEMMA NothingBoughtBack ==
  ASSUME NEW h, Sound(h), NoBuyBack(h)
  PROVE  LET m == TaxLots!SameDay(TaxLots!DayLots(h))
         IN  TaxLots!ThirtyDays(TaxLots!DayLots(h), m) = m /\ m \in Matched
<1> DEFINE m0 == TaxLots!DayLots(h)
           m == TaxLots!SameDay(m0)
<1>1. h \in Seq(Trade) /\ Chronological(h)
  BY DEF Sound
<1>2. m0 \in Figures
  BY <1>1, DayLotsAre
<1>3. ASSUME NEW e \in TaxLots!Pairs, m.bought[e[2]] # 0, m.sold[e[1]] # 0 PROVE FALSE
  <2> DEFINE s == e[1]
             b == e[2]
  <2>1. s \in TaxLots!Days /\ b \in TaxLots!Days /\ s < b /\ b <= s + BedAndBreakfast
    BY DEF TaxLots!Pairs
  <2>2. m.bought[b] = m0.bought[b] - SameDayQty(m0, b) /\ m.sold[s] = m0.sold[s] - SameDayQty(m0, s)
    BY <1>2, <2>1, SameDayIs
  <2>3. m0.bought[b] \in Nat /\ m0.sold[s] \in Nat /\ m0.bought[s] \in Nat /\ m0.sold[b] \in Nat
    BY <1>2, <2>1 DEF Figures, Naturals
  <2>4. m0.bought[b] # 0 /\ m0.sold[s] # 0
    BY <1>3, <2>2, <2>3 DEF SameDayQty, Smaller
  <2>5. TaxLots!On(b, "BUY", h) # {} /\ TaxLots!On(s, "SELL", h) # {}
    <3>1. /\ m0.bought[b] = TaxLots!Shares(h, TaxLots!On(b, "BUY", h))
          /\ m0.sold[s] = TaxLots!Shares(h, TaxLots!On(s, "SELL", h))
      BY <1>1, <2>1, DayLotsAre
    <3> QED BY <1>1, <2>4, <3>1, NothingOnDay
  <2>6. PICK k \in DOMAIN h, i \in DOMAIN h :
          h[k].side = "BUY" /\ h[k].day = b /\ h[i].side = "SELL" /\ h[i].day = s
    BY <1>1, <2>5, OnAreTrades
  <2>7. k \in Int /\ i \in Int /\ s \in Int /\ b \in Int
    BY <1>1, <2>1, <2>6, TradeAt, DaysAreFinite
  <2>8. ~(k < i) /\ k # i
    BY <1>1, <2>1, <2>6, <2>7 DEF Chronological
  <2>9. b > s + BedAndBreakfast
    BY <2>6, <2>7, <2>8 DEF NoBuyBack, Buys, Sales, TaxLots!Of
  <2>10. BedAndBreakfast \in Int
    BY TaxAssumption
  <2> HIDE DEF s, b
  <2> QED BY <2>1, <2>7, <2>9, <2>10
<1>4. m \in Matched
  BY <1>2, SameDayIs
<1> HIDE DEF m0, m
<1>5. TaxLots!ThirtyDays(m0, m) = m /\ m \in Matched
  BY <1>2, <1>3, <1>4, ThirtyDaysIdle
<1> QED BY <1>5 DEF m0, m

-----------------------------------------------------------------------------
(* The pool.                                                               *)

Pools == [qty : Nat, cost : Int, used : [TaxLots!Days -> Int]]

LEMMA PoolDayIs ==
  ASSUME NEW m0 \in Figures, NEW m \in Matched, NEW d \in TaxLots!Days, NEW pool \in Pools
  PROVE  LET q == TaxLots!PoolDay(m0, m, d, pool)
         IN /\ q \in Pools
            /\ \A e \in TaxLots!Days : e # d => q.used[e] = pool.used[e]
            /\ m.sold[d] = 0 => q.used[d] = 0
<1> DEFINE qty == pool.qty + m.bought[d]
           cost == pool.cost + m.bought[d] * TaxLots!Unit(m0, d)
           n == TaxLots!Min({m.sold[d], qty})
           used == IF qty = 0 THEN 0 ELSE (cost * n) \div qty
           q == TaxLots!PoolDay(m0, m, d, pool)
<1>1. pool.qty \in Nat /\ pool.cost \in Int /\ pool.used \in [TaxLots!Days -> Int]
  BY DEF Pools
<1>2. m.bought[d] \in Nat /\ m.sold[d] \in Nat
  BY DEF Matched, Naturals
<1>3. qty \in Nat
  BY <1>1, <1>2
<1>4. cost \in Int
  <2>1. m.bought[d] * TaxLots!Unit(m0, d) \in Int
    BY <1>2, UnitIsInt
  <2> QED BY <1>1, <2>1
<1> HIDE DEF qty, cost
<1>5. n = Smaller(m.sold[d], qty)
  BY <1>2, <1>3, SmallerOfTwo
<1>6. n \in Nat /\ n <= qty /\ (m.sold[d] = 0 => n = 0)
  BY <1>2, <1>3, <1>5 DEF Smaller
<1>7. q = [qty |-> qty - n, cost |-> cost - used, used |-> [pool.used EXCEPT ![d] = used]]
  BY DEF TaxLots!PoolDay, qty, cost
<1> HIDE DEF n, q
<1>8. used \in Int
  <2>1. cost * n \in Int
    BY <1>4, <1>6
  <2> QED BY <1>3, <2>1
<1>9. m.sold[d] = 0 => used = 0
  <2>1. SUFFICES ASSUME m.sold[d] = 0 PROVE used = 0
    OBVIOUS
  <2>2. cost * n = 0
    BY <1>4, <1>6, <2>1
  <2> QED BY <1>3, <2>2
<1> HIDE DEF used
<1>10. /\ qty - n \in Nat /\ cost - used \in Int
       /\ [pool.used EXCEPT ![d] = used] \in [TaxLots!Days -> Int]
  BY <1>1, <1>3, <1>4, <1>6, <1>8
<1>11. /\ q \in Pools
       /\ \A e \in TaxLots!Days : e # d => q.used[e] = pool.used[e]
       /\ m.sold[d] = 0 => q.used[d] = 0
  BY <1>1, <1>7, <1>9, <1>10 DEF Pools
<1> QED BY <1>11 DEF q

LEMMA LastDayIsIn ==
  ASSUME NEW S \in SUBSET TaxLots!Days, S # {}
  PROVE  TaxLots!Max(S) \in S /\ \A e \in S : e <= TaxLots!Max(S)
<1>1. S \in SUBSET Int /\ IsFiniteSet(S)
  BY DaysAreFinite, FS_Subset
<1>2. \E d \in S : \A e \in S : e <= d
  BY <1>1, LastOf
<1>3. \E d \in S : \A e \in S : d >= e
  BY <1>1, <1>2
<1>4. TaxLots!Max(S) \in S /\ \A e \in S : TaxLots!Max(S) >= e
  BY <1>3 DEF TaxLots!Max
<1> QED BY <1>1, <1>4

PoolUp(m0, m, S, g) ==
  g = [s \in SUBSET S |-> IF s = {} THEN TaxLots!EmptyPool
                          ELSE TaxLots!PoolDay(m0, m, TaxLots!Max(s), g[s \ {TaxLots!Max(s)}])]
PoolOf(m0, m, S) == CHOOSE g : PoolUp(m0, m, S, g)
LastOfDays == [s \in SUBSET TaxLots!Days |-> TaxLots!Max(s)]

LEMMA PoolIsChosen ==
  \A m0, m : TaxLots!Section104(m0, m) = PoolOf(m0, m, TaxLots!Days)[TaxLots!Days]
  BY DEF TaxLots!Section104, TaxLots!MapThenFoldSet, PoolOf, PoolUp

LEMMA LastDayPicks ==
  /\ Picks(LastOfDays, TaxLots!Days) /\ IsFiniteSet(TaxLots!Days)
  /\ \A s \in SUBSET TaxLots!Days : LastOfDays[s] = TaxLots!Max(s)
  BY DaysAreFinite, LastDayIsIn DEF Picks, LastOfDays

LEMMA PoolUnrolled ==
  ASSUME NEW m0 \in Figures, NEW m \in Matched
  PROVE  LET D == TaxLots!Days
             g == PoolOf(m0, m, D)
         IN /\ PoolUp(m0, m, D, g)
            /\ \A s \in SUBSET D : g[s] \in Pools
<1> DEFINE V == Pools
           D == TaxLots!Days
           pick == LastOfDays
           base == TaxLots!EmptyPool
           F == [d \in D |-> [acc \in V |-> TaxLots!PoolDay(m0, m, d, acc)]]
           f == FoldOf(F, pick, base, D)
           g == PoolOf(m0, m, D)
<1>1. base \in V
  BY DEF TaxLots!EmptyPool, Pools
<1>2. Picks(pick, D) /\ IsFiniteSet(D) /\ \A s \in SUBSET D : pick[s] = TaxLots!Max(s)
  BY LastDayPicks
<1>3. ASSUME NEW d \in D, NEW acc \in V
      PROVE  F[d][acc] = TaxLots!PoolDay(m0, m, d, acc) /\ TaxLots!PoolDay(m0, m, d, acc) \in V
  <2>1. TaxLots!PoolDay(m0, m, d, acc) \in V
    BY PoolDayIs
  <2> QED BY <2>1
<1> HIDE DEF V, pick, base, F, D
<1>4. FoldsUp(F, pick, base, D, f)
  BY <1>2, FoldExists
<1> HIDE DEF f
<1>5. \A s \in SUBSET D : f[s] \in V
  <2> DEFINE G == {s \in SUBSET D : f[s] \in V}
  <2>1. ASSUME NEW s \in SUBSET D, s = {} \/ RestOf(pick, s) \in G PROVE s \in G
    <3>1. f[s] = IF s = {} THEN base ELSE F[pick[s]][f[RestOf(pick, s)]]
      BY <1>4, FoldUnrolled
    <3>2. s # {} => f[RestOf(pick, s)] \in V /\ pick[s] \in D
      BY <1>2, <2>1 DEF Picks
    <3> QED BY <1>1, <1>3, <3>1, <3>2
  <2>2. Closes(pick, D, G)
    BY <2>1 DEF Closes
  <2> HIDE DEF G
  <2>3. SUBSET D \subseteq G
    BY <1>2, <2>2, EverySubset
  <2> QED BY <2>3 DEF G
<1>6. PoolUp(m0, m, D, f)
  <2>1. ASSUME NEW s \in SUBSET D, s # {}
        PROVE  F[pick[s]][f[RestOf(pick, s)]]
                 = TaxLots!PoolDay(m0, m, TaxLots!Max(s), f[s \ {TaxLots!Max(s)}])
    <3>1. pick[s] \in D /\ pick[s] = TaxLots!Max(s) /\ RestOf(pick, s) \in SUBSET D
      BY <1>2, <2>1 DEF Picks, RestOf
    <3>2. f[RestOf(pick, s)] \in V
      BY <1>5, <3>1
    <3> QED BY <1>3, <3>1, <3>2 DEF RestOf
  <2>2. f = [s \in SUBSET D |-> IF s = {} THEN base ELSE F[pick[s]][f[RestOf(pick, s)]]]
    BY <1>4 DEF FoldsUp
  <2>3. f = [s \in SUBSET D |-> IF s = {} THEN base
                ELSE TaxLots!PoolDay(m0, m, TaxLots!Max(s), f[s \ {TaxLots!Max(s)}])]
    BY <2>1, <2>2
  <2> QED BY <2>3 DEF PoolUp, base
<1>7. PoolUp(m0, m, D, g)
  BY <1>6 DEF PoolOf
<1> HIDE DEF g
<1>8. \A s \in SUBSET D : g[s] \in V
  <2> DEFINE G == {s \in SUBSET D : g[s] \in V}
  <2>1. ASSUME NEW s \in SUBSET D, s = {} \/ RestOf(pick, s) \in G PROVE s \in G
    <3>1. g[s] = IF s = {} THEN base
                 ELSE TaxLots!PoolDay(m0, m, TaxLots!Max(s), g[s \ {TaxLots!Max(s)}])
      BY <1>7 DEF PoolUp, base
    <3>2. s # {} => g[s \ {TaxLots!Max(s)}] \in V /\ TaxLots!Max(s) \in D
      BY <1>2, <2>1 DEF Picks, RestOf
    <3> QED BY <1>1, <1>3, <3>1, <3>2
  <2>2. Closes(pick, D, G)
    BY <2>1 DEF Closes
  <2> HIDE DEF G
  <2>3. SUBSET D \subseteq G
    BY <1>2, <2>2, EverySubset
  <2> QED BY <2>3 DEF G
<1> QED BY <1>7, <1>8 DEF g, V, D

Below(c) == {d \in TaxLots!Days : d < c}

(* A step of the pool, with what a day takes out of it.                    *)
LEMMA PoolSteps ==
  ASSUME NEW m0 \in Figures, NEW m \in Matched, NEW s \in SUBSET TaxLots!Days, s # {}
  PROVE  LET g == PoolOf(m0, m, TaxLots!Days)
             x == TaxLots!Max(s)
             r == s \ {x}
         IN /\ x \in TaxLots!Days /\ x \in s /\ (\A e \in s : e <= x) /\ r \in SUBSET TaxLots!Days
            /\ r = RestOf(LastOfDays, s)
            /\ g[s] = TaxLots!PoolDay(m0, m, x, g[r])
            /\ g[r] \in Pools
            /\ \A e \in TaxLots!Days : e # x => g[s].used[e] = g[r].used[e]
            /\ m.sold[x] = 0 => g[s].used[x] = 0
<1> DEFINE g == PoolOf(m0, m, TaxLots!Days)
           x == TaxLots!Max(s)
           r == s \ {x}
<1>1. PoolUp(m0, m, TaxLots!Days, g) /\ \A u \in SUBSET TaxLots!Days : g[u] \in Pools
  BY PoolUnrolled
<1>2. x \in s /\ \A e \in s : e <= x
  BY LastDayIsIn
<1>3. x \in TaxLots!Days /\ r \in SUBSET TaxLots!Days
  BY <1>2
<1>4. r = RestOf(LastOfDays, s)
  BY DEF RestOf, LastOfDays
<1>5. g[s] = TaxLots!PoolDay(m0, m, x, g[r])
  BY <1>1 DEF PoolUp
<1>6. g[r] \in Pools
  BY <1>1, <1>3
<1> HIDE DEF g, r, x
<1>7. /\ \A e \in TaxLots!Days : e # x => g[s].used[e] = g[r].used[e]
      /\ m.sold[x] = 0 => g[s].used[x] = 0
  BY <1>3, <1>5, <1>6, PoolDayIs
<1>8. /\ x \in TaxLots!Days /\ x \in s /\ (\A e \in s : e <= x) /\ r \in SUBSET TaxLots!Days
      /\ r = RestOf(LastOfDays, s)
      /\ g[s] = TaxLots!PoolDay(m0, m, x, g[r])
      /\ g[r] \in Pools
      /\ \A e \in TaxLots!Days : e # x => g[s].used[e] = g[r].used[e]
      /\ m.sold[x] = 0 => g[s].used[x] = 0
  BY <1>2, <1>3, <1>4, <1>5, <1>6, <1>7
<1> QED BY <1>8 DEF g, r, x

LEMMA NoSaleUsesNothing ==
  ASSUME NEW m0 \in Figures, NEW m \in Matched, NEW d \in TaxLots!Days, m.sold[d] = 0
  PROVE  TaxLots!Section104(m0, m).used[d] = 0
<1> DEFINE D == TaxLots!Days
           g == PoolOf(m0, m, D)
           G == {s \in SUBSET D : g[s].used[d] = 0}
<1>1. ASSUME NEW s \in SUBSET D, s = {} \/ RestOf(LastOfDays, s) \in G PROVE s \in G
  <2>1. CASE s = {}
    <3>1. g[s] = TaxLots!EmptyPool
      BY <2>1, PoolUnrolled DEF PoolUp
    <3> QED BY <3>1 DEF TaxLots!EmptyPool
  <2>2. CASE s # {}
    <3> DEFINE x == TaxLots!Max(s)
    <3>1. g[RestOf(LastOfDays, s)].used[d] = 0
      BY <1>1, <2>2
    <3>2. /\ RestOf(LastOfDays, s) = s \ {x} /\ d # x => g[s].used[d] = g[s \ {x}].used[d]
          /\ m.sold[x] = 0 => g[s].used[x] = 0
      BY <2>2, PoolSteps
    <3> HIDE DEF x, g
    <3>3. CASE d = x
      BY <3>2, <3>3
    <3>4. CASE d # x
      <4>1. s \ {x} = RestOf(LastOfDays, s)
        BY <2>2, PoolSteps DEF x
      <4> QED BY <3>1, <3>2, <3>4, <4>1
    <3> QED BY <3>3, <3>4
  <2> QED BY <2>1, <2>2
<1>2. Closes(LastOfDays, D, G)
  BY <1>1 DEF Closes
<1> HIDE DEF G
<1>3. D \in G
  BY <1>2, LastDayPicks, EverySubset
<1> QED BY <1>3, PoolIsChosen DEF G

(* What the sales before a day use, only the days before it decide.        *)
LEMMA UsedBefore ==
  ASSUME NEW m0 \in Figures, NEW m \in Matched, NEW c \in Int, NEW d \in TaxLots!Days, d < c
  PROVE  TaxLots!Section104(m0, m).used[d] = PoolOf(m0, m, TaxLots!Days)[Below(c)].used[d]
<1> DEFINE D == TaxLots!Days
           g == PoolOf(m0, m, D)
           G == {s \in SUBSET D : g[s].used[d] = g[s \cap Below(c)].used[d]}
<1>1. ASSUME NEW s \in SUBSET D, s = {} \/ RestOf(LastOfDays, s) \in G PROVE s \in G
  <2>1. CASE s \subseteq Below(c)
    <3>1. s \cap Below(c) = s
      BY <2>1
    <3> QED BY <3>1
  <2>2. CASE ~(s \subseteq Below(c))
    <3> DEFINE x == TaxLots!Max(s)
               r == s \ {x}
    <3>1. s # {}
      BY <2>2
    <3>2. /\ x \in D /\ x \in s /\ (\A e \in s : e <= x) /\ r = RestOf(LastOfDays, s)
          /\ d # x => g[s].used[d] = g[r].used[d]
      <4>1. x \in D /\ x \in s /\ (\A e \in s : e <= x) /\ r = RestOf(LastOfDays, s)
        BY <3>1, PoolSteps
      <4>2. d # x => g[s].used[d] = g[r].used[d]
        BY <3>1, PoolSteps
      <4> QED BY <4>1, <4>2
    <3> HIDE DEF x, g
    <3>3. x >= c
      <4>1. PICK e \in s : ~(e < c)
        BY <2>2 DEF Below
      <4>2. e <= x /\ e \in Int /\ x \in Int
        BY <3>2, <4>1, DaysAreFinite
      <4> QED BY <4>1, <4>2
    <3>4. x # d /\ r \cap Below(c) = s \cap Below(c)
      BY <3>2, <3>3, DaysAreFinite DEF Below
    <3>5. g[r].used[d] = g[r \cap Below(c)].used[d]
      BY <1>1, <3>1, <3>2
    <3>6. g[s].used[d] = g[r].used[d]
      BY <3>2, <3>4
    <3>7. g[s].used[d] = g[s \cap Below(c)].used[d]
      BY <3>4, <3>5, <3>6
    <3> QED BY <3>7
  <2> QED BY <2>1, <2>2
<1>2. Closes(LastOfDays, D, G)
  BY <1>1 DEF Closes
<1> HIDE DEF G
<1>3. D \in G
  BY <1>2, LastDayPicks, EverySubset
<1>4. D \cap Below(c) = Below(c)
  BY DEF Below
<1> QED BY <1>3, <1>4, PoolIsChosen DEF G

(* Two matchings that agree on the days before one.                        *)
AgreeBelow(c, m0, m, k0, k) ==
  \A d \in Below(c) : /\ m.bought[d] = k.bought[d] /\ m.sold[d] = k.sold[d]
                      /\ TaxLots!Unit(m0, d) = TaxLots!Unit(k0, d)

LEMMA PoolBefore ==
  ASSUME NEW m0 \in Figures, NEW m \in Matched, NEW k0 \in Figures, NEW k \in Matched,
         NEW c \in Int, AgreeBelow(c, m0, m, k0, k), NEW d \in TaxLots!Days, d < c
  PROVE  TaxLots!Section104(m0, m).used[d] = TaxLots!Section104(k0, k).used[d]
<1> DEFINE B == Below(c)
           g == PoolOf(m0, m, TaxLots!Days)
           f == PoolOf(k0, k, TaxLots!Days)
           G == {s \in SUBSET B : g[s] = f[s]}
<1>1. B \in SUBSET TaxLots!Days /\ IsFiniteSet(B) /\ Picks(LastOfDays, B)
  <2>1. B \in SUBSET TaxLots!Days
    BY DEF Below
  <2> QED BY <2>1, LastDayPicks, FS_Subset DEF Picks
<1>2. ASSUME NEW s \in SUBSET B, s = {} \/ RestOf(LastOfDays, s) \in G PROVE s \in G
  <2>0. s \in SUBSET TaxLots!Days
    BY <1>1
  <2>1. CASE s = {}
    <3>1. g[s] = TaxLots!EmptyPool /\ f[s] = TaxLots!EmptyPool
      BY <2>0, <2>1, PoolUnrolled DEF PoolUp
    <3> QED BY <3>1
  <2>2. CASE s # {}
    <3> DEFINE x == TaxLots!Max(s)
               r == s \ {x}
    <3>1. x \in s /\ g[s] = TaxLots!PoolDay(m0, m, x, g[r]) /\ r = RestOf(LastOfDays, s)
      BY <2>0, <2>2, PoolSteps
    <3>2. f[s] = TaxLots!PoolDay(k0, k, x, f[r])
      BY <2>0, <2>2, PoolSteps
    <3> HIDE DEF x, g, f
    <3>3. g[r] = f[r]
      BY <1>2, <2>2, <3>1
    <3>4. x \in B
      BY <3>1
    <3>5. m.bought[x] = k.bought[x] /\ m.sold[x] = k.sold[x] /\ TaxLots!Unit(m0, x) = TaxLots!Unit(k0, x)
      BY <3>4 DEF AgreeBelow
    <3>6. TaxLots!PoolDay(m0, m, x, f[r]) = TaxLots!PoolDay(k0, k, x, f[r])
      BY <3>5, Zenon DEF TaxLots!PoolDay
    <3> QED BY <3>1, <3>2, <3>3, <3>6
  <2> QED BY <2>1, <2>2
<1>3. Closes(LastOfDays, B, G)
  BY <1>2 DEF Closes
<1> HIDE DEF G
<1>4. B \in G
  BY <1>1, <1>3, EverySubset
<1>5. g[B] = f[B]
  BY <1>4 DEF G
<1> HIDE DEF g, f
<1>6. /\ TaxLots!Section104(m0, m).used[d] = g[B].used[d]
      /\ TaxLots!Section104(k0, k).used[d] = f[B].used[d]
  BY UsedBefore DEF g, f
<1> QED BY <1>5, <1>6

-----------------------------------------------------------------------------
(* The allowable costs and the gains of a day.                             *)

CostAt(h, d) ==
  LET m0 == TaxLots!DayLots(h)
  IN SameDayQty(m0, d) * TaxLots!Unit(m0, d) + TaxLots!Section104(m0, TaxLots!SameDay(m0)).used[d]

LEMMA CostsAre ==
  ASSUME NEW h, Sound(h), NoBuyBack(h), NEW d \in TaxLots!Days
  PROVE  TaxLots!CostsOf(h)[d] = CostAt(h, d) /\ CostAt(h, d) \in Int
<1> DEFINE m0 == TaxLots!DayLots(h)
           m == TaxLots!SameDay(m0)
           pool == TaxLots!Section104(m0, m)
<1>1. m0 \in Figures
  BY DayLotsAre DEF Sound
<1>2. TaxLots!ThirtyDays(m0, m) = m /\ m \in Matched
  BY NothingBoughtBack
<1>3. TaxLots!CostsOf(h) = [e \in TaxLots!Days |-> m.cost[e] + pool.used[e]]
  BY <1>2 DEF TaxLots!CostsOf
<1>4. m.cost[d] = SameDayQty(m0, d) * TaxLots!Unit(m0, d)
  BY <1>1, SameDayIs
<1>5. pool.used[d] \in Int
  <2>1. TaxLots!Days \in SUBSET TaxLots!Days
    OBVIOUS
  <2>2. pool \in Pools
    BY <1>1, <1>2, <2>1, PoolUnrolled, PoolIsChosen
  <2> QED BY <2>2 DEF Pools
<1>6. m.cost[d] \in Int
  BY <1>2 DEF Matched
<1> HIDE DEF m, m0, pool
<1>7. TaxLots!CostsOf(h)[d] = m.cost[d] + pool.used[d]
  BY <1>3
<1>8. CostAt(h, d) = m.cost[d] + pool.used[d]
  BY <1>4 DEF CostAt, m, m0, pool
<1> QED BY <1>5, <1>6, <1>7, <1>8

LEMMA NoSaleNoGain ==
  ASSUME NEW h, Sound(h), NoBuyBack(h), NEW d \in TaxLots!Days, TaxLots!On(d, "SELL", h) = {}
  PROVE  TaxLots!GainOf(h, d) = 0
<1> DEFINE m0 == TaxLots!DayLots(h)
           m == TaxLots!SameDay(m0)
<1>1. h \in Seq(Trade) /\ m0 \in Figures
  BY DayLotsAre DEF Sound
<1>2. m \in Matched
  BY <1>1, SameDayIs
<1>3. m0.sold[d] = 0
  <2>1. m0.sold[d] = TaxLots!Shares(h, TaxLots!On(d, "SELL", h))
    BY <1>1, DayLotsAre
  <2> QED BY <1>1, <2>1, NothingOnDay
<1>4. m0.bought[d] \in Nat /\ TaxLots!Unit(m0, d) \in Int
  BY <1>1, UnitIsInt DEF Figures, Naturals
<1>5. SameDayQty(m0, d) = 0
  BY <1>3, <1>4 DEF SameDayQty, Smaller
<1>6. m.sold[d] = 0
  BY <1>1, <1>3, <1>5, SameDayIs
<1>7. TaxLots!Section104(m0, m).used[d] = 0
  BY <1>1, <1>2, <1>6, NoSaleUsesNothing
<1>8. CostAt(h, d) = SameDayQty(m0, d) * TaxLots!Unit(m0, d) + TaxLots!Section104(m0, m).used[d]
  BY DEF CostAt
<1> HIDE DEF m0, m
<1>9. CostAt(h, d) = 0
  BY <1>4, <1>5, <1>7, <1>8
<1>10. TaxLots!Paid(h, {}) = 0
  BY TotalsAreSums, SumOfNothing DEF TaxLots!Paid
<1>11. TaxLots!CostsOf(h)[d] = 0
  BY <1>9, CostsAre
<1> QED BY <1>10, <1>11 DEF TaxLots!GainOf

LEMMA GainIsInt ==
  ASSUME NEW h, Sound(h), NoBuyBack(h), NEW d \in TaxLots!Days
  PROVE  TaxLots!GainOf(h, d) \in Int
<1>1. h \in Seq(Trade)
  BY DEF Sound
<1>2. TaxLots!Paid(h, TaxLots!On(d, "SELL", h)) \in Int
  BY <1>1, OnAreTrades, PaidIsInt
<1>3. TaxLots!CostsOf(h)[d] \in Int
  BY CostsAre
<1> QED BY <1>2, <1>3 DEF TaxLots!GainOf

(* A trade changes the figures of its own day only.                        *)
LEMMA OtherDaysStay ==
  ASSUME NEW h \in Seq(Trade), NEW t \in Trade, NEW d \in TaxLots!Days, d # t.day
  PROVE  LET e == Append(h, t)
             m0 == TaxLots!DayLots(h)
             k0 == TaxLots!DayLots(e)
         IN /\ m0.bought[d] = k0.bought[d] /\ m0.sold[d] = k0.sold[d] /\ m0.paid[d] = k0.paid[d]
            /\ TaxLots!On(d, "SELL", e) = TaxLots!On(d, "SELL", h)
            /\ TaxLots!Paid(e, TaxLots!On(d, "SELL", e)) = TaxLots!Paid(h, TaxLots!On(d, "SELL", h))
<1> DEFINE e == Append(h, t)
           m0 == TaxLots!DayLots(h)
           k0 == TaxLots!DayLots(e)
<1>1. e \in Seq(Trade) /\ DOMAIN e = DOMAIN h \cup {Len(h) + 1} /\ e[Len(h) + 1] = t /\ \A i \in DOMAIN h : e[i] = h[i]
  BY OneTradeMore
<1>2. \A S \in SUBSET DOMAIN h : TaxLots!Shares(e, S) = TaxLots!Shares(h, S) /\ TaxLots!Paid(e, S) = TaxLots!Paid(h, S)
  BY SharesStay
<1> HIDE DEF e
<1>3. \A side : TaxLots!On(d, side, e) = TaxLots!On(d, side, h) /\ TaxLots!On(d, side, h) \in SUBSET DOMAIN h
  <2>1. ASSUME NEW side PROVE TaxLots!On(d, side, e) = TaxLots!On(d, side, h)
    <3>1. {i \in DOMAIN e : e[i].side = side /\ e[i].day = d} = {i \in DOMAIN h : h[i].side = side /\ h[i].day = d}
      BY <1>1
    <3> QED BY <3>1 DEF TaxLots!On, TaxLots!Of
  <2>2. \A side : TaxLots!On(d, side, h) \in SUBSET DOMAIN h
    BY DEF TaxLots!On, TaxLots!Of
  <2> QED BY <2>1, <2>2
<1>4. \A side : /\ TaxLots!Shares(e, TaxLots!On(d, side, e)) = TaxLots!Shares(h, TaxLots!On(d, side, h))
                /\ TaxLots!Paid(e, TaxLots!On(d, side, e)) = TaxLots!Paid(h, TaxLots!On(d, side, h))
  BY <1>2, <1>3
<1>5. m0.bought[d] = k0.bought[d] /\ m0.sold[d] = k0.sold[d] /\ m0.paid[d] = k0.paid[d]
  BY <1>1, <1>4, DayLotsAre
<1> HIDE DEF m0, k0
<1> QED BY <1>3, <1>4, <1>5 DEF e, m0, k0

LEMMA EarlierGainsStay ==
  ASSUME NEW h, Sound(h), NoBuyBack(h), NEW t \in Trade, Sound(Append(h, t)), NoBuyBack(Append(h, t)),
         NEW d \in TaxLots!Days, d < t.day
  PROVE  TaxLots!GainOf(Append(h, t), d) = TaxLots!GainOf(h, d)
<1> DEFINE e == Append(h, t)
           m0 == TaxLots!DayLots(h)
           m == TaxLots!SameDay(m0)
           k0 == TaxLots!DayLots(e)
           k == TaxLots!SameDay(k0)
           c == t.day
<1>1. h \in Seq(Trade) /\ e \in Seq(Trade) /\ c \in Int
  BY TradeParts DEF Sound
<1>2. m0 \in Figures /\ k0 \in Figures /\ m \in Matched /\ k \in Matched
  BY <1>1, DayLotsAre, SameDayIs
<1>3. ASSUME NEW x \in TaxLots!Days, x < c
      PROVE  /\ m.bought[x] = k.bought[x] /\ m.sold[x] = k.sold[x]
             /\ TaxLots!Unit(m0, x) = TaxLots!Unit(k0, x) /\ SameDayQty(m0, x) = SameDayQty(k0, x)
  <2>1. x # t.day
    BY <1>1, <1>3, DaysAreFinite
  <2>2. m0.bought[x] = k0.bought[x] /\ m0.sold[x] = k0.sold[x] /\ m0.paid[x] = k0.paid[x]
    BY <1>1, <2>1, OtherDaysStay
  <2>3. SameDayQty(m0, x) = SameDayQty(k0, x) /\ TaxLots!Unit(m0, x) = TaxLots!Unit(k0, x)
    BY <2>2 DEF SameDayQty, TaxLots!Unit
  <2>4. /\ m.bought[x] = m0.bought[x] - SameDayQty(m0, x) /\ m.sold[x] = m0.sold[x] - SameDayQty(m0, x)
        /\ k.bought[x] = k0.bought[x] - SameDayQty(k0, x) /\ k.sold[x] = k0.sold[x] - SameDayQty(k0, x)
    BY <1>2, SameDayIs
  <2> HIDE DEF m, k, m0, k0
  <2> QED BY <2>2, <2>3, <2>4
<1>4. AgreeBelow(c, m0, m, k0, k)
  BY <1>3 DEF AgreeBelow, Below
<1>5. TaxLots!Section104(m0, m).used[d] = TaxLots!Section104(k0, k).used[d]
  BY <1>1, <1>2, <1>4, PoolBefore
<1>6. CostAt(h, d) = CostAt(e, d)
  BY <1>3, <1>5 DEF CostAt
<1>7. TaxLots!Paid(e, TaxLots!On(d, "SELL", e)) = TaxLots!Paid(h, TaxLots!On(d, "SELL", h))
  <2>1. d # t.day
    BY <1>1, DaysAreFinite
  <2> QED BY <1>1, <2>1, OtherDaysStay
<1>8. TaxLots!CostsOf(e)[d] = TaxLots!CostsOf(h)[d]
  BY <1>6, CostsAre
<1> HIDE DEF e
<1> QED BY <1>7, <1>8 DEF TaxLots!GainOf, e

DayGains(h) == [d \in TaxLots!Days |-> TaxLots!GainOf(h, d)]
YearDays(d) == {x \in TaxLots!Days : TaxLots!InYear(x) = TaxLots!InYear(d)}

LEMMA NetGainsAreSummed ==
  ASSUME NEW h, Sound(h), NoBuyBack(h), NEW d
  PROVE  /\ TaxLots!NetGains(h, d) = Sum(DayGains(h), YearDays(d))
         /\ Sums(DayGains(h), YearDays(d)) /\ TaxLots!NetGains(h, d) \in Int
<1>1. TaxLots!NetGains(h, d) = Sum(DayGains(h), YearDays(d))
  BY TotalsAreSums DEF TaxLots!NetGains, DayGains, YearDays, TaxLots!GainOf
<1>2. IsFiniteSet(YearDays(d)) /\ YearDays(d) \in SUBSET TaxLots!Days
  BY DaysAreFinite, FS_Subset DEF YearDays
<1>3. Sums(DayGains(h), YearDays(d))
  BY <1>2, GainIsInt DEF Sums, DayGains
<1> QED BY <1>1, <1>3, SumIsInt

(* A sale on a day that had none adds its own gain to those of the year.   *)
LEMMA NetGainsWithSale ==
  ASSUME NEW h, Sound(h), NoBuyBack(h), NEW t \in Trade, Sound(Append(h, t)), NoBuyBack(Append(h, t)),
         UpTo(h, t.day), TaxLots!On(t.day, "SELL", h) = {}
  PROVE  TaxLots!NetGains(Append(h, t), t.day) = TaxLots!NetGains(h, t.day) + TaxLots!GainOf(Append(h, t), t.day)
<1> DEFINE e == Append(h, t)
           c == t.day
           Y == YearDays(c)
           w == DayGains(h)
           v == DayGains(e)
<1>1. h \in Seq(Trade) /\ e \in Seq(Trade) /\ c \in TaxLots!Days /\ c \in Int /\ c \in Y
  BY TradeParts DEF Sound, YearDays
<1>2. /\ TaxLots!NetGains(h, c) = Sum(w, Y) /\ Sums(w, Y) /\ TaxLots!NetGains(e, c) = Sum(v, Y) /\ Sums(v, Y)
  BY NetGainsAreSummed
<1>3. ASSUME NEW x \in Y, x # c PROVE w[x] = v[x]
  <2>1. x \in TaxLots!Days /\ x \in Int
    BY DaysAreFinite DEF YearDays
  <2>2. CASE x < c
    BY <2>1, <2>2, EarlierGainsStay DEF DayGains
  <2>3. CASE x > c
    <3>1. TaxLots!On(x, "SELL", h) = {}
      <4>1. \A i \in DOMAIN h : h[i].day <= c /\ h[i].day \in Int
        BY <1>1, TradeAt DEF UpTo
      <4> QED BY <1>1, <2>1, <2>3, <4>1, OnAreTrades
    <3>2. TaxLots!On(x, "SELL", e) = {}
      BY <1>1, <2>1, <2>3, <3>1, OtherDaysStay
    <3>3. TaxLots!GainOf(h, x) = 0 /\ TaxLots!GainOf(e, x) = 0
      BY <2>1, <3>1, <3>2, NoSaleNoGain
    <3> QED BY <2>1, <3>3 DEF DayGains
  <2> QED BY <1>1, <1>3, <2>1, <2>2, <2>3
<1>4. w[c] = 0 /\ v[c] = TaxLots!GainOf(e, c)
  BY <1>1, NoSaleNoGain DEF DayGains
<1>5. v[c] \in Int /\ Sum(w, Y) \in Int
  BY <1>1, <1>2, SumIsInt DEF Sums
<1>6. Alike(w, v, Y \ {c})
  BY <1>3 DEF Alike
<1> HIDE DEF w, v, Y, c, e
<1>7. Sum(v, Y) = Sum(w, Y) - w[c] + v[c]
  BY <1>1, <1>2, <1>5, <1>6, SumChanged
<1>8. TaxLots!NetGains(e, c) = TaxLots!NetGains(h, c) + TaxLots!GainOf(e, c)
  BY <1>2, <1>4, <1>5, <1>7
<1> QED BY <1>8 DEF c, e

LEMMA NoBuyBackAfterSale ==
  ASSUME NEW h \in Seq(Trade), NoBuyBack(h), NEW t \in Trade, t.side = "SELL"
  PROVE  NoBuyBack(Append(h, t))
<1> DEFINE e == Append(h, t)
           n == Len(h) + 1
<1>1. /\ DOMAIN e = DOMAIN h \cup {n} /\ e[n] = t /\ \A i \in DOMAIN h : e[i] = h[i] /\ i < n
      /\ n \in Int /\ DOMAIN h \subseteq Int
  BY OneTradeMore
<1>2. Buys(e) = Buys(h) /\ Sales(e) = Sales(h) \cup {n} /\ Buys(h) \subseteq DOMAIN h /\ Sales(h) \subseteq DOMAIN h
  BY OfOneTradeMore DEF Buys, Sales, TaxLots!Of
<1> HIDE DEF e, n
<1>3. ASSUME NEW i \in Sales(e), NEW k \in Buys(e), i < k PROVE e[k].day > e[i].day + BedAndBreakfast
  <2>1. k \in DOMAIN h /\ k < n /\ k \in Int
    BY <1>1, <1>2
  <2>2. i # n
    BY <1>1, <1>3, <2>1
  <2>3. i \in Sales(h) /\ i \in DOMAIN h /\ k \in Buys(h)
    BY <1>2, <2>2
  <2> QED BY <1>1, <1>3, <2>1, <2>3 DEF NoBuyBack
<1>4. NoBuyBack(e)
  BY <1>3 DEF NoBuyBack
<1> QED BY <1>4 DEF e

LEMMA NoBuyBackAfterPurchase ==
  ASSUME NEW h \in Seq(Trade), NoBuyBack(h), NEW t \in Trade, t.side = "BUY",
         UpTo(h, t.day), ~TaxLots!RecentlySold(h, t.day)
  PROVE  NoBuyBack(Append(h, t))
<1> DEFINE e == Append(h, t)
           n == Len(h) + 1
<1>1. /\ DOMAIN e = DOMAIN h \cup {n} /\ e[n] = t /\ \A i \in DOMAIN h : e[i] = h[i] /\ i < n
      /\ n \in Int /\ DOMAIN h \subseteq Int
  BY OneTradeMore
<1>2. Buys(e) = Buys(h) \cup {n} /\ Sales(e) = Sales(h) /\ Buys(h) \subseteq DOMAIN h /\ Sales(h) \subseteq DOMAIN h
  BY OfOneTradeMore DEF Buys, Sales, TaxLots!Of
<1> HIDE DEF e, n
<1>3. ASSUME NEW i \in Sales(e), NEW k \in Buys(e), i < k PROVE e[k].day > e[i].day + BedAndBreakfast
  <2>1. i \in Sales(h) /\ i \in DOMAIN h /\ e[i] = h[i]
    BY <1>1, <1>2
  <2>2. CASE k = n
    <3>1. ~(t.day - h[i].day \in 0 .. BedAndBreakfast)
      BY <2>1 DEF TaxLots!RecentlySold, Sales
    <3>2. h[i].day <= t.day /\ h[i].day \in Int /\ t.day \in Int /\ BedAndBreakfast \in Int
      BY <2>1, TradeAt, TradeParts, TaxAssumption DEF UpTo
    <3>3. t.day > h[i].day + BedAndBreakfast
      BY <3>1, <3>2
    <3> QED BY <1>1, <2>1, <2>2, <3>3
  <2>3. CASE k # n
    BY <1>1, <1>2, <1>3, <2>1, <2>3 DEF NoBuyBack
  <2> QED BY <2>2, <2>3
<1>4. NoBuyBack(e)
  BY <1>3 DEF NoBuyBack
<1> QED BY <1>4 DEF e

-----------------------------------------------------------------------------
(* What a harvest in the UK sells, and what it leaves to pay.              *)

LEMMA AllowanceIsRoom ==
  ASSUME NEW h, Sound(h), NoBuyBack(h), NEW d
  PROVE  /\ TaxLots!AllowanceRemaining(h, d) = Room(TaxLots!NetGains(h, d))
         /\ TaxLots!AllowanceRemaining(h, d) \in Nat
<1>1. TaxLots!NetGains(h, d) \in Int
  BY NetGainsAreSummed
<1> QED BY <1>1, RoomIsNat DEF TaxLots!AllowanceRemaining

LEMMA HeldIsNat ==
  ASSUME NEW h, Sound(h)
  PROVE  TaxLots!Held(h) \in Nat
<1>1. h \in Seq(Trade) /\ Len(h) + 1 \in Cuts(h)
  BY TradesOf DEF Sound, Cuts
<1>2. Bought(h, Len(h) + 1) \in Nat /\ Sold(h, Len(h) + 1) \in Nat /\ Sold(h, Len(h) + 1) <= Bought(h, Len(h) + 1)
  BY <1>1, PriorIsNat DEF Bought, Sold, Sound, NeverShort, Cuts
<1>3. TaxLots!Held(h) = Bought(h, Len(h) + 1) - Sold(h, Len(h) + 1)
  BY <1>1, HeldIsTheDifference
<1> QED BY <1>2, <1>3

LEMMA PoolCostIsInt ==
  ASSUME NEW h, Sound(h), NoBuyBack(h)
  PROVE  TaxLots!PoolCost(h) \in Int
<1>1. TaxLots!CostsTotal(h) \in Int
  <2>1. TaxLots!CostsTotal(h) = Sum(TaxLots!CostsOf(h), TaxLots!Days)
    BY TotalsAreSums DEF TaxLots!CostsTotal
  <2>2. Sums(TaxLots!CostsOf(h), TaxLots!Days)
    BY CostsAre, DaysAreFinite DEF Sums
  <2> QED BY <2>1, <2>2, SumIsInt
<1>2. TaxLots!Paid(h, TaxLots!Of("BUY", h)) \in Int
  BY PaidIsInt DEF Sound, TaxLots!Of
<1>3. TaxLots!Paid(h, TaxLots!Of("BUY", h)) - TaxLots!CostsTotal(h) \in Int
  BY <1>1, <1>2
<1>4. TaxLots!Max({0, TaxLots!Paid(h, TaxLots!Of("BUY", h)) - TaxLots!CostsTotal(h)}) \in Int
  BY <1>3, LargerOfTwo DEF Larger
<1> QED BY <1>4 DEF TaxLots!PoolCost

LEMMA UkHarvestIsHeld ==
  ASSUME NEW h, Sound(h), NoBuyBack(h), NEW d, NEW p \in Price
  PROVE  LET n == TaxLots!UkHarvestQty(h, p, d)
         IN n \in Int /\ n <= TaxLots!Held(h) /\ (n > 0 => TaxLots!AllowanceRemaining(h, d) > 0)
<1> DEFINE n == TaxLots!UkHarvestQty(h, p, d)
           held == TaxLots!Held(h)
           left == TaxLots!AllowanceRemaining(h, d)
           unit == IF held = 0 THEN 0 ELSE p * TaxLots!Parts - TaxLots!PoolCost(h) \div held
<1>1. held \in Nat /\ left \in Nat
  BY HeldIsNat, AllowanceIsRoom
<1>2. n = IF unit <= 0 THEN 0 ELSE TaxLots!Min({held, left \div unit})
  BY DEF TaxLots!UkHarvestQty
<1> HIDE DEF held, left, n
<1>3. unit \in Int
  <2>1. TaxLots!PoolCost(h) \in Int /\ p \in Nat
    BY PoolCostIsInt, TaxAssumption
  <2> QED BY <1>1, <2>1 DEF TaxLots!Parts
<1> HIDE DEF unit
<1>4. n \in Int /\ n <= held /\ (n > 0 => left > 0)
  <2>1. CASE unit <= 0
    BY <1>1, <1>2, <2>1
  <2>2. CASE ~(unit <= 0)
    <3>1. left \div unit \in Int /\ (left = 0 => left \div unit = 0)
      BY <1>1, <1>3, <2>2
    <3>2. n = Smaller(held, left \div unit)
      BY <1>1, <1>2, <2>2, <3>1, SmallerOfTwo
    <3>3. n \in Int /\ n <= held /\ n <= left \div unit
      BY <1>1, <3>1, <3>2 DEF Smaller
    <3> QED BY <1>1, <3>1, <3>3
  <2> QED BY <2>1, <2>2
<1> QED BY <1>4 DEF n, held, left

UkBooks(h, d) == UpTo(h, d) /\ NoBuyBack(h)

LEMMA UkHarvestIsFree ==
  ASSUME NEW h, NEW d \in TaxLots!Days, UkBooks(h, d), NEW p \in Price,
         NEW n, n = TaxLots!UkHarvestQty(h, p, d), n > 0,
         TaxLots!FitsAllowance(h, n, p, d), TaxLots!On(d, "SELL", h) = {}
  PROVE  LET e == Append(h, TaxLots!SaleOf(d, n, p))
         IN UkBooks(e, d) /\ TaxLots!NetGains(e, d) <= Allowance * TaxLots!Parts
<1> DEFINE t == TaxLots!SaleOf(d, n, p)
           e == Append(h, t)
<1>1. UpTo(h, d) /\ Sound(h) /\ NoBuyBack(h) /\ h \in Seq(Trade)
  BY DEF UkBooks, UpTo, Sound
<1>2. n \in Nat \ {0} /\ n <= TaxLots!Held(h) /\ TaxLots!AllowanceRemaining(h, d) > 0
  BY <1>1, UkHarvestIsHeld
<1>3. t \in Trade /\ t.day = d /\ t.side = "SELL" /\ t.qty = n
  BY <1>2, SaleOfIsTrade
<1>4. TaxLots!GainOf(e, d) <= TaxLots!AllowanceRemaining(h, d)
  BY DEF TaxLots!FitsAllowance
<1> HIDE DEF t
<1>5. UpTo(e, d)
  BY <1>1, <1>2, <1>3, UpToWithOneMore
<1>6. NoBuyBack(e)
  BY <1>1, <1>3, NoBuyBackAfterSale
<1>7. TaxLots!NetGains(e, d) = TaxLots!NetGains(h, d) + TaxLots!GainOf(e, d)
  BY <1>1, <1>3, <1>5, <1>6, NetGainsWithSale DEF UpTo
<1>8. TaxLots!NetGains(h, d) \in Int /\ TaxLots!GainOf(e, d) \in Int
  BY <1>1, <1>5, <1>6, NetGainsAreSummed, GainIsInt DEF UpTo
<1>9. TaxLots!AllowanceRemaining(h, d) = Room(TaxLots!NetGains(h, d))
  BY <1>1, AllowanceIsRoom
<1> HIDE DEF e
<1>10. TaxLots!NetGains(e, d) <= Allowance * TaxLots!Parts
  <2> DEFINE g == TaxLots!NetGains(h, d)
             f == TaxLots!GainOf(e, d)
             A == Allowance * TaxLots!Parts
  <2>1. Room(g) \in Nat /\ A \in Nat /\ (Room(g) > 0 => g + Room(g) <= A)
    BY <1>8, RoomIsNat
  <2>2. Room(g) > 0 /\ f <= Room(g) /\ TaxLots!NetGains(e, d) = g + f /\ g \in Int /\ f \in Int
    BY <1>2, <1>4, <1>7, <1>8, <1>9
  <2> HIDE DEF g, f, A
  <2>3. g + f <= A
    BY <2>1, <2>2
  <2> QED BY <2>2, <2>3 DEF A
<1>11. UkBooks(e, d) /\ TaxLots!NetGains(e, d) <= Allowance * TaxLots!Parts
  BY <1>5, <1>6, <1>10 DEF UkBooks
<1> QED BY <1>11 DEF e, t

-----------------------------------------------------------------------------
(* India: a trade leaves the gains of the earlier sales alone.             *)

LEMMA CommonStays ==
  ASSUME NEW h \in Seq(Trade), NEW t \in Trade, NEW i \in Buys(h), NEW j \in Sales(h)
  PROVE  LET e == Append(h, t)
         IN  /\ Common(e, i, j) = Common(h, i, j) /\ CommonGain(e, j, i) = CommonGain(h, j, i)
             /\ i \in Buys(e) /\ j \in Sales(e)
<1> DEFINE e == Append(h, t)
<1>1. i \in DOMAIN h /\ j \in DOMAIN h /\ i \in Cuts(h) /\ j \in Cuts(h)
  BY TradeAt DEF Buys, Sales, TaxLots!Of
<1>2. e[i] = h[i] /\ e[j] = h[j] /\ e \in Seq(Trade)
  BY <1>1, OneTradeMore
<1>3. \A side : /\ TaxLots!Prior(e, side, i) = TaxLots!Prior(h, side, i)
                /\ TaxLots!Prior(e, side, j) = TaxLots!Prior(h, side, j)
  BY <1>1, PriorStays
<1>4. i \in Buys(e) /\ j \in Sales(e)
  BY OfOneTradeMore DEF Buys, Sales
<1> HIDE DEF e
<1>5. TaxLots!Numbers(e, i) = TaxLots!Numbers(h, i) /\ TaxLots!Numbers(e, j) = TaxLots!Numbers(h, j)
  BY <1>2, <1>3 DEF TaxLots!Numbers
<1>6. Common(e, i, j) = Common(h, i, j)
  BY <1>5 DEF Common
<1>7. CommonGain(e, j, i) = CommonGain(h, j, i)
  BY <1>2, <1>6 DEF CommonGain, Gain
<1> QED BY <1>4, <1>6, <1>7 DEF e

LEMMA GainsOverStay ==
  ASSUME NEW h \in Seq(Trade), NEW t \in Trade, NEW j \in Sales(h), NEW S \in SUBSET Buys(h)
  PROVE  /\ TaxLots!GainsOver(Append(h, t), j, S) = TaxLots!GainsOver(h, j, S)
         /\ S \in SUBSET Buys(Append(h, t)) /\ j \in Sales(Append(h, t))
<1> DEFINE e == Append(h, t)
<1>1. e \in Seq(Trade) /\ j \in Sales(e) /\ Buys(h) \subseteq Buys(e)
  BY OneTradeMore, OfOneTradeMore DEF Buys, Sales
<1>2. \A i \in S : CommonGain(e, j, i) = CommonGain(h, j, i)
  BY CommonStays
<1> HIDE DEF e
<1>3. Alike(GainsIn(e, j), GainsIn(h, j), S)
  BY <1>1, <1>2 DEF Alike, GainsIn
<1>4. /\ TaxLots!GainsOver(h, j, S) = Sum(GainsIn(h, j), S) /\ TaxLots!GainsOver(e, j, S) = Sum(GainsIn(e, j), S)
      /\ IsFiniteSet(S)
  BY <1>1, GainsAreSummed DEF Sums
<1>5. TaxLots!GainsOver(e, j, S) = TaxLots!GainsOver(h, j, S)
  BY <1>3, <1>4, SumAlike
<1> QED BY <1>1, <1>5 DEF e

(* A later purchase has no share in common with an earlier sale.           *)
LEMMA NothingCommon ==
  ASSUME NEW h, Sound(h), NEW t \in Trade, t.side = "BUY", NEW j \in Sales(h)
  PROVE  LET e == Append(h, t)
             n == Len(h) + 1
         IN n \in Buys(e) /\ j \in Sales(e) /\ CommonGain(e, j, n) = 0
<1> DEFINE e == Append(h, t)
           n == Len(h) + 1
<1>1. h \in Seq(Trade) /\ e \in Seq(Trade) /\ e[n] = t /\ e[j] = h[j] /\ j \in DOMAIN h /\ h[j].side = "SELL"
      /\ n \in DOMAIN e /\ DOMAIN h = 1 .. Len(h) /\ Len(h) \in Nat
  BY OneTradeMore, TradesOf DEF Sound, Sales, TaxLots!Of
<1>2. n \in Buys(e) /\ j \in Sales(e)
  BY <1>1, OfOneTradeMore DEF Buys, Sales
<1>3. j \in Cuts(h) /\ j + 1 \in Cuts(h) /\ n \in Cuts(h) /\ j + 1 <= n /\ h[j].qty \in Nat
  BY <1>1, TradeAt DEF Cuts
<1>4. Sold(h, j) + h[j].qty <= Bought(h, n) /\ Sold(h, j) \in Nat /\ Bought(h, n) \in Nat
  <2>1. Sold(h, j + 1) = Sold(h, j) + h[j].qty
    BY <1>1, PriorSteps DEF Sold
  <2>2. Sold(h, j + 1) <= Sold(h, n)
    BY <1>1, <1>3, PriorGrows DEF Sold
  <2>3. Sold(h, n) <= Bought(h, n)
    BY <1>3 DEF Sound, NeverShort, Cuts, Sold, Bought
  <2>4. Sold(h, j) \in Nat /\ Bought(h, n) \in Nat /\ Sold(h, n) \in Nat /\ Sold(h, j + 1) \in Nat
    BY <1>1, <1>3, PriorIsNat DEF Sold, Bought
  <2> HIDE DEF n
  <2> QED BY <2>1, <2>2, <2>3, <2>4
<1>5. Sold(e, j) = Sold(h, j) /\ Bought(e, n) = Bought(h, n)
  BY <1>1, <1>3, PriorStays DEF Sold, Bought
<1> HIDE DEF e, n
<1>6. Common(e, n, j) = Overlap(Bought(e, n), Bought(e, n) + e[n].qty, Sold(e, j), Sold(e, j) + e[j].qty)
  BY <1>1, <1>2, CommonIsOverlap
<1>7. e[n].qty \in Nat
  BY <1>1, TradeAt
<1>8. Common(e, n, j) = 0
  BY <1>1, <1>3, <1>4, <1>5, <1>6, <1>7 DEF Overlap, Larger, Smaller
<1>9. e[j].price \in Int /\ e[n].price \in Int
  BY <1>1, <1>2, TradeAt DEF Sales, TaxLots!Of
<1>10. CommonGain(e, j, n) = 0
  BY <1>8, <1>9 DEF CommonGain, Gain, TaxLots!Parts
<1> QED BY <1>2, <1>10 DEF e, n

LEMMA SaleKeepsItsGains ==
  ASSUME NEW h, NEW t \in Trade, UpTo(h, t.day), NEW j \in Sales(h)
  PROVE  LET e == Append(h, t)
         IN /\ TaxLots!GainsOver(e, j, LongOf(e, j)) = TaxLots!GainsOver(h, j, LongOf(h, j))
            /\ TaxLots!GainsOver(e, j, Buys(e) \ LongOf(e, j)) = TaxLots!GainsOver(h, j, Buys(h) \ LongOf(h, j))
<1> DEFINE e == Append(h, t)
           n == Len(h) + 1
<1>1. Sound(h) /\ h \in Seq(Trade) /\ j \in DOMAIN h /\ Buys(h) \subseteq DOMAIN h
  BY DEF UpTo, Sound, Sales, Buys, TaxLots!Of
<1>2. /\ e \in Seq(Trade) /\ e[n] = t /\ n \notin DOMAIN h /\ \A i \in DOMAIN h : e[i] = h[i]
  BY <1>1, OneTradeMore
<1>3. Buys(e) = Buys(h) \cup (IF t.side = "BUY" THEN {n} ELSE {})
  BY <1>1, OfOneTradeMore DEF Buys
<1>4. ~TaxLots!IsLongTerm(t.day, h[j].day)
  <2>1. h[j].day <= t.day /\ h[j].day \in Int /\ t.day \in Int
    BY <1>1, TradeAt, TradeParts DEF UpTo
  <2> QED BY <2>1, TaxAssumption DEF TaxLots!IsLongTerm
<1> HIDE DEF e, n
<1>5. LongOf(e, j) = LongOf(h, j)
  BY <1>1, <1>2, <1>3, <1>4 DEF LongOf
<1>6. LongOf(h, j) \in SUBSET Buys(h) /\ Buys(h) \ LongOf(h, j) \in SUBSET Buys(h)
  BY DEF LongOf
<1>7. TaxLots!GainsOver(e, j, LongOf(e, j)) = TaxLots!GainsOver(h, j, LongOf(h, j))
  BY <1>1, <1>5, <1>6, GainsOverStay DEF e
<1> DEFINE S == Buys(h) \ LongOf(h, j)
<1>8. /\ TaxLots!GainsOver(e, j, S) = TaxLots!GainsOver(h, j, S)
      /\ S \in SUBSET Buys(e) /\ j \in Sales(e)
  BY <1>1, <1>6, GainsOverStay DEF e
<1>9. TaxLots!GainsOver(e, j, Buys(e) \ LongOf(e, j)) = TaxLots!GainsOver(h, j, S)
  <2>1. CASE t.side = "BUY"
    <3>1. Buys(e) \ LongOf(e, j) = S \cup {n} /\ n \notin S
      BY <1>1, <1>2, <1>3, <1>5, <1>6, <2>1
    <3>2. n \in Buys(e) /\ CommonGain(e, j, n) = 0
      BY <1>1, <2>1, NothingCommon DEF e, n
    <3> HIDE DEF S
    <3>3. TaxLots!GainsOver(e, j, S \cup {n}) = TaxLots!GainsOver(e, j, S) + CommonGain(e, j, n)
          /\ TaxLots!GainsOver(e, j, S) \in Int
      BY <1>2, <1>8, <3>1, <3>2, GainsWithOneMore
    <3>4. TaxLots!GainsOver(e, j, Buys(e) \ LongOf(e, j)) = TaxLots!GainsOver(e, j, S \cup {n})
      BY <3>1, Zenon
    <3> QED BY <1>8, <3>2, <3>3, <3>4
  <2>2. CASE t.side # "BUY"
    <3>1. Buys(e) \ LongOf(e, j) = S
      BY <1>3, <1>5, <2>2
    <3> QED BY <1>8, <3>1
  <2> QED BY <2>1, <2>2
<1> QED BY <1>7, <1>9 DEF e

LEMMA SaleGains ==
  ASSUME NEW h, Sound(h), NEW j \in Sales(h)
  PROVE  /\ TaxLots!Replay(h).lt[j] = TaxLots!GainsOver(h, j, LongOf(h, j))
         /\ TaxLots!Replay(h).st[j] = TaxLots!GainsOver(h, j, Buys(h) \ LongOf(h, j))
<1>1. j \in Sales(h) \cap DOMAIN h
  BY DEF Sales, TaxLots!Of
<1> QED BY <1>1, ReplayIsShareByShare DEF PlayedTo

LEMMA SalesReplayAlike ==
  ASSUME NEW h, NEW t \in Trade, UpTo(h, t.day), Sound(Append(h, t))
  PROVE  LET r == TaxLots!Replay(h)
             q == TaxLots!Replay(Append(h, t))
         IN Alike(r.lt, q.lt, Sales(h)) /\ Alike(r.st, q.st, Sales(h))
<1> DEFINE e == Append(h, t)
           r == TaxLots!Replay(h)
           q == TaxLots!Replay(e)
<1>1. ASSUME NEW j \in Sales(h) PROVE r.lt[j] = q.lt[j] /\ r.st[j] = q.st[j]
  <2>1. h \in Seq(Trade) /\ Sound(h)
    BY DEF UpTo, Sound
  <2>2. j \in Sales(e)
    BY <2>1, OfOneTradeMore DEF Sales
  <2>3. /\ r.lt[j] = TaxLots!GainsOver(h, j, LongOf(h, j))
        /\ r.st[j] = TaxLots!GainsOver(h, j, Buys(h) \ LongOf(h, j))
    BY <2>1, SaleGains
  <2>4. /\ q.lt[j] = TaxLots!GainsOver(e, j, LongOf(e, j))
        /\ q.st[j] = TaxLots!GainsOver(e, j, Buys(e) \ LongOf(e, j))
    BY <2>2, SaleGains
  <2> QED BY <2>3, <2>4, SaleKeepsItsGains
<1> HIDE DEF r, q
<1>2. Alike(r.lt, q.lt, Sales(h)) /\ Alike(r.st, q.st, Sales(h))
  BY <1>1 DEF Alike
<1> QED BY <1>2 DEF r, q, e

LEMMA YearSalesStay ==
  ASSUME NEW h \in Seq(Trade), NEW t \in Trade, NEW d
  PROVE  /\ SalesOfYear(Append(h, t), d)
              = SalesOfYear(h, d) \cup (IF t.side = "SELL" /\ TaxLots!InYear(t.day) = TaxLots!InYear(d)
                                        THEN {Len(h) + 1} ELSE {})
         /\ Len(h) + 1 \notin SalesOfYear(h, d) /\ SalesOfYear(h, d) \in SUBSET Sales(h)
<1> DEFINE e == Append(h, t)
           n == Len(h) + 1
<1>1. e[n] = t /\ n \notin DOMAIN h /\ \A i \in DOMAIN h : e[i] = h[i]
  BY OneTradeMore
<1>2. Sales(e) = Sales(h) \cup (IF t.side = "SELL" THEN {n} ELSE {}) /\ Sales(h) \subseteq DOMAIN h
  BY OfOneTradeMore DEF Sales, TaxLots!Of
<1> HIDE DEF e, n
<1>3. /\ SalesOfYear(e, d)
           = SalesOfYear(h, d) \cup (IF t.side = "SELL" /\ TaxLots!InYear(t.day) = TaxLots!InYear(d) THEN {n} ELSE {})
      /\ n \notin SalesOfYear(h, d) /\ SalesOfYear(h, d) \in SUBSET Sales(h)
  BY <1>1, <1>2 DEF SalesOfYear
<1> QED BY <1>3 DEF e, n

(* A purchase changes no gain of the year.                                 *)
LEMMA SetoffWithPurchase ==
  ASSUME NEW h, NEW t \in Trade, t.side = "BUY", UpTo(h, t.day), Sound(Append(h, t)), NEW d
  PROVE  TaxLots!LtAfterSetoff(Append(h, t), d) = TaxLots!LtAfterSetoff(h, d)
<1> DEFINE e == Append(h, t)
           r == TaxLots!Replay(h)
           q == TaxLots!Replay(e)
           Y == SalesOfYear(h, d)
<1>1. h \in Seq(Trade) /\ e \in Seq(Trade)
  BY DEF UpTo, Sound
<1>2. SalesOfYear(e, d) = Y /\ Y \in SUBSET Sales(h)
  <2>1. SalesOfYear(e, d) = Y \cup {}
    <3>1. SalesOfYear(e, d)
            = Y \cup (IF t.side = "SELL" /\ TaxLots!InYear(t.day) = TaxLots!InYear(d) THEN {Len(h) + 1} ELSE {})
      BY <1>1, YearSalesStay, Zenon
    <3>2. t.side # "SELL"
      OBVIOUS
    <3> HIDE DEF Y, e
    <3> QED BY <3>1, <3>2
  <2> QED BY <2>1 DEF SalesOfYear
<1>3. Alike(r.lt, q.lt, Y) /\ Alike(r.st, q.st, Y)
  BY <1>2, SalesReplayAlike DEF Alike
<1>4. r.lt \in Lots(h) /\ r.st \in Lots(h) /\ q.lt \in Lots(e) /\ q.st \in Lots(e)
  BY <1>1, ReplayIsTyped DEF Plays
<1>5. IsFiniteSet(Y)
  BY <1>1, <1>4, YearIsSummed DEF Sums
<1> HIDE DEF r, q, Y, e
<1>6. Sum(r.lt, Y) = Sum(q.lt, Y) /\ Sum(r.st, Y) = Sum(q.st, Y)
  BY <1>3, <1>5, SumAlike
<1>7. TaxLots!YearSum(h, d, r.lt) = Sum(r.lt, Y) /\ TaxLots!YearSum(h, d, r.st) = Sum(r.st, Y)
  BY <1>1, <1>4, YearIsSummed DEF Y
<1>8. TaxLots!YearSum(e, d, q.lt) = Sum(q.lt, Y) /\ TaxLots!YearSum(e, d, q.st) = Sum(q.st, Y)
  BY <1>1, <1>2, <1>4, YearIsSummed
<1>9. TaxLots!YearSum(e, d, q.lt) = TaxLots!YearSum(h, d, r.lt) /\ TaxLots!YearSum(e, d, q.st) = TaxLots!YearSum(h, d, r.st)
  BY <1>6, <1>7, <1>8
<1> QED BY <1>9 DEF TaxLots!LtAfterSetoff, r, q, e

(* A sale adds its gains to those of its year.                             *)
LEMMA SetoffWithSale ==
  ASSUME NEW h, NEW t \in Trade, t.side = "SELL", UpTo(h, t.day), Sound(Append(h, t)),
         TaxLots!Replay(Append(h, t)).st[Len(h) + 1] = 0
  PROVE  TaxLots!LtAfterSetoff(Append(h, t), t.day)
           = TaxLots!LtAfterSetoff(h, t.day) + TaxLots!Replay(Append(h, t)).lt[Len(h) + 1]
<1> DEFINE e == Append(h, t)
           d == t.day
           n == Len(h) + 1
           r == TaxLots!Replay(h)
           q == TaxLots!Replay(e)
           Y == SalesOfYear(h, d)
<1>1. h \in Seq(Trade) /\ e \in Seq(Trade)
  BY DEF UpTo, Sound
<1>2. SalesOfYear(e, d) = Y \cup {n} /\ n \notin Y /\ Y \in SUBSET Sales(h)
  BY <1>1, YearSalesStay
<1>3. Alike(r.lt, q.lt, Y) /\ Alike(r.st, q.st, Y)
  BY <1>2, SalesReplayAlike DEF Alike
<1>4. r.lt \in Lots(h) /\ r.st \in Lots(h) /\ q.lt \in Lots(e) /\ q.st \in Lots(e)
  BY <1>1, ReplayIsTyped DEF Plays
<1>5. IsFiniteSet(Y)
  BY <1>1, <1>4, YearIsSummed DEF Sums
<1> HIDE DEF r, q, Y, e, n, d
<1>6. Sum(r.lt, Y) = Sum(q.lt, Y) /\ Sum(r.st, Y) = Sum(q.st, Y)
  BY <1>3, <1>5, SumAlike
<1>7. /\ TaxLots!YearSum(h, d, r.lt) = Sum(r.lt, Y) /\ TaxLots!YearSum(h, d, r.st) = Sum(r.st, Y)
      /\ Sum(r.lt, Y) \in Int /\ Sum(r.st, Y) \in Int
  BY <1>1, <1>4, YearIsSummed DEF Y
<1>8. /\ TaxLots!YearSum(e, d, q.lt) = Sum(q.lt, Y \cup {n}) /\ TaxLots!YearSum(e, d, q.st) = Sum(q.st, Y \cup {n})
      /\ Sums(q.lt, Y \cup {n}) /\ Sums(q.st, Y \cup {n})
  <2>1. /\ TaxLots!YearSum(e, d, q.lt) = Sum(q.lt, SalesOfYear(e, d))
        /\ TaxLots!YearSum(e, d, q.st) = Sum(q.st, SalesOfYear(e, d))
        /\ Sums(q.lt, SalesOfYear(e, d)) /\ Sums(q.st, SalesOfYear(e, d))
    BY <1>1, <1>4, YearIsSummed
  <2> QED BY <1>2, <2>1
<1>9. /\ Sum(q.lt, Y \cup {n}) = q.lt[n] + Sum(q.lt, Y) /\ q.lt[n] \in Int
      /\ Sum(q.st, Y \cup {n}) = q.st[n] + Sum(q.st, Y)
  BY <1>2, <1>8, SumWithOneMore DEF Sums
<1>10. q.st[n] = 0
  BY DEF q, e, n
<1>11. /\ TaxLots!YearSum(e, d, q.lt) = TaxLots!YearSum(h, d, r.lt) + q.lt[n]
       /\ TaxLots!YearSum(e, d, q.st) = TaxLots!YearSum(h, d, r.st)
  BY <1>6, <1>7, <1>8, <1>9, <1>10
<1>12. /\ TaxLots!LtAfterSetoff(h, d) = TaxLots!YearSum(h, d, r.lt) + Smaller(0, TaxLots!YearSum(h, d, r.st))
       /\ TaxLots!LtAfterSetoff(e, d) = TaxLots!YearSum(e, d, q.lt) + Smaller(0, TaxLots!YearSum(e, d, q.st))
  BY <1>1, SetoffIsInt DEF r, q
<1>13. TaxLots!YearSum(h, d, r.lt) \in Int /\ Smaller(0, TaxLots!YearSum(h, d, r.st)) \in Int
  BY <1>7 DEF Smaller
<1>14. TaxLots!LtAfterSetoff(e, d) = TaxLots!LtAfterSetoff(h, d) + q.lt[n]
  BY <1>9, <1>11, <1>12, <1>13
<1> QED BY <1>14 DEF e, d, n, q

-----------------------------------------------------------------------------
(* India: a sale of long-term shares that all cost the same.               *)

LEMMA SumScaled ==
  ASSUME NEW w, NEW T, Sums(w, T), NEW u \in Int, NEW v, \A x \in T : v[x] = w[x] * u
  PROVE  Sum(v, T) = Sum(w, T) * u
<1> DEFINE pick == [s \in SUBSET T |-> FirstOf(s)]
           G == {s \in SUBSET T : Sum(v, s) = Sum(w, s) * u}
<1>1. IsFiniteSet(T) /\ Picks(pick, T)
  BY FirstAndRest DEF Picks, Sums
<1>2. \A x \in T : w[x] \in Int /\ v[x] \in Int
  BY DEF Sums
<1>3. ASSUME NEW s \in SUBSET T, s = {} \/ RestOf(pick, s) \in G PROVE s \in G
  <2>1. CASE s = {}
    BY <2>1, SumOfNothing
  <2>2. CASE s # {}
    <3> DEFINE x == pick[s]
               R == RestOf(pick, s)
    <3>1. x \in T /\ s = R \cup {x} /\ x \notin R /\ R \in SUBSET T
      BY <1>1, <2>2 DEF Picks, RestOf
    <3>2. Sum(v, R) = Sum(w, R) * u
      BY <1>3, <2>2
    <3> HIDE DEF x, R
    <3>3. R \cup {x} \in SUBSET T /\ Sums(v, T)
      BY <1>1, <1>2, <3>1 DEF Sums
    <3>4. Sums(w, R) /\ Sums(w, R \cup {x}) /\ Sums(v, R \cup {x})
      BY <3>1, <3>3, SumsOfParts
    <3>5. Sum(w, R \cup {x}) = w[x] + Sum(w, R) /\ Sum(v, R \cup {x}) = v[x] + Sum(v, R) /\ Sum(w, R) \in Int
      BY <3>1, <3>4, SumWithOneMore, SumIsInt
    <3>6. (w[x] + Sum(w, R)) * u = w[x] * u + Sum(w, R) * u
      BY <1>2, <3>1, <3>5
    <3>7. Sum(v, R \cup {x}) = Sum(w, R \cup {x}) * u
      BY <3>1, <3>2, <3>5, <3>6
    <3>8. Sum(v, s) = Sum(w, s) * u
      BY <3>1, <3>7
    <3> QED BY <3>8
  <2> QED BY <2>1, <2>2
<1>4. Closes(pick, T, G)
  BY <1>3 DEF Closes
<1> HIDE DEF G, pick
<1>5. T \in G
  BY <1>1, <1>4, EverySubset
<1> QED BY <1>5 DEF G

CommonIn(h, j) == [i \in Buys(h) |-> Common(h, i, j)]

(* How many of the numbers from t + 1 to t + q are at most b.              *)
Reached(b, t, q) == IF b <= t THEN 0 ELSE IF b >= t + q THEN q ELSE b - t

LEMMA CommonIsSummed ==
  ASSUME NEW h \in Seq(Trade), NEW j \in Sales(h), NEW S \in SUBSET Buys(h)
  PROVE  Sums(CommonIn(h, j), S)
<1>1. IsFiniteSet(S)
  BY TradesOf, FS_Subset
<1>2. \A i \in S : CommonIn(h, j)[i] \in Int
  <2>1. \A i \in S : Common(h, i, j) \in Int
    BY CommonIsOverlap
  <2> HIDE DEF Common
  <2> QED BY <2>1 DEF CommonIn
<1> QED BY <1>1, <1>2 DEF Sums

LEMMA CommonUpTo ==
  ASSUME NEW h \in Seq(Trade), NEW j \in Sales(h), NEW c \in Cuts(h)
  PROVE  Sum(CommonIn(h, j), Until(Buys(h), c)) = Reached(Bought(h, c), Sold(h, j), h[j].qty)
<1> DEFINE w == CommonIn(h, j)
           t == Sold(h, j)
           Q == h[j].qty
           G == {k \in Cuts(h) : Sum(w, Until(Buys(h), k)) = Reached(Bought(h, k), t, Q)}
<1>1. /\ DOMAIN h = 1 .. Len(h) /\ Cuts(h) = 1 .. Len(h) + 1 /\ Len(h) \in Nat /\ Buys(h) \subseteq DOMAIN h
      /\ j \in DOMAIN h
  BY TradesOf DEF Cuts
<1>2. t \in Nat /\ Q \in Nat /\ Q > 0
  <2>1. j \in Cuts(h) /\ h[j].qty \in Nat /\ h[j].qty > 0
    BY <1>1, TradeAt
  <2> QED BY <2>1, PriorIsNat DEF Sold
<1>3. \A i \in Buys(h) : w[i] = Overlap(Bought(h, i), Bought(h, i) + h[i].qty, t, t + Q)
  <2>1. \A i \in Buys(h) : Common(h, i, j) = Overlap(Bought(h, i), Bought(h, i) + h[i].qty, t, t + Q)
    BY CommonIsOverlap
  <2> HIDE DEF Common, t, Q
  <2> QED BY <2>1 DEF CommonIn
<1>4. \A S \in SUBSET Buys(h) : Sums(w, S)
  BY CommonIsSummed
<1> HIDE DEF w, t, Q
<1>5. Passes(Len(h), G)
  <2>1. 1 \in G
    <3>1. Until(Buys(h), 1) = {} /\ 1 \in Cuts(h)
      BY <1>1 DEF Until
    <3>2. Sum(w, Until(Buys(h), 1)) = 0
      BY <3>1, SumOfNothing
    <3>3. Bought(h, 1) = 0
      BY PriorStarts DEF Bought
    <3>4. Reached(0, t, Q) = 0
      BY <1>2 DEF Reached
    <3> QED BY <3>1, <3>2, <3>3, <3>4
  <2>2. ASSUME NEW k \in 1 .. Len(h), k \in G PROVE k + 1 \in G
    <3> DEFINE U == Until(Buys(h), k)
               B == Bought(h, k)
               q == h[k].qty
    <3>1. /\ k \in DOMAIN h /\ k \in Cuts(h) /\ k + 1 \in Cuts(h) /\ k \notin U /\ U \in SUBSET Buys(h)
      BY <1>1 DEF Until
    <3>2. Until(Buys(h), k + 1) = IF k \in Buys(h) THEN U \cup {k} ELSE U
      BY <1>1 DEF Until
    <3>3. Sum(w, U) = Reached(B, t, Q)
      BY <2>2
    <3>4. B \in Nat /\ q \in Nat
      BY <3>1, TradeAt, PriorIsNat DEF Bought
    <3>5. Bought(h, k + 1) = B + IF k \in Buys(h) THEN q ELSE 0
      BY <3>1, PriorSteps DEF Bought, Buys, TaxLots!Of
    <3>6. k \in Buys(h) => w[k] = Overlap(B, B + q, t, t + Q)
      BY <1>3
    <3> HIDE DEF U, B, q
    <3>7. Reached(B, t, Q) + Overlap(B, B + q, t, t + Q) = Reached(B + q, t, Q)
      BY <1>2, <3>4 DEF Reached, Overlap, Larger, Smaller
    <3>8. Reached(B, t, Q) \in Int /\ Overlap(B, B + q, t, t + Q) \in Int
      BY <1>2, <3>4 DEF Reached, Overlap, Larger, Smaller
    <3>9. Sum(w, Until(Buys(h), k + 1)) = Reached(Bought(h, k + 1), t, Q)
      <4>1. CASE k \in Buys(h)
        <5>1. Bought(h, k + 1) = B + q /\ Until(Buys(h), k + 1) = U \cup {k}
          BY <3>2, <3>5, <4>1
        <5>2. Sums(w, U \cup {k})
          <6>1. U \cup {k} \in SUBSET Buys(h)
            BY <3>1, <4>1
          <6> QED BY <1>4, <6>1
        <5>3. Sum(w, U \cup {k}) = w[k] + Sum(w, U)
          BY <3>1, <5>2, SumWithOneMore
        <5>4. Sum(w, U \cup {k}) = Reached(B + q, t, Q)
          BY <3>3, <3>6, <3>7, <3>8, <4>1, <5>3
        <5> QED BY <5>1, <5>4
      <4>2. CASE k \notin Buys(h)
        <5>1. Bought(h, k + 1) = B /\ Until(Buys(h), k + 1) = U
          BY <3>2, <3>4, <3>5, <4>2
        <5> QED BY <3>3, <5>1
      <4> QED BY <4>1, <4>2
    <3> QED BY <3>1, <3>9
  <2> HIDE DEF G
  <2> QED BY <2>1, <2>2 DEF Passes
<1> HIDE DEF G
<1>6. 1 .. Len(h) + 1 \subseteq G
  BY <1>1, <1>5, EveryCut
<1> QED BY <1>1, <1>6 DEF G, w, t, Q

(* The trades that are long-term on a day are the first ones.              *)
LongUpTo(h, d, c) == c \in Cuts(h) /\ \A i \in DOMAIN h : TaxLots!IsLongTerm(h[i].day, d) <=> i < c

LEMMA LongAreFirst ==
  ASSUME NEW h, Sound(h), NEW d \in Int
  PROVE  \E c : LongUpTo(h, d, c)
<1> DEFINE Long(i) == TaxLots!IsLongTerm(h[i].day, d)
           G == {c \in Cuts(h) : \A i \in DOMAIN h : i < c => Long(i)}
<1>1. h \in Seq(Trade) /\ DOMAIN h = 1 .. Len(h) /\ Cuts(h) = 1 .. Len(h) + 1 /\ Len(h) \in Nat
  BY TradesOf DEF Cuts, Sound
<1>2. G \in SUBSET Int /\ G # {} /\ IsFiniteSet(G)
  <2>1. 1 \in G
    BY <1>1
  <2>2. Cuts(h) \in SUBSET Int /\ IsFiniteSet(Cuts(h)) /\ G \in SUBSET Cuts(h)
    BY <1>1, FS_Interval
  <2> HIDE DEF G
  <2> QED BY <2>1, <2>2, FS_Subset
<1>3. PICK c \in G : \A k \in G : k <= c
  <2> HIDE DEF G
  <2> QED BY <1>2, LastOf
<1>4. ASSUME NEW i \in DOMAIN h, Long(i), ~(i < c) PROVE FALSE
  <2>1. i \in Int /\ c \in Int /\ i + 1 \in Cuts(h)
    BY <1>1, <1>3
  <2>2. ASSUME NEW k \in DOMAIN h, k < i + 1 PROVE Long(k)
    <3>1. k = i \/ k < i
      BY <1>1, <2>1, <2>2
    <3>2. CASE k < i
      <4>1. h[k].day <= h[i].day /\ h[k].day \in Int /\ h[i].day \in Int /\ TaxYear \in Int
        BY <1>1, <3>2, TradeAt, TaxAssumption DEF Sound, Chronological
      <4> QED BY <1>4, <4>1 DEF TaxLots!IsLongTerm
    <3> QED BY <1>4, <3>1, <3>2
  <2>3. i + 1 \in G
    BY <2>1, <2>2
  <2>4. i + 1 <= c
    BY <1>3, <2>3
  <2> QED BY <1>4, <2>1, <2>4
<1>5. LongUpTo(h, d, c)
  BY <1>3, <1>4 DEF LongUpTo
<1> QED BY <1>5

LEMMA LongTermQtyIs ==
  ASSUME NEW h, Sound(h), NEW d, NEW c, LongUpTo(h, d, c)
  PROVE  TaxLots!LongTermQty(h, d) = Larger(0, Bought(h, c) - Sold(h, Len(h) + 1))
<1>1. {i \in DOMAIN h : TaxLots!IsLongTerm(h[i].day, d)} = Until(DOMAIN h, c)
  BY DEF LongUpTo, Until
<1>2. TaxLots!LongTermQty(h, d) = Sum(TaxLots!OpenLots(h), {i \in DOMAIN h : TaxLots!IsLongTerm(h[i].day, d)})
  BY TotalsAreSums DEF TaxLots!LongTermQty
<1>3. TaxLots!LongTermQty(h, d) = Sum(TaxLots!OpenLots(h), Until(DOMAIN h, c))
  BY <1>1, <1>2, Zenon
<1>4. c \in Cuts(h)
  BY DEF LongUpTo
<1> QED BY <1>3, <1>4, OpenLotsUpTo

(* A sale after the history: its numbers follow those sold so far.         *)
LEMMA SaleIsNext ==
  ASSUME NEW h, Sound(h), NEW t \in Trade, t.side = "SELL"
  PROVE  LET e == Append(h, t)
             N == Len(h) + 1
         IN /\ h \in Seq(Trade) /\ e \in Seq(Trade) /\ N \in Sales(e) /\ e[N] = t /\ Buys(e) = Buys(h)
            /\ Sold(e, N) = Sold(h, N) /\ N \in Cuts(h)
            /\ \A c \in Cuts(h) : c \in Cuts(e) /\ Bought(e, c) = Bought(h, c)
            /\ \A i \in DOMAIN h : e[i] = h[i]
<1> DEFINE e == Append(h, t)
           N == Len(h) + 1
<1>1. /\ h \in Seq(Trade) /\ e \in Seq(Trade) /\ e[N] = t /\ \A i \in DOMAIN h : e[i] = h[i]
  BY OneTradeMore DEF Sound
<1>2. N \in Cuts(h) /\ Cuts(h) \subseteq Cuts(e)
  BY <1>1, OneTradeMore, TradesOf DEF Cuts
<1>3. N \in Sales(e) /\ Buys(e) = Buys(h)
  <2>1. TaxLots!Of("BUY", e) = TaxLots!Of("BUY", h) \cup {}
    <3>1. TaxLots!Of("BUY", e) = TaxLots!Of("BUY", h) \cup (IF t.side = "BUY" THEN {N} ELSE {})
      BY <1>1, OfOneTradeMore
    <3> HIDE DEF e, N
    <3> QED BY <3>1
  <2>2. TaxLots!Of("SELL", e) = TaxLots!Of("SELL", h) \cup {N}
    <3>1. TaxLots!Of("SELL", e) = TaxLots!Of("SELL", h) \cup (IF t.side = "SELL" THEN {N} ELSE {})
      BY <1>1, OfOneTradeMore
    <3> HIDE DEF e, N
    <3> QED BY <3>1
  <2> HIDE DEF e, N
  <2> QED BY <2>1, <2>2 DEF Buys, Sales
<1>4. \A c \in Cuts(h) : Bought(e, c) = Bought(h, c) /\ Sold(e, c) = Sold(h, c)
  BY <1>1, PriorStays DEF Bought, Sold
<1> HIDE DEF e, N
<1>5. /\ h \in Seq(Trade) /\ e \in Seq(Trade) /\ N \in Sales(e) /\ e[N] = t /\ Buys(e) = Buys(h)
      /\ Sold(e, N) = Sold(h, N) /\ N \in Cuts(h)
      /\ \A c \in Cuts(h) : c \in Cuts(e) /\ Bought(e, c) = Bought(h, c)
      /\ \A i \in DOMAIN h : e[i] = h[i]
  BY <1>1, <1>2, <1>3, <1>4
<1> QED BY <1>5 DEF e, N

(* The gain of a share when the open lots cost the same.                   *)
OpenLot(h) == CHOOSE i \in DOMAIN h : TaxLots!OpenLots(h)[i] > 0
UnitGain(h, p) == (p - h[OpenLot(h)].price) * TaxLots!Parts
SomeOpen(h) == \E i \in DOMAIN h : TaxLots!OpenLots(h)[i] > 0

LEMMA UnitGainIsInt ==
  ASSUME NEW h, Sound(h), SomeOpen(h), NEW p \in Price
  PROVE  UnitGain(h, p) \in Int /\ OpenLot(h) \in DOMAIN h /\ TaxLots!OpenLots(h)[OpenLot(h)] > 0
<1>1. OpenLot(h) \in DOMAIN h /\ TaxLots!OpenLots(h)[OpenLot(h)] > 0
  BY DEF OpenLot, SomeOpen
<1>2. h[OpenLot(h)].price \in Int /\ p \in Int
  BY <1>1, TradeAt, TaxAssumption DEF Sound
<1> QED BY <1>1, <1>2 DEF UnitGain, TaxLots!Parts

LEMMA EvenGains ==
  ASSUME NEW h, Sound(h), SomeOpen(h), TaxLots!OnePrice(h, TaxLots!OpenLots(h)),
         NEW t \in Trade, t.side = "SELL", NEW i \in Buys(h)
  PROVE  LET e == Append(h, t)
             N == Len(h) + 1
         IN CommonGain(e, N, i) = Common(e, i, N) * UnitGain(h, t.price)
<1> DEFINE e == Append(h, t)
           N == Len(h) + 1
           S == Sold(h, N)
           lots == TaxLots!OpenLots(h)
<1>1. /\ h \in Seq(Trade) /\ e \in Seq(Trade) /\ N \in Sales(e) /\ e[N] = t /\ Buys(e) = Buys(h)
      /\ Sold(e, N) = S /\ i \in DOMAIN h /\ e[i] = h[i] /\ i \in Cuts(h) /\ Bought(e, i) = Bought(h, i)
  <2>1. h \in Seq(Trade) /\ i \in DOMAIN h
    BY DEF Sound, Buys, TaxLots!Of
  <2>2. i \in Cuts(h)
    BY <2>1, TradeAt
  <2>3. /\ e \in Seq(Trade) /\ N \in Sales(e) /\ e[N] = t /\ Buys(e) = Buys(h) /\ Sold(e, N) = S
        /\ \A c \in Cuts(h) : Bought(e, c) = Bought(h, c)
        /\ \A k \in DOMAIN h : e[k] = h[k]
    BY SaleIsNext
  <2> HIDE DEF e, N, S
  <2> QED BY <2>1, <2>2, <2>3
<1>2. lots \in Lots(h) /\ S \in Nat /\ lots[i] = LeftAfter(h, i, S)
  BY <1>1, OpenLotsAre
<1>3. lots[i] = Beyond(Bought(h, i), Bought(h, i) + h[i].qty, S)
  BY <1>1, <1>2, LeftIsBeyond
<1>4. OpenLot(h) \in DOMAIN h /\ lots[OpenLot(h)] > 0 /\ UnitGain(h, t.price) \in Int
  BY UnitGainIsInt, TradeParts
<1>5. \A x, y \in DOMAIN lots : lots[x] > 0 /\ lots[y] > 0 => h[x].price = h[y].price
  BY DEF TaxLots!OnePrice
<1> HIDE DEF lots, e, N, S
<1>6. lots[i] > 0 => h[i].price = h[OpenLot(h)].price
  BY <1>1, <1>2, <1>4, <1>5 DEF Lots
<1>7. Common(e, i, N) = Overlap(Bought(h, i), Bought(h, i) + h[i].qty, S, S + t.qty) /\ Common(e, i, N) \in Nat
  BY <1>1, CommonIsOverlap
<1>8. Bought(h, i) \in Nat /\ h[i].qty \in Nat /\ t.qty \in Int
  BY <1>1, TradeAt, TradeParts, PriorIsNat DEF Bought
<1>9. Common(e, i, N) # 0 => lots[i] > 0
  BY <1>2, <1>3, <1>7, <1>8 DEF Overlap, Beyond, Larger, Smaller
<1>10. CommonGain(e, N, i) = Common(e, i, N) * (t.price - h[i].price) * TaxLots!Parts
  BY <1>1 DEF CommonGain, Gain
<1>11. h[i].price \in Int /\ t.price \in Int /\ h[OpenLot(h)].price \in Int
  BY <1>1, <1>4, TradeAt, TradeParts
<1>12. CommonGain(e, N, i) = Common(e, i, N) * UnitGain(h, t.price)
  <2>1. CASE Common(e, i, N) = 0
    BY <1>4, <1>10, <1>11, <2>1 DEF TaxLots!Parts
  <2>2. CASE Common(e, i, N) # 0
    <3>1. h[i].price = h[OpenLot(h)].price
      BY <1>6, <1>9, <2>2
    <3> HIDE DEF Common
    <3> QED BY <1>7, <1>10, <1>11, <3>1 DEF UnitGain, TaxLots!Parts
  <2> QED BY <2>1, <2>2
<1> QED BY <1>12 DEF e, N

LEMMA EvenSaleGains ==
  ASSUME NEW h, Sound(h), SomeOpen(h), TaxLots!OnePrice(h, TaxLots!OpenLots(h)),
         NEW t \in Trade, t.side = "SELL", t.qty <= TaxLots!LongTermQty(h, t.day), Sound(Append(h, t))
  PROVE  LET r == TaxLots!Replay(Append(h, t))
             N == Len(h) + 1
         IN r.lt[N] = t.qty * UnitGain(h, t.price) /\ r.st[N] = 0
<1> DEFINE e == Append(h, t)
           N == Len(h) + 1
           r == TaxLots!Replay(e)
           S == Sold(h, N)
           u == UnitGain(h, t.price)
           w == CommonIn(e, N)
           all == TaxLots!LongTermQty(h, t.day)
<1>1. PICK c : LongUpTo(h, t.day, c)
  BY LongAreFirst, TradeParts
<1>2. /\ h \in Seq(Trade) /\ e \in Seq(Trade) /\ N \in Sales(e) /\ e[N] = t /\ Buys(e) = Buys(h)
      /\ Sold(e, N) = S /\ c \in Cuts(e) /\ c \in Cuts(h) /\ Bought(e, c) = Bought(h, c)
      /\ N \in Cuts(h) /\ \A i \in DOMAIN h : e[i] = h[i]
  <2>1. c \in Cuts(h)
    BY <1>1 DEF LongUpTo
  <2>2. /\ h \in Seq(Trade) /\ e \in Seq(Trade) /\ N \in Sales(e) /\ e[N] = t /\ Buys(e) = Buys(h)
        /\ Sold(e, N) = S /\ N \in Cuts(h)
        /\ \A k \in Cuts(h) : k \in Cuts(e) /\ Bought(e, k) = Bought(h, k)
        /\ \A i \in DOMAIN h : e[i] = h[i]
    BY SaleIsNext
  <2> HIDE DEF e, N, S
  <2> QED BY <2>1, <2>2
<1>3. S \in Nat /\ Bought(h, c) \in Nat /\ t.qty \in Int /\ t.qty > 0
  BY <1>2, PriorIsNat, TradeParts DEF Sold, Bought
<1>4. all = Larger(0, Bought(h, c) - S)
  BY <1>1, LongTermQtyIs
<1>5. r.lt[N] = TaxLots!GainsOver(e, N, LongOf(e, N)) /\ r.st[N] = TaxLots!GainsOver(e, N, Buys(e) \ LongOf(e, N))
  BY <1>2, SaleGains
<1>6. u \in Int
  BY UnitGainIsInt, TradeParts
<1>7. \A i \in Buys(e) : CommonGain(e, N, i) = Common(e, i, N) * u
  <2>1. \A i \in Buys(h) : CommonGain(e, N, i) = Common(e, i, N) * u
    BY EvenGains
  <2> QED BY <1>2, <2>1
<1> HIDE DEF e, N, r, S, u, all
<1>8. Bought(h, c) >= S + t.qty
  BY <1>3, <1>4 DEF Larger, all
<1> DEFINE L == Until(Buys(e), c)
<1>9. LongOf(e, N) = L /\ L \in SUBSET Buys(e)
  <2>1. \A i \in Buys(e) : i \in DOMAIN h /\ e[i] = h[i]
    BY <1>2 DEF Buys, TaxLots!Of
  <2>2. \A i \in Buys(e) : TaxLots!IsLongTerm(e[i].day, e[N].day) <=> i < c
    BY <1>1, <1>2, <2>1 DEF LongUpTo
  <2> QED BY <2>2 DEF LongOf, Until
<1>10. Sum(w, L) = t.qty
  <2>1. Sum(w, L) = Reached(Bought(h, c), S, t.qty)
    BY <1>2, CommonUpTo
  <2> QED BY <1>3, <1>8, <2>1 DEF Reached
<1>11. Sums(w, L)
  BY <1>2, <1>9, CommonIsSummed
<1>12. \A i \in Buys(e) : GainsIn(e, N)[i] = w[i] * u
  BY <1>7 DEF GainsIn, CommonIn
<1> HIDE DEF w, L
<1>13. Sum(GainsIn(e, N), L) = t.qty * u
  BY <1>6, <1>9, <1>10, <1>11, <1>12, SumScaled
<1>14. r.lt[N] = t.qty * u
  <2>1. TaxLots!GainsOver(e, N, L) = Sum(GainsIn(e, N), L)
    BY <1>2, <1>9, GainsAreSummed
  <2> QED BY <1>5, <1>9, <1>13, <2>1
<1> DEFINE R == Buys(e) \ LongOf(e, N)
<1>15. R \in SUBSET Buys(e) /\ r.st[N] = Sum(GainsIn(e, N), R) /\ IsFiniteSet(R)
  BY <1>2, <1>5, GainsAreSummed DEF Sums
<1>16. \A i \in R : GainsIn(e, N)[i] = 0
  <2>1. SUFFICES ASSUME NEW i \in R PROVE GainsIn(e, N)[i] = 0
    OBVIOUS
  <2>2. i \in Buys(e) /\ i \in DOMAIN h /\ ~(i < c) /\ i \in DOMAIN e
    BY <1>2, <1>9 DEF Buys, TaxLots!Of, Until, L
  <2>3. i \in Cuts(e) /\ i \in Int /\ c \in Int /\ e[i].qty \in Nat
    BY <1>2, <2>2, TradeAt DEF Cuts
  <2>4. Bought(e, c) <= Bought(e, i) /\ Bought(e, i) \in Nat
    BY <1>2, <2>2, <2>3, PriorGrows, PriorIsNat DEF Bought
  <2>5. Common(e, i, N) = Overlap(Bought(e, i), Bought(e, i) + e[i].qty, S, S + t.qty)
    BY <1>2, <2>2, CommonIsOverlap
  <2>6. Common(e, i, N) = 0
    BY <1>2, <1>3, <1>8, <2>3, <2>4, <2>5 DEF Overlap, Larger, Smaller
  <2>7. w[i] = 0
    BY <2>2, <2>6 DEF w, CommonIn
  <2> QED BY <1>6, <1>12, <2>2, <2>7
<1> HIDE DEF R
<1>17. r.st[N] = 0
  BY <1>15, <1>16, SumOfZeros
<1> QED BY <1>14, <1>17 DEF e, N, r, u

LEMMA SomeAreOpen ==
  ASSUME NEW h, Sound(h), NEW d, TaxLots!LongTermQty(h, d) > 0
  PROVE  SomeOpen(h)
<1> SUFFICES ASSUME ~SomeOpen(h) PROVE FALSE
  OBVIOUS
<1> DEFINE lots == TaxLots!OpenLots(h)
           S == {i \in DOMAIN h : TaxLots!IsLongTerm(h[i].day, d)}
<1>1. \A i \in DOMAIN h : lots[i] \in Nat /\ ~(lots[i] > 0)
  BY OpenLotsAre DEF SomeOpen
<1>2. S \in SUBSET DOMAIN h /\ IsFiniteSet(S)
  <2>1. S \in SUBSET DOMAIN h /\ IsFiniteSet(DOMAIN h)
    BY TradesOf DEF Sound
  <2> QED BY <2>1, FS_Subset
<1>3. TaxLots!LongTermQty(h, d) = Sum(lots, S)
  BY TotalsAreSums DEF TaxLots!LongTermQty
<1> HIDE DEF lots, S
<1>4. \A i \in S : lots[i] = 0
  BY <1>1, <1>2
<1>5. Sum(lots, S) = 0
  BY <1>2, <1>4, SumOfZeros
<1> QED BY <1>3, <1>5

LEMMA PartOfTheGain ==
  ASSUME NEW n \in Nat \ {0}, NEW all \in Nat \ {0}, NEW u \in Int, NEW left \in Nat,
         all * u > 0, n * (all * u) <= all * left
  PROVE  n * u <= left /\ left > 0
<1>1. u > 0
  <2>1. SUFFICES ASSUME u <= 0 PROVE FALSE
    OBVIOUS
  <2>2. u * all <= 0 * all
    BY <2>1, ProductGrows
  <2> QED BY <2>2
<1> DEFINE x == n * u
<1>2. x \in Int /\ x >= 1
  <2>1. 1 * u <= n * u
    BY <1>1, ProductGrows
  <2> QED BY <1>1, <2>1
<1>3. x * all <= left * all
  <2>1. n * (all * u) = x * all
    OBVIOUS
  <2> QED BY <2>1
<1> HIDE DEF x
<1>4. x <= left
  <2>1. SUFFICES ASSUME left + 1 <= x PROVE FALSE
    BY <1>2
  <2>2. (left + 1) * all <= x * all
    BY <1>2, <2>1, ProductGrows
  <2>3. (left + 1) * all = left * all + all
    OBVIOUS
  <2>4. left * all \in Int /\ x * all \in Int
    BY <1>2
  <2> QED BY <1>3, <2>2, <2>3, <2>4
<1>5. left > 0
  BY <1>2, <1>4
<1> QED BY <1>4, <1>5 DEF x

LEMMA IndiaHarvestIsFree ==
  ASSUME NEW h, NEW d \in TaxLots!Days, UpTo(h, d), NEW p \in Price,
         NEW n, n = TaxLots!HarvestQty(h, p, d), n > 0
  PROVE  LET e == Append(h, TaxLots!SaleOf(d, n, p))
         IN /\ UpTo(e, d)
            /\ TaxLots!OnePrice(h, TaxLots!OpenLots(h))
                 => TaxLots!LtAfterSetoff(e, d) <= Allowance * TaxLots!Parts
<1> DEFINE t == TaxLots!SaleOf(d, n, p)
           e == Append(h, t)
           all == TaxLots!LongTermQty(h, d)
           s == TaxLots!SaleOf(d, all, p)
           gain == TaxLots!EstimateSale(h, all, p, d).lt
           left == TaxLots!ExemptionRemaining(h, d)
           before == TaxLots!LtAfterSetoff(h, d)
           u == UnitGain(h, p)
           lt == TaxLots!Replay(e).lt[Len(h) + 1]
<1>1. Sound(h) /\ h \in Seq(Trade)
  BY DEF UpTo, Sound
<1>2. /\ n \in Nat \ {0} /\ n <= all /\ n <= TaxLots!Held(h) /\ all \in Nat \ {0}
      /\ gain > 0 /\ left \in Nat /\ n * gain <= all * left /\ all <= TaxLots!Held(h)
  <2>1. Harvests(h, n, all, gain, left)
    BY <1>1, HarvestIsHeld
  <2>2. all <= TaxLots!Held(h)
    BY <1>1, LongTermIsHeld
  <2> HIDE DEF all, gain, left
  <2> QED BY <2>1, <2>2 DEF Harvests
<1>3. t \in Trade /\ t.day = d /\ t.side = "SELL" /\ t.qty = n /\ t.price = p
  BY <1>2, SaleOfIsTrade
<1>4. s \in Trade /\ s.day = d /\ s.side = "SELL" /\ s.qty = all /\ s.price = p
  <2> HIDE DEF all
  <2> QED BY <1>2, SaleOfIsTrade
<1>5. gain = TaxLots!Replay(Append(h, s)).lt[Len(h) + 1]
  BY DEF TaxLots!EstimateSale
<1> HIDE DEF t, s
<1>6. UpTo(e, d) /\ Sound(Append(h, s))
  BY <1>2, <1>3, <1>4, UpToWithOneMore DEF UpTo
<1>7. ASSUME TaxLots!OnePrice(h, TaxLots!OpenLots(h))
      PROVE  TaxLots!LtAfterSetoff(e, d) <= Allowance * TaxLots!Parts
  <2>1. SomeOpen(h)
    BY <1>1, <1>2, SomeAreOpen
  <2>2. u \in Int
    BY <1>1, <2>1, UnitGainIsInt
  <2>3. gain = all * u
    <3>1. s.qty <= TaxLots!LongTermQty(h, s.day)
      BY <1>2, <1>4
    <3>2. TaxLots!Replay(Append(h, s)).lt[Len(h) + 1] = s.qty * UnitGain(h, s.price)
      BY <1>1, <1>4, <1>6, <1>7, <2>1, <3>1, EvenSaleGains
    <3> QED BY <1>4, <1>5, <3>2
  <2>4. lt = n * u /\ TaxLots!Replay(e).st[Len(h) + 1] = 0
    <3>1. t.qty <= TaxLots!LongTermQty(h, t.day) /\ Sound(Append(h, t))
      BY <1>2, <1>3, <1>6 DEF UpTo
    <3>2. /\ TaxLots!Replay(Append(h, t)).lt[Len(h) + 1] = t.qty * UnitGain(h, t.price)
          /\ TaxLots!Replay(Append(h, t)).st[Len(h) + 1] = 0
      BY <1>1, <1>3, <1>7, <2>1, <3>1, EvenSaleGains
    <3> QED BY <1>3, <3>2
  <2>5. TaxLots!LtAfterSetoff(e, d) = before + lt
    BY <1>3, <1>6, <2>4, SetoffWithSale DEF UpTo
  <2>6. before \in Int /\ left = Room(before)
    BY <1>1, SetoffIsInt, ExemptionIsRoom
  <2> HIDE DEF all, gain, left, before, u, lt, e
  <2>7. n * u <= left /\ left > 0
    BY <1>2, <2>2, <2>3, PartOfTheGain
  <2>8. before + left <= Allowance * TaxLots!Parts /\ Allowance * TaxLots!Parts \in Nat
    BY <2>6, <2>7, RoomIsNat
  <2>9. n * u \in Int
    BY <1>2, <2>2
  <2>10. before + lt <= Allowance * TaxLots!Parts
    BY <1>2, <2>4, <2>6, <2>7, <2>8, <2>9
  <2> QED BY <2>5, <2>10
<1> QED BY <1>6, <1>7 DEF t

-----------------------------------------------------------------------------
(* The engines over time: the history is sound and up to today, in the UK  *)
(* nothing is bought back within the thirty days, and a harvest was a sale *)
(* of its day that left no tax to pay.                                     *)

TaxBooks ==
  /\ v1 \in {"india", "uk"} /\ v2 \in TaxLots!Days /\ v4 \in {"no", "even", "uneven"}
  /\ UpTo(v3, v2)
  /\ v1 = "uk" => NoBuyBack(v3)
  /\ v4 # "no" => TaxLots!On(v2, "SELL", v3) # {}
  /\ TaxLots!HarvestIsTaxFree

LEMMA TaxLotsInit == TaxLots!Init => TaxBooks
<1> SUFFICES ASSUME TaxLots!Init PROVE TaxBooks
  OBVIOUS
<1>1. v1 \in {"india", "uk"} /\ v2 \in TaxLots!Days /\ v3 = <<>> /\ v4 = "no"
  BY TaxAssumption DEF TaxLots!Init, TaxLots!Days
<1>2. NoBuyBack(<<>>)
  BY DEF NoBuyBack, Buys, Sales, TaxLots!Of
<1> QED BY <1>1, <1>2, NothingIsUpTo DEF TaxBooks, TaxLots!HarvestIsTaxFree

LEMMA TodayStaysSold ==
  ASSUME NEW h \in Seq(Trade), NEW t \in Trade, NEW d
  PROVE  /\ TaxLots!On(d, "SELL", h) # {} => TaxLots!On(d, "SELL", Append(h, t)) # {}
         /\ t.day = d /\ t.side = "SELL" => TaxLots!On(d, "SELL", Append(h, t)) # {}
<1> DEFINE e == Append(h, t)
           n == Len(h) + 1
<1>1. n \in DOMAIN e /\ e[n] = t /\ \A i \in DOMAIN h : i \in DOMAIN e /\ e[i] = h[i]
  BY OneTradeMore
<1> HIDE DEF e, n
<1>2. /\ TaxLots!On(d, "SELL", h) # {} => TaxLots!On(d, "SELL", e) # {}
      /\ t.day = d /\ t.side = "SELL" => TaxLots!On(d, "SELL", e) # {}
  BY <1>1 DEF TaxLots!On, TaxLots!Of
<1> QED BY <1>2 DEF e

(* In the UK a share sold today is not bought again today.                 *)
LEMMA SoldTodayIsBlocked ==
  ASSUME NEW h \in Seq(Trade), NEW d \in TaxLots!Days, TaxLots!On(d, "SELL", h) # {}
  PROVE  TaxLots!RecentlySold(h, d)
<1>1. PICK i \in TaxLots!Of("SELL", h) : h[i].day = d
  BY DEF TaxLots!On
<1>2. d - h[i].day \in 0 .. BedAndBreakfast
  BY <1>1, DaysAreFinite, TaxAssumption
<1> QED BY <1>2 DEF TaxLots!RecentlySold

LEMMA BuysBooked == ASSUME TaxBooks, TaxLots!Buy PROVE TaxBooks'
<1>1. PICK n \in 1 .. MaxLot, p \in Price :
        v3' = Append(v3, [day |-> v2, side |-> "BUY", qty |-> n, price |-> p])
  BY DEF TaxLots!Buy
<1> DEFINE t == [day |-> v2, side |-> "BUY", qty |-> n, price |-> p]
<1>2. /\ v1' = v1 /\ v2' = v2 /\ v4' = v4 /\ v3' = Append(v3, t)
      /\ v1 = "uk" => ~TaxLots!RecentlySold(v3, v2)
  BY <1>1 DEF TaxLots!Buy
<1>3. t \in Trade /\ t.day = v2 /\ t.side = "BUY"
  BY TaxAssumption DEF Trade, TaxBooks
<1>4. UpTo(v3', v2') /\ UpTo(v3, v2) /\ v3 \in Seq(Trade)
  BY BuysUpTo DEF TaxBooks, UpTo, Sound
<1> HIDE DEF t
<1>5. v1 = "uk" => NoBuyBack(v3')
  BY <1>2, <1>3, <1>4, NoBuyBackAfterPurchase DEF TaxBooks
<1>6. v4' # "no" => TaxLots!On(v2, "SELL", v3') # {}
  BY <1>2, <1>3, <1>4, TodayStaysSold DEF TaxBooks
<1>7. TaxLots!HarvestIsTaxFree'
  <2> SUFFICES ASSUME v4' = "even"
               PROVE  Allowance * TaxLots!Parts >= IF v1' = "uk" THEN TaxLots!NetGains(v3', v2')
                                                   ELSE TaxLots!LtAfterSetoff(v3', v2')
    BY DEF TaxLots!HarvestIsTaxFree
  <2>1. v1 # "uk"
    BY <1>2, <1>4, SoldTodayIsBlocked DEF TaxBooks
  <2>2. TaxLots!LtAfterSetoff(v3', v2') = TaxLots!LtAfterSetoff(v3, v2)
    BY <1>2, <1>3, <1>4, SetoffWithPurchase DEF UpTo
  <2>3. Allowance * TaxLots!Parts >= TaxLots!LtAfterSetoff(v3, v2)
    BY <1>2, <2>1 DEF TaxBooks, TaxLots!HarvestIsTaxFree
  <2> QED BY <1>2, <2>1, <2>2, <2>3
<1> QED BY <1>2, <1>4, <1>5, <1>6, <1>7 DEF TaxBooks

LEMMA SellsBooked == ASSUME TaxBooks, TaxLots!Sell PROVE TaxBooks'
<1>1. PICK n \in 1 .. TaxLots!Min({MaxLot, TaxLots!Held(v3)}), p \in Price :
        v3' = Append(v3, TaxLots!SaleOf(v2, n, p))
  BY DEF TaxLots!Sell
<1>2. v1' = v1 /\ v2' = v2 /\ v4' = "no"
  BY DEF TaxLots!Sell
<1>3. UpTo(v3', v2') /\ v3 \in Seq(Trade)
  BY SellsUpTo DEF TaxBooks, UpTo, Sound
<1>4. TaxLots!SaleOf(v2, n, p) \in Trade /\ TaxLots!SaleOf(v2, n, p).side = "SELL"
  <2>1. n \in Nat \ {0}
    BY SoldByTheShare DEF TaxBooks, UpTo
  <2> QED BY <2>1, SaleOfIsTrade DEF TaxBooks
<1>5. v1 = "uk" => NoBuyBack(v3')
  BY <1>1, <1>3, <1>4, NoBuyBackAfterSale DEF TaxBooks
<1> QED BY <1>2, <1>3, <1>5 DEF TaxBooks, TaxLots!HarvestIsTaxFree
(* A harvest is a sale that leaves no tax to pay.                          *)
LEMMA HarvestIsASale ==
  ASSUME NEW n \in Nat \ {0}, NEW p \in Price, v2 \in TaxLots!Days, v3 \in Seq(Trade),
         v3' = Append(v3, TaxLots!SaleOf(v2, n, p)), v2' = v2
  PROVE  TaxLots!On(v2', "SELL", v3') # {}
<1>1. TaxLots!SaleOf(v2, n, p) \in Trade /\ TaxLots!SaleOf(v2, n, p).day = v2
      /\ TaxLots!SaleOf(v2, n, p).side = "SELL"
  BY SaleOfIsTrade
<1> QED BY <1>1, TodayStaysSold

LEMMA UkHarvestBooked == ASSUME TaxBooks, TaxLots!Harvest, v1 = "uk" PROVE TaxBooks'
<1>1. PICK p \in Price :
        LET n == TaxLots!UkHarvestQty(v3, p, v2)
        IN n > 0 /\ TaxLots!FitsAllowance(v3, n, p, v2) /\ v3' = Append(v3, TaxLots!SaleOf(v2, n, p))
  BY Zenon DEF TaxLots!Harvest
<1>2. v1' = "uk" /\ v2' = v2 /\ v4' = "even" /\ TaxLots!On(v2, "SELL", v3) = {}
  BY DEF TaxLots!Harvest
<1>3. v2 \in TaxLots!Days /\ v3 \in Seq(Trade) /\ Sound(v3) /\ NoBuyBack(v3) /\ UkBooks(v3, v2)
  BY DEF TaxBooks, UpTo, Sound, UkBooks
<1> DEFINE n == TaxLots!UkHarvestQty(v3, p, v2)
<1>4. n > 0 /\ TaxLots!FitsAllowance(v3, n, p, v2) /\ v3' = Append(v3, TaxLots!SaleOf(v2, n, p))
  BY <1>1
<1>5. n \in Int
  BY <1>3, UkHarvestIsHeld
<1>6. UkBooks(v3', v2) /\ TaxLots!NetGains(v3', v2) <= Allowance * TaxLots!Parts
  BY <1>2, <1>3, <1>4, UkHarvestIsFree
<1> HIDE DEF n
<1>7. n \in Nat \ {0}
  BY <1>4, <1>5
<1>8. TaxLots!On(v2', "SELL", v3') # {}
  BY <1>2, <1>3, <1>4, <1>7, HarvestIsASale
<1>9. TaxLots!NetGains(v3', v2) \in Int
  BY <1>2, <1>3, <1>6, NetGainsAreSummed DEF UkBooks, UpTo
<1> QED BY <1>2, <1>3, <1>6, <1>8, <1>9, TaxAssumption DEF TaxBooks, UkBooks, TaxLots!HarvestIsTaxFree

LEMMA IndiaHarvestBooked == ASSUME TaxBooks, TaxLots!Harvest, v1 # "uk" PROVE TaxBooks'
<1>1. PICK p \in Price : LET n == TaxLots!HarvestQty(v3, p, v2)
                         IN n > 0 /\ v3' = Append(v3, TaxLots!SaleOf(v2, n, p))
  BY Zenon DEF TaxLots!Harvest
<1>2. /\ v1' = v1 /\ v2' = v2
      /\ v4' = IF TaxLots!OnePrice(v3, TaxLots!OpenLots(v3)) THEN "even" ELSE "uneven"
  BY DEF TaxLots!Harvest
<1>3. v2 \in TaxLots!Days /\ v3 \in Seq(Trade) /\ Sound(v3) /\ UpTo(v3, v2)
  BY DEF TaxBooks, UpTo, Sound
<1> DEFINE n == TaxLots!HarvestQty(v3, p, v2)
<1>4. n > 0 /\ v3' = Append(v3, TaxLots!SaleOf(v2, n, p))
  BY <1>1
<1>5. n \in Nat
  BY <1>3, HarvestIsHeld DEF Harvests
<1>6. /\ UpTo(v3', v2)
      /\ TaxLots!OnePrice(v3, TaxLots!OpenLots(v3)) => TaxLots!LtAfterSetoff(v3', v2) <= Allowance * TaxLots!Parts
  BY <1>3, <1>4, IndiaHarvestIsFree
<1> HIDE DEF n
<1>7. n \in Nat \ {0}
  BY <1>4, <1>5
<1>8. TaxLots!On(v2', "SELL", v3') # {}
  BY <1>2, <1>3, <1>4, <1>7, HarvestIsASale
<1>9. v4' = "even" => Allowance * TaxLots!Parts >= TaxLots!LtAfterSetoff(v3', v2')
  BY <1>2, <1>6
<1> QED BY <1>2, <1>3, <1>6, <1>8, <1>9 DEF TaxBooks, TaxLots!HarvestIsTaxFree

LEMMA TomorrowBooked == ASSUME TaxBooks, TaxLots!NextDay PROVE TaxBooks'
<1>1. v1' = v1 /\ v3' = v3 /\ v4' = "no" /\ v2' \in TaxLots!Days
  BY TaxAssumption DEF TaxBooks, TaxLots!NextDay, TaxLots!Days
<1>2. UpTo(v3', v2')
  BY AnotherDayUpTo DEF TaxBooks
<1> QED BY <1>1, <1>2 DEF TaxBooks, TaxLots!HarvestIsTaxFree

LEMMA TaxLotsStep == ASSUME TaxBooks, NextTaxLots PROVE TaxBooks'
  BY BuysBooked, SellsBooked, UkHarvestBooked, IndiaHarvestBooked, TomorrowBooked DEF NextTaxLots

(* From the first state on, and through every step of the day.             *)
LEMMA TaxBooksHold == Spec => [](focus = "tax" => TaxBooks)
<1> DEFINE Inv == focus = "tax" => TaxBooks
<1>1. Init => Inv
  BY WhoStarts, TaxLotsInit DEF Init, InitTaxLots
<1>2. Inv /\ [Next]_vars => Inv'
  <2> SUFFICES ASSUME Inv, [Next]_vars, focus' = "tax" PROVE TaxBooks'
    OBVIOUS
  <2>1. TaxBooks
    BY FocusStays
  <2>2. CASE Next
    <3>1. NextTaxLots
      BY <2>2, WhoSteps DEF Next
    <3> QED BY <2>1, <3>1, TaxLotsStep
  <2>3. CASE UNCHANGED vars
    BY <2>1, <2>3 DEF vars, TaxBooks, TaxLots!HarvestIsTaxFree
  <2> QED BY <2>2, <2>3
<1> QED BY <1>1, <1>2, PTL DEF Spec

(* The first-in-first-out replay sells the k-th share bought as the k-th   *)
(* share sold: for every history the ledger can hold, the gains of every   *)
(* sale and what is left of every purchase are those of the shares whose   *)
(* numbers they have in common.                                            *)
THEOREM FifoHolds == Spec => []FifoIsShareByShare
<1>1. (focus = "tax" => TaxBooks) => FifoIsShareByShare
  BY SoundIsShareByShare DEF TaxBooks, UpTo, FifoIsShareByShare
<1> QED BY <1>1, TaxBooksHold, PTL

(* A harvest leaves no tax to pay: the year's net gain of the UK matching  *)
(* rules, or India's long-term gain after set-off where the open lots cost *)
(* the same, stays within the allowance for every history and allowance.   *)
THEOREM HarvestsAreTaxFree == Spec => []HarvestIsTaxFree
<1>1. (focus = "tax" => TaxBooks) => HarvestIsTaxFree
  BY DEF TaxBooks, HarvestIsTaxFree
<1> QED BY <1>1, TaxBooksHold, PTL

-----------------------------------------------------------------------------
(* The types of all parts, those of TaxLots first.                         *)

LEMMA TaxLotsTypes ==
  ASSUME TaxBooks
  PROVE  TaxLots!TypeOK
<1>1. v1 \in {"india", "uk"} /\ v2 \in TaxLots!Days /\ v4 \in {"no", "even", "uneven"} /\ Sound(v3)
  BY DEF TaxBooks, UpTo
<1>2. v3 \in Seq([day : TaxLots!Days, side : {"BUY", "SELL"}, qty : Nat \ {0}, price : Price])
  BY <1>1 DEF Sound, Trade
<1>3. TaxLots!Held(v3) \in Nat
  BY <1>1, HeldIsNat
<1> QED BY <1>1, <1>2, <1>3 DEF TaxLots!TypeOK

(* What the variables of every part are, with the facts their types need.  *)
FleetTyped ==
  /\ focus = "growth_in" => GrowthTyped
  /\ focus = "funding_uk" => FundingTyped
  /\ focus = "planner_uk" => CyclesTyped
  /\ focus = "training" => Training!TypeOK
  /\ focus = "nominations" => Nominations!TypeOK
  /\ focus = "blocklist" => BlocklistTyped
  /\ focus = "regime" => Regime!TypeOK
  /\ focus = "features" => FeatureLog!TypeOK
  /\ focus = "flow" => FlowTrader!TypeOK
  /\ focus = "inputs" => ScanInputs!TypeOK
  /\ focus = "session" => TradeDay!TypeOK
  /\ focus = "sizing" => SizesTyped
  /\ focus = "health" => AgentHealth!TypeOK
  /\ focus = "stream" => KiteStream!TypeOK
  /\ focus = "ledger" => TradeLedger!TypeOK
  /\ focus = "pnl" => DayPnl!TypeOK
  /\ focus = "learning" => LearnedTyped
  /\ focus = "model" => ModelTyped

(* The invariants of the parts that the steps of their types rest on.      *)
FleetKept ==
  /\ focus = "growth_in" => GrowthCycle!OwedIsPending
  /\ focus = "funding_uk" => UkFunding!FundingInv
  /\ focus = "planner_uk" => UkPlanner!OneFundPlanned
  /\ focus = "regime" => Regime!HysteresisHolds
  /\ focus = "features" => FeatureLog!WriterIsAlone
  /\ focus = "sizing" => Sizing!HeatIsSpent
  /\ focus = "ledger" => TradeLedger!LedgerHolds
  /\ focus = "pnl" => DayPnl!DayIsAccounted
  /\ focus = "learning" => Learning!LearningHolds
  /\ focus = "planner_in" => InPlanner!SectorsPlanned
  /\ focus = "tax" => TaxBooks

LEMMA KeptThroughout == Spec => []FleetKept
<1>1. /\ (focus = "growth_in" => GrowthCycle!OwedIsPending)
      /\ (focus = "funding_uk" => UkFunding!FundingInv)
      /\ (focus = "planner_uk" => UkPlanner!OneFundPlanned)
      /\ (focus = "regime" => Regime!HysteresisHolds)
      /\ (focus = "features" => FeatureLog!WriterIsAlone)
      /\ (focus = "sizing" => Sizing!HeatIsSpent)
      /\ (focus = "ledger" => TradeLedger!LedgerHolds)
      /\ (focus = "pnl" => DayPnl!DayIsAccounted)
      /\ (focus = "learning" => Learning!LearningHolds)
      /\ (focus = "planner_in" => InPlanner!SectorsPlanned)
      /\ (focus = "tax" => TaxBooks)
      => FleetKept
  BY DEF FleetKept
<1> QED BY <1>1, OwedPending, FundingKept, OneFundKept, DirectivesCounted, WriterKept, HeatKept,
           LedgerKept, DaysAccounted, LearningKept, SectorsKept, TaxBooksHold, PTL

LEMMA TypedAtFirst == ASSUME Init, FleetKept PROVE FleetTyped
<1>1. CASE focus = "growth_in"
  <2>1. GrowthCycle!Init
    BY <1>1, WhoStarts DEF Init, InitGrowthCycle
  <2>2. GrowthTyped
    BY <2>1, GrowthTypesInit
  <2> QED BY <1>1, <2>2 DEF FleetTyped
<1>2. CASE focus = "funding_uk"
  <2>1. UkFunding!Init
    BY <1>2, WhoStarts DEF Init, InitUkFunding
  <2>2. FundingTyped
    BY <2>1, FundingTypesInit
  <2> QED BY <1>2, <2>2 DEF FleetTyped
<1>3. CASE focus = "planner_uk"
  <2>1. UkPlanner!Init
    BY <1>3, WhoStarts DEF Init, InitUkPlanner
  <2>2. CyclesTyped
    BY <2>1, UkPlannerTypesInit
  <2> QED BY <1>3, <2>2 DEF FleetTyped
<1>4. CASE focus = "training"
  <2>1. Training!Init
    BY <1>4, WhoStarts DEF Init, InitTraining
  <2>2. Training!TypeOK
    BY <2>1, TrainingTypesInit
  <2> QED BY <1>4, <2>2 DEF FleetTyped
<1>5. CASE focus = "nominations"
  <2>1. Nominations!Init
    BY <1>5, WhoStarts DEF Init, InitNominations
  <2>2. Nominations!TypeOK
    BY <2>1, NominationsTypesInit
  <2> QED BY <1>5, <2>2 DEF FleetTyped
<1>6. CASE focus = "blocklist"
  <2>1. Blocklist!Init
    BY <1>6, WhoStarts DEF Init, InitBlocklist
  <2>2. BlocklistTyped
    BY <2>1, BlocklistTypesInit
  <2> QED BY <1>6, <2>2 DEF FleetTyped
<1>7. CASE focus = "regime"
  <2>1. Regime!Init
    BY <1>7, WhoStarts DEF Init, InitRegime
  <2>2. Regime!TypeOK
    BY <2>1, RegimeTypesInit
  <2> QED BY <1>7, <2>2 DEF FleetTyped
<1>8. CASE focus = "features"
  <2>1. FeatureLog!Init
    BY <1>8, WhoStarts DEF Init, InitFeatureLog
  <2>2. FeatureLog!TypeOK
    BY <2>1, FeatureTypesInit
  <2> QED BY <1>8, <2>2 DEF FleetTyped
<1>9. CASE focus = "flow"
  <2>1. FlowTrader!Init
    BY <1>9, WhoStarts DEF Init, InitFlowTrader
  <2>2. FlowTrader!TypeOK
    BY <2>1, FlowTypesInit
  <2> QED BY <1>9, <2>2 DEF FleetTyped
<1>10. CASE focus = "inputs"
  <2>1. ScanInputs!Init
    BY <1>10, WhoStarts DEF Init, InitScanInputs
  <2>2. ScanInputs!TypeOK
    BY <2>1, InputTypesInit
  <2> QED BY <1>10, <2>2 DEF FleetTyped
<1>11. CASE focus = "session"
  <2>1. TradeDay!Init
    BY <1>11, WhoStarts DEF Init, InitTradeDay
  <2>2. TradeDay!TypeOK
    BY <2>1, DayTypesInit
  <2> QED BY <1>11, <2>2 DEF FleetTyped
<1>12. CASE focus = "sizing"
  <2>1. Sizing!Init
    BY <1>12, WhoStarts DEF Init, InitSizing
  <2>2. SizesTyped
    BY <2>1, SizesTypedInit
  <2> QED BY <1>12, <2>2 DEF FleetTyped
<1>13. CASE focus = "health"
  <2>1. AgentHealth!Init
    BY <1>13, WhoStarts DEF Init, InitAgentHealth
  <2>2. AgentHealth!TypeOK
    BY <2>1, AgentHealthInit
  <2> QED BY <1>13, <2>2 DEF FleetTyped
<1>14. CASE focus = "stream"
  <2>1. KiteStream!Init
    BY <1>14, WhoStarts DEF Init, InitKiteStream
  <2>2. KiteStream!TypeOK
    BY <2>1, KiteStreamTypesInit
  <2> QED BY <1>14, <2>2 DEF FleetTyped
<1>15. CASE focus = "ledger"
  <2>1. TradeLedger!Init
    BY <1>15, WhoStarts DEF Init, InitTradeLedger
  <2>2. TradeLedger!TypeOK
    BY <2>1, LedgerTypesInit
  <2> QED BY <1>15, <2>2 DEF FleetTyped
<1>16. CASE focus = "pnl"
  <2>1. DayPnl!Init
    BY <1>16, WhoStarts DEF Init, InitDayPnl
  <2>2. DayPnl!TypeOK
    BY <2>1, PnlTypesInit
  <2> QED BY <1>16, <2>2 DEF FleetTyped
<1>17. CASE focus = "learning"
  <2>1. Learning!Init
    BY <1>17, WhoStarts DEF Init, InitLearning
  <2>2. Learning!LearningHolds
    BY <1>17 DEF FleetKept
  <2>3. LearnedTyped
    BY <2>1, <2>2, LearningTypesInit
  <2> QED BY <1>17, <2>3 DEF FleetTyped
<1>18. CASE focus = "model"
  <2>1. ModelGate!Init
    BY <1>18, WhoStarts DEF Init, InitModelGate
  <2>2. ModelTyped
    BY <2>1, ModelTypesInit
  <2> QED BY <1>18, <2>2 DEF FleetTyped
<1> QED BY <1>1, <1>2, <1>3, <1>4, <1>5, <1>6, <1>7, <1>8, <1>9, <1>10, <1>11, <1>12, <1>13, <1>14,
           <1>15, <1>16, <1>17, <1>18 DEF FleetTyped

LEMMA TypedAfterStep == ASSUME FleetTyped, FleetKept, Next PROVE FleetTyped'
<1>1. CASE focus = "growth_in"
  <2>1. NextGrowthCycle /\ focus' = focus
    BY <1>1, WhoSteps DEF Next
  <2>2. GrowthTyped /\ GrowthCycle!OwedIsPending
    BY <1>1 DEF FleetTyped, FleetKept
  <2>3. GrowthTyped'
    BY <2>1, <2>2, GrowthTypes
  <2> QED BY <1>1, <2>1, <2>3 DEF FleetTyped
<1>2. CASE focus = "funding_uk"
  <2>1. NextUkFunding /\ focus' = focus
    BY <1>2, WhoSteps DEF Next
  <2>2. FundingTyped /\ UkFunding!FundingInv
    BY <1>2 DEF FleetTyped, FleetKept
  <2>3. FundingTyped'
    BY <2>1, <2>2, FundingTypes
  <2> QED BY <1>2, <2>1, <2>3 DEF FleetTyped
<1>3. CASE focus = "planner_uk"
  <2>1. NextUkPlanner /\ focus' = focus
    BY <1>3, WhoSteps DEF Next
  <2>2. CyclesTyped /\ UkPlanner!OneFundPlanned
    BY <1>3 DEF FleetTyped, FleetKept
  <2>3. CyclesTyped'
    BY <2>1, <2>2, UkPlannerTypes
  <2> QED BY <1>3, <2>1, <2>3 DEF FleetTyped
<1>4. CASE focus = "training"
  <2>1. NextTraining /\ focus' = focus
    BY <1>4, WhoSteps DEF Next
  <2>2. Training!TypeOK
    BY <1>4 DEF FleetTyped
  <2>3. Training!TypeOK'
    BY <2>1, <2>2, TrainingTypes
  <2> QED BY <1>4, <2>1, <2>3 DEF FleetTyped
<1>5. CASE focus = "nominations"
  <2>1. NextNominations /\ focus' = focus
    BY <1>5, WhoSteps DEF Next
  <2>2. Nominations!TypeOK
    BY <1>5 DEF FleetTyped
  <2>3. Nominations!TypeOK'
    BY <2>1, <2>2, NominationsTypes
  <2> QED BY <1>5, <2>1, <2>3 DEF FleetTyped
<1>6. CASE focus = "blocklist"
  <2>1. NextBlocklist /\ focus' = focus
    BY <1>6, WhoSteps DEF Next
  <2>2. BlocklistTyped
    BY <1>6 DEF FleetTyped
  <2>3. BlocklistTyped'
    BY <2>1, <2>2, BlocklistTypes
  <2> QED BY <1>6, <2>1, <2>3 DEF FleetTyped
<1>7. CASE focus = "regime"
  <2>1. NextRegime /\ focus' = focus
    BY <1>7, WhoSteps DEF Next
  <2>2. Regime!TypeOK /\ Regime!HysteresisHolds
    BY <1>7 DEF FleetTyped, FleetKept
  <2>3. Regime!TypeOK'
    BY <2>1, <2>2, RegimeTypes
  <2> QED BY <1>7, <2>1, <2>3 DEF FleetTyped
<1>8. CASE focus = "features"
  <2>1. NextFeatureLog /\ focus' = focus
    BY <1>8, WhoSteps DEF Next
  <2>2. FeatureLog!TypeOK /\ FeatureLog!WriterIsAlone
    BY <1>8 DEF FleetTyped, FleetKept
  <2>3. FeatureLog!TypeOK'
    BY <2>1, <2>2, FeatureTypes
  <2> QED BY <1>8, <2>1, <2>3 DEF FleetTyped
<1>9. CASE focus = "flow"
  <2>1. NextFlowTrader /\ focus' = focus
    BY <1>9, WhoSteps DEF Next
  <2>2. FlowTrader!TypeOK
    BY <1>9 DEF FleetTyped
  <2>3. FlowTrader!TypeOK'
    BY <2>1, <2>2, FlowTypes
  <2> QED BY <1>9, <2>1, <2>3 DEF FleetTyped
<1>10. CASE focus = "inputs"
  <2>1. NextScanInputs /\ focus' = focus
    BY <1>10, WhoSteps DEF Next
  <2>2. ScanInputs!TypeOK
    BY <1>10 DEF FleetTyped
  <2>3. ScanInputs!TypeOK'
    BY <2>1, <2>2, InputTypes
  <2> QED BY <1>10, <2>1, <2>3 DEF FleetTyped
<1>11. CASE focus = "session"
  <2>1. NextTradeDay /\ focus' = focus
    BY <1>11, WhoSteps DEF Next
  <2>2. TradeDay!TypeOK
    BY <1>11 DEF FleetTyped
  <2>3. TradeDay!TypeOK'
    BY <2>1, <2>2, DayTypes
  <2> QED BY <1>11, <2>1, <2>3 DEF FleetTyped
<1>12. CASE focus = "sizing"
  <2>1. NextSizing /\ focus' = focus
    BY <1>12, WhoSteps DEF Next
  <2>2. SizesTyped /\ Sizing!HeatIsSpent
    BY <1>12 DEF FleetTyped, FleetKept
  <2>3. SizesTyped'
    BY <2>1, <2>2, SizingTypes
  <2> QED BY <1>12, <2>1, <2>3 DEF FleetTyped
<1>13. CASE focus = "health"
  <2>1. NextAgentHealth /\ focus' = focus
    BY <1>13, WhoSteps DEF Next
  <2>2. AgentHealth!TypeOK
    BY <1>13 DEF FleetTyped
  <2>3. AgentHealth!TypeOK'
    BY <2>1, <2>2, AgentHealthTypes
  <2> QED BY <1>13, <2>1, <2>3 DEF FleetTyped
<1>14. CASE focus = "stream"
  <2>1. NextKiteStream /\ focus' = focus
    BY <1>14, WhoSteps DEF Next
  <2>2. KiteStream!TypeOK
    BY <1>14 DEF FleetTyped
  <2>3. KiteStream!TypeOK'
    BY <2>1, <2>2, KiteStreamTypes
  <2> QED BY <1>14, <2>1, <2>3 DEF FleetTyped
<1>15. CASE focus = "ledger"
  <2>1. NextTradeLedger /\ focus' = focus
    BY <1>15, WhoSteps DEF Next
  <2>2. TradeLedger!TypeOK /\ TradeLedger!LedgerHolds
    BY <1>15 DEF FleetTyped, FleetKept
  <2>3. TradeLedger!TypeOK'
    BY <2>1, <2>2, LedgerTypes
  <2> QED BY <1>15, <2>1, <2>3 DEF FleetTyped
<1>16. CASE focus = "pnl"
  <2>1. NextDayPnl /\ focus' = focus
    BY <1>16, WhoSteps DEF Next
  <2>2. DayPnl!TypeOK /\ DayPnl!DayIsAccounted
    BY <1>16 DEF FleetTyped, FleetKept
  <2>3. DayPnl!TypeOK'
    BY <2>1, <2>2, PnlTypes
  <2> QED BY <1>16, <2>1, <2>3 DEF FleetTyped
<1>17. CASE focus = "learning"
  <2>1. NextLearning /\ focus' = focus
    BY <1>17, WhoSteps DEF Next
  <2>2. LearnedTyped /\ Learning!LearningHolds
    BY <1>17 DEF FleetTyped, FleetKept
  <2>3. LearnedTyped'
    BY <2>1, <2>2, LearningTypes
  <2> QED BY <1>17, <2>1, <2>3 DEF FleetTyped
<1>18. CASE focus = "model"
  <2>1. NextModelGate /\ focus' = focus
    BY <1>18, WhoSteps DEF Next
  <2>2. ModelTyped
    BY <1>18 DEF FleetTyped
  <2>3. ModelTyped'
    BY <2>1, <2>2, ModelTypes
  <2> QED BY <1>18, <2>1, <2>3 DEF FleetTyped
<1>19. focus' = focus
  BY WhoSteps DEF Next
<1> QED BY <1>1, <1>2, <1>3, <1>4, <1>5, <1>6, <1>7, <1>8, <1>9, <1>10, <1>11, <1>12, <1>13, <1>14,
           <1>15, <1>16, <1>17, <1>18, <1>19 DEF FleetTyped

LEMMA TypedAtRest == ASSUME FleetTyped, UNCHANGED vars PROVE FleetTyped'
<1>1. ASSUME GrowthTyped PROVE GrowthTyped'
  BY <1>1 DEF vars, GrowthTyped, OrderIsOut, SalesCovered, GrowthCycle!Ongoing
<1>2. ASSUME FundingTyped PROVE FundingTyped'
  BY <1>2 DEF vars, FundingTyped, Told, SaleIsHeld
<1>3. ASSUME CyclesTyped PROVE CyclesTyped'
  BY <1>3 DEF vars, CyclesTyped
<1>4. ASSUME Training!TypeOK PROVE Training!TypeOK'
  BY <1>4 DEF vars, Training!TypeOK, Training!SchedulerTypeOK, Training!ClockTypeOK
<1>5. ASSUME Nominations!TypeOK PROVE Nominations!TypeOK'
  BY <1>5 DEF vars, Nominations!TypeOK, Nominations!SchedulerTypeOK, Nominations!ClockTypeOK
<1>6. ASSUME BlocklistTyped PROVE BlocklistTyped'
  BY <1>6 DEF vars, BlocklistTyped, JudgementsTyped, Blocklist!ClockTypeOK
<1>7. ASSUME Regime!TypeOK PROVE Regime!TypeOK'
  BY <1>7 DEF vars, Regime!TypeOK
<1>8. ASSUME FeatureLog!TypeOK PROVE FeatureLog!TypeOK'
  BY <1>8 DEF vars, FeatureLog!TypeOK
<1>9. ASSUME FlowTrader!TypeOK PROVE FlowTrader!TypeOK'
  BY <1>9 DEF vars, FlowTrader!TypeOK
<1>10. ASSUME ScanInputs!TypeOK PROVE ScanInputs!TypeOK'
  BY <1>10 DEF vars, ScanInputs!TypeOK
<1>11. ASSUME TradeDay!TypeOK PROVE TradeDay!TypeOK'
  BY <1>11 DEF vars, TradeDay!TypeOK, TradeDay!Today
<1>12. ASSUME SizesTyped PROVE SizesTyped'
  BY <1>12 DEF vars, SizesTyped
<1>13. ASSUME AgentHealth!TypeOK PROVE AgentHealth!TypeOK'
  BY <1>13 DEF vars, AgentHealth!TypeOK
<1>14. ASSUME KiteStream!TypeOK PROVE KiteStream!TypeOK'
  BY <1>14 DEF vars, KiteStream!TypeOK
<1>15. ASSUME TradeLedger!TypeOK PROVE TradeLedger!TypeOK'
  BY <1>15 DEF vars, TradeLedger!TypeOK
<1>16. ASSUME DayPnl!TypeOK PROVE DayPnl!TypeOK'
  BY <1>16 DEF vars, DayPnl!TypeOK
<1>17. ASSUME LearnedTyped PROVE LearnedTyped'
  BY <1>17 DEF vars, LearnedTyped, Learning!TypeOK
<1>18. ASSUME ModelTyped PROVE ModelTyped'
  BY <1>18 DEF vars, ModelTyped, ModelGate!TypeOK
<1> QED BY <1>1, <1>2, <1>3, <1>4, <1>5, <1>6, <1>7, <1>8, <1>9, <1>10, <1>11, <1>12, <1>13, <1>14,
           <1>15, <1>16, <1>17, <1>18 DEF FleetTyped, vars

(* The variables of every part are of their types for all values of the    *)
(* constants: quantities the bots hold and the shares of an account are    *)
(* never negative, counters stay within what bounds them, and a plan, a    *)
(* list, a file or a ledger is about things there are.                     *)
THEOREM TypesHold == Spec => []TypeOK
<1>1. Init /\ FleetKept => FleetTyped
  BY TypedAtFirst
<1>2. FleetTyped /\ FleetKept /\ [Next]_vars => FleetTyped'
  BY TypedAfterStep, TypedAtRest
<1>3. FleetTyped /\ FleetKept => TypeOK
  <2> SUFFICES ASSUME FleetTyped, FleetKept PROVE TypeOK
    OBVIOUS
  <2>1. focus = "growth_in" => GrowthCycle!TypeOK
    BY GrowthIsTyped DEF FleetTyped, FleetKept
  <2>2. focus = "funding_uk" => UkFunding!TypeOK
    BY FundingIsTyped DEF FleetTyped, FleetKept
  <2>3. focus = "planner_uk" => UkPlanner!TypeOK
    BY UkPlannerTyped DEF FleetTyped, FleetKept
  <2>4. focus = "planner_in" => InPlanner!TypeOK
    BY InPlannerTypes DEF FleetTyped, FleetKept
  <2>5. focus = "tax" => TaxLots!TypeOK
    BY TaxLotsTypes DEF FleetTyped, FleetKept
  <2>6. focus = "blocklist" => Blocklist!TypeOK
    BY BlocklistIsTyped DEF FleetTyped, FleetKept
  <2>7. focus = "learning" => Learning!TypeOK
    BY DEF FleetTyped, FleetKept, LearnedTyped
  <2>8. focus = "model" => ModelGate!TypeOK
    BY DEF FleetTyped, FleetKept, ModelTyped
  <2>9. focus = "sizing" => Sizing!TypeOK
    BY SizesAreTyped DEF FleetTyped, FleetKept, Sizing!HeatIsSpent
  <2> QED BY <2>1, <2>2, <2>3, <2>4, <2>5, <2>6, <2>7, <2>8, <2>9 DEF FleetTyped, TypeOK
<1> QED BY <1>1, <1>2, <1>3, KeptThroughout, PTL DEF Spec
=============================================================================
