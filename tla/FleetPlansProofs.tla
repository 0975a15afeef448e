--------------------------- MODULE FleetPlansProofs ---------------------------
(***************************************************************************)
(* More theorems about the parts of MCFleet, in the manner of FleetProofs: *)
(* what the growth bots plan, what becomes of their plans, and how large a *)
(* purchase the decision engine makes.                                     *)
(***************************************************************************)
EXTENDS FleetProofs

(* A family of subsets of a finite set has a smallest member: induction    *)
(* over finite sets, as a statement about one family.                      *)
LEMMA SmallestOf ==
  ASSUME NEW F, IsFiniteSet(F), NEW T \in SUBSET (SUBSET F), T # {}
  PROVE  \E S \in T : \A U \in T : U \subseteq S => U = S
<1> DEFINE R == StrictSubsetOrdering(F)
<1>1. T \subseteq FiniteSubsetsOf(F)
  BY FS_FiniteSubsetsOfFinite
<1>2. IsWellFoundedOn(R, FiniteSubsetsOf(F))
  BY FS_StrictSubsetOrderingWellFounded
<1> HIDE DEF R
<1>3. PICK S \in T : \A U \in T : <<U, S>> \notin R
  BY <1>1, <1>2, WFMin
<1>4. ASSUME NEW U \in T, U \subseteq S PROVE U = S
  BY <1>3, <1>4 DEF R, StrictSubsetOrdering
<1> QED BY <1>4

-----------------------------------------------------------------------------
(* The India growth bot (GrowthCycle).  What a plan asks for, ticker by    *)
(* ticker, and the orders it becomes.                                      *)

LEMMA UpToIsNatural ==
  ASSUME NEW f, NEW g \in GrowthCycle!UpTo(f), NEW t \in Ticker
  PROVE  g[t] \in Nat /\ g[t] <= f[t]
<1> DEFINE M == GrowthCycle!Max(GrowthCycle!Range(f) \cup {0})
<1>1. g \in [Ticker -> 0 .. M] /\ g[t] <= f[t]
  BY DEF GrowthCycle!UpTo
<1> HIDE DEF M
<1>2. g[t] \in 0 .. M
  BY <1>1
<1> QED BY <1>1, <1>2

LEMMA PlanByTicker ==
  ASSUME NEW l, NEW cash, NEW priced, NEW p \in GrowthCycle!Plans(l, cash, priced), NEW t \in Ticker
  PROVE  /\ p.sale[t] \in Nat /\ p.harvest[t] \in Nat /\ p.back[t] \in Nat /\ p.invest[t] \in Nat
         /\ p.harvest[t] = 0 \/ p.sale[t] = 0
         /\ p.sale[t] <= l.qty[t] /\ p.harvest[t] <= l.qty[t]
         /\ p.back[t] <= l.rebuy[t]
         /\ p.invest[t] > 0 => l.rebuy[t] = 0
<1>1. /\ \E s \in GrowthCycle!UpTo(l.qty) :
           p \in [sale : {s}, harvest : GrowthCycle!UpTo(l.qty), back : GrowthCycle!UpTo(l.rebuy),
                  invest : GrowthCycle!UpTo([u \in Ticker |->
                    GrowthCycle!Budget(cash, [sale |-> s, harvest |-> GrowthCycle!Nothing])])]
      /\ p.harvest[t] = 0 \/ p.sale[t] = 0
      /\ GrowthCycle!InvestOK(l, cash, p, priced)
  BY DEF GrowthCycle!Plans
<1>2. PICK s \in GrowthCycle!UpTo(l.qty) :
        p \in [sale : {s}, harvest : GrowthCycle!UpTo(l.qty), back : GrowthCycle!UpTo(l.rebuy),
               invest : GrowthCycle!UpTo([u \in Ticker |->
                 GrowthCycle!Budget(cash, [sale |-> s, harvest |-> GrowthCycle!Nothing])])]
  BY <1>1
<1> DEFINE B == [u \in Ticker |-> GrowthCycle!Budget(cash, [sale |-> s, harvest |-> GrowthCycle!Nothing])]
<1>3. /\ p.sale \in GrowthCycle!UpTo(l.qty) /\ p.harvest \in GrowthCycle!UpTo(l.qty)
      /\ p.back \in GrowthCycle!UpTo(l.rebuy) /\ p.invest \in GrowthCycle!UpTo(B)
  BY <1>2
<1>4. p.invest[t] > 0 => l.rebuy[t] = 0
  BY <1>1 DEF GrowthCycle!InvestOK
<1> QED BY <1>1, <1>3, <1>4, UpToIsNatural

LEMMA OrdersByTicker ==
  ASSUME NEW side, NEW why, NEW f
  PROVE  /\ \A o \in GrowthCycle!Orders(side, why, f) :
              /\ o = [side |-> side, why |-> why, t |-> o.t, q |-> f[o.t], left |-> f[o.t]]
              /\ o.side = side /\ o.why = why /\ o.t \in Ticker /\ f[o.t] > 0 /\ o.q = f[o.t] /\ o.left = f[o.t]
         /\ \A t \in Ticker : f[t] > 0 => \E o \in GrowthCycle!Orders(side, why, f) : o.t = t /\ o.why = why
<1>1. GrowthCycle!Orders(side, why, f) =
        {[side |-> side, why |-> why, t |-> t, q |-> f[t], left |-> f[t]] : t \in {u \in Ticker : f[u] > 0}}
  BY DEF GrowthCycle!Orders
<1>2. ASSUME NEW o \in GrowthCycle!Orders(side, why, f)
      PROVE  /\ o = [side |-> side, why |-> why, t |-> o.t, q |-> f[o.t], left |-> f[o.t]]
             /\ o.side = side /\ o.why = why /\ o.t \in Ticker /\ f[o.t] > 0 /\ o.q = f[o.t] /\ o.left = f[o.t]
  <2>1. PICK t \in Ticker : f[t] > 0 /\ o = [side |-> side, why |-> why, t |-> t, q |-> f[t], left |-> f[t]]
    BY <1>1, <1>2
  <2> QED BY <2>1
<1>3. ASSUME NEW t \in Ticker, f[t] > 0
      PROVE  \E o \in GrowthCycle!Orders(side, why, f) : o.t = t /\ o.why = why
  <2> DEFINE o == [side |-> side, why |-> why, t |-> t, q |-> f[t], left |-> f[t]]
  <2>1. o \in GrowthCycle!Orders(side, why, f) /\ o.t = t /\ o.why = why
    BY <1>1, <1>3
  <2> QED BY <2>1
<1> QED BY <1>2, <1>3

LEMMA OrdersOfAPlan ==
  ASSUME NEW p,
         \A t \in Ticker : p.sale[t] \in Nat /\ p.harvest[t] \in Nat /\ p.back[t] \in Nat /\ p.invest[t] \in Nat
  PROVE  /\ \A o \in GrowthCycle!OrdersOf(p) :
              /\ o \in GrowthCycle!OrderType /\ o.left = o.q
              /\ o.side = "BUY" <=> o.why \in {"buyback", "invest"}
              /\ o.q > 0
              /\ \/ o.why = "sale" /\ o.q = p.sale[o.t]
                 \/ o.why = "harvest" /\ o.q = p.harvest[o.t]
                 \/ o.why = "buyback" /\ o.q = p.back[o.t]
                 \/ o.why = "invest" /\ o.q = p.invest[o.t]
         /\ \A o, u \in GrowthCycle!OrdersOf(p) : o.t = u.t /\ o.why = u.why => o = u
         /\ \A t \in Ticker : p.harvest[t] > 0 => \E o \in GrowthCycle!OrdersOf(p) : o.t = t /\ o.why = "harvest"
         /\ \A t \in Ticker : p.back[t] > 0 => \E o \in GrowthCycle!OrdersOf(p) : o.t = t /\ o.why = "buyback"
<1> DEFINE S == GrowthCycle!Orders("SELL", "sale", p.sale)
           H == GrowthCycle!Orders("SELL", "harvest", p.harvest)
           B == GrowthCycle!Orders("BUY", "buyback", p.back)
           I == GrowthCycle!Orders("BUY", "invest", p.invest)
<1>1. GrowthCycle!OrdersOf(p) = S \cup H \cup B \cup I
  BY DEF GrowthCycle!OrdersOf
<1>2. \A o \in S : /\ o = [side |-> "SELL", why |-> "sale", t |-> o.t, q |-> p.sale[o.t], left |-> p.sale[o.t]]
                   /\ o.t \in Ticker /\ p.sale[o.t] > 0
  BY OrdersByTicker
<1>3. \A o \in H : /\ o = [side |-> "SELL", why |-> "harvest", t |-> o.t, q |-> p.harvest[o.t], left |-> p.harvest[o.t]]
                   /\ o.t \in Ticker /\ p.harvest[o.t] > 0
  BY OrdersByTicker
<1>4. \A o \in B : /\ o = [side |-> "BUY", why |-> "buyback", t |-> o.t, q |-> p.back[o.t], left |-> p.back[o.t]]
                   /\ o.t \in Ticker /\ p.back[o.t] > 0
  BY OrdersByTicker
<1>5. \A o \in I : /\ o = [side |-> "BUY", why |-> "invest", t |-> o.t, q |-> p.invest[o.t], left |-> p.invest[o.t]]
                   /\ o.t \in Ticker /\ p.invest[o.t] > 0
  BY OrdersByTicker
<1>6. /\ \A t \in Ticker : p.harvest[t] > 0 => \E o \in H : o.t = t /\ o.why = "harvest"
      /\ \A t \in Ticker : p.back[t] > 0 => \E o \in B : o.t = t /\ o.why = "buyback"
  <2>1. \A t \in Ticker : p.harvest[t] > 0 => \E o \in H : o.t = t /\ o.why = "harvest"
    BY OrdersByTicker
  <2>2. \A t \in Ticker : p.back[t] > 0 => \E o \in B : o.t = t /\ o.why = "buyback"
    BY OrdersByTicker
  <2> QED BY <2>1, <2>2
<1> HIDE DEF S, H, B, I
<1>7. ASSUME NEW o \in GrowthCycle!OrdersOf(p)
      PROVE  /\ o \in GrowthCycle!OrderType /\ o.left = o.q
             /\ o.side = "BUY" <=> o.why \in {"buyback", "invest"}
             /\ o.q > 0
             /\ \/ o.why = "sale" /\ o.q = p.sale[o.t] /\ o \in S
                \/ o.why = "harvest" /\ o.q = p.harvest[o.t] /\ o \in H
                \/ o.why = "buyback" /\ o.q = p.back[o.t] /\ o \in B
                \/ o.why = "invest" /\ o.q = p.invest[o.t] /\ o \in I
  <2>1. CASE o \in S
    BY <2>1, <1>2 DEF GrowthCycle!OrderType
  <2>2. CASE o \in H
    BY <2>2, <1>3 DEF GrowthCycle!OrderType
  <2>3. CASE o \in B
    BY <2>3, <1>4 DEF GrowthCycle!OrderType
  <2>4. CASE o \in I
    BY <2>4, <1>5 DEF GrowthCycle!OrderType
  <2> QED BY <1>1, <2>1, <2>2, <2>3, <2>4
<1>8. ASSUME NEW o \in GrowthCycle!OrdersOf(p), NEW u \in GrowthCycle!OrdersOf(p), o.t = u.t, o.why = u.why
      PROVE  o = u
  <2>1. CASE o \in S /\ u \in S
    BY <1>2, <1>8, <2>1
  <2>2. CASE o \in H /\ u \in H
    BY <1>3, <1>8, <2>2
  <2>3. CASE o \in B /\ u \in B
    BY <1>4, <1>8, <2>3
  <2>4. CASE o \in I /\ u \in I
    BY <1>5, <1>8, <2>4
  <2>5. \/ o \in S /\ u \in S
        \/ o \in H /\ u \in H
        \/ o \in B /\ u \in B
        \/ o \in I /\ u \in I
    BY <1>7, <1>8
  <2> QED BY <2>1, <2>2, <2>3, <2>4, <2>5
<1> QED BY <1>1, <1>6, <1>7, <1>8

(* What is owed at the start, and what a step that touches neither the     *)
(* list nor the cycle leaves owed.                                         *)
LEMMA GrowthCycleInit == GrowthCycle!Init => GrowthCycle!OwedIsPending
<1> SUFFICES ASSUME GrowthCycle!Init PROVE GrowthCycle!OwedIsPending
  OBVIOUS
<1>1. /\ v2 = [cash |-> 0, qty |-> GrowthCycle!Nothing, booked |-> FALSE, rebuy |-> GrowthCycle!Nothing]
      /\ v6 = GrowthCycle!Idle /\ v7 = {} /\ v8 = GrowthCycle!Nothing /\ v10 = {}
  BY DEF GrowthCycle!Init
<1>2. v6.at = "idle" /\ v6.todo = {} /\ v6.order = {} /\ v6.pending = GrowthCycle!Nothing
      /\ DOMAIN v6 = {"at", "todo", "pending", "order"}
  BY <1>1 DEF GrowthCycle!Idle
<1>3. GrowthCycle!Nothing \in [Ticker -> Nat] /\ GrowthCycle!Nothing \in [Ticker -> Int]
  BY DEF GrowthCycle!Nothing
<1>4. GrowthCycle!Ongoing = {}
  BY <1>2 DEF GrowthCycle!Ongoing
<1>5. GrowthCycle!CycleIsOrderly
  BY <1>1, <1>2, <1>3, <1>4 DEF GrowthCycle!CycleIsOrderly
<1>6. \A t \in Ticker : GrowthCycle!PendingIsOwed(t)
  BY <1>1, <1>2, <1>4 DEF GrowthCycle!PendingIsOwed
<1> QED BY <1>5, <1>6 DEF GrowthCycle!OwedIsPending

LEMMA ElsewhereOwed ==
  ASSUME GrowthCycle!OwedIsPending, UNCHANGED <<v6, v8, v9>>,
         v2'.rebuy = v2.rebuy, DOMAIN v2' = DOMAIN v2, v7' \subseteq GrowthCycle!OrderType,
         v10' \cap {"stale", "interrupted", "unrecorded"} = v10 \cap {"stale", "interrupted", "unrecorded"}
  PROVE  GrowthCycle!OwedIsPending'
<1>1. GrowthCycle!Ongoing' = GrowthCycle!Ongoing
  BY DEF GrowthCycle!Ongoing
<1>2. /\ "stale" \in v10' <=> "stale" \in v10
      /\ "interrupted" \in v10' <=> "interrupted" \in v10
      /\ GrowthCycle!Followed' <=> GrowthCycle!Followed
  BY DEF GrowthCycle!Followed
<1>3. GrowthCycle!CycleIsOrderly'
  BY <1>1, <1>2 DEF GrowthCycle!OwedIsPending, GrowthCycle!CycleIsOrderly
<1>4. \A t \in Ticker : GrowthCycle!PendingIsOwed(t) => GrowthCycle!PendingIsOwed(t)'
  BY <1>1 DEF GrowthCycle!PendingIsOwed, GrowthCycle!OrderExplains
<1> QED BY <1>2, <1>3, <1>4 DEF GrowthCycle!OwedIsPending

LEMMA WorldOwed ==
  ASSUME GrowthCycle!OwedIsPending,
         \/ GrowthCycle!SkipCycle \/ GrowthCycle!NextDay \/ GrowthCycle!MoneyLands
         \/ \E t \in Ticker : GrowthCycle!AgentBuys(t) \/ GrowthCycle!AgentSells(t)
  PROVE  GrowthCycle!OwedIsPending'
<1>1. /\ UNCHANGED <<v6, v8, v9>> /\ v7' \in {v7, {}}
      /\ v2' = v2 \/ \E b : v2' = [v2 EXCEPT !.booked = b]
      /\ v10' \in {v10, v10 \cup {"poached"}}
  BY DEF GrowthCycle!SkipCycle, GrowthCycle!NextDay, GrowthCycle!MoneyLands, GrowthCycle!AgentBuys, GrowthCycle!AgentSells
<1>2. v2'.rebuy = v2.rebuy /\ DOMAIN v2' = DOMAIN v2
  BY <1>1 DEF GrowthCycle!OwedIsPending, GrowthCycle!CycleIsOrderly
<1>3. v7' \subseteq GrowthCycle!OrderType
  BY <1>1 DEF GrowthCycle!OwedIsPending, GrowthCycle!CycleIsOrderly
<1>4. v10' \cap {"stale", "interrupted", "unrecorded"} = v10 \cap {"stale", "interrupted", "unrecorded"}
  BY <1>1
<1> QED BY <1>1, <1>2, <1>3, <1>4, ElsewhereOwed

(* The plan of a new cycle: a harvest of yesterday stays on the list or    *)
(* becomes an order, today's harvests are pending before they are sold.    *)
LEMMA StartOwed ==
  ASSUME GrowthCycle!OwedIsPending, GrowthCycle!StartCycle
  PROVE  GrowthCycle!OwedIsPending'
<1> DEFINE Outcome(p) ==
      /\ v6' = [at |-> "orders", todo |-> GrowthCycle!OrdersOf(p), pending |-> GrowthCycle!Carried(v2', p), order |-> {}]
      /\ v9' = v9 \cup {t \in Ticker : v2.rebuy[t] > 0 /\ p.sale[t] + p.harvest[t] > 0}
      /\ v8' = [t \in Ticker |-> IF t \in v9' \/ ~GrowthCycle!Followed THEN 0
                                   ELSE IF p.back[t] = 0 THEN v8[t]
                                   ELSE v8[t] - (v2.rebuy[t] - p.back[t])]
<1>1. /\ v6.at = "idle" /\ v2' = GrowthCycle!Booked(v2) /\ v10' = v10 \ {"stale"} /\ v7' = v7
      /\ \E readable \in BOOLEAN, priced \in {Ticker, {}} :
           \E p \in GrowthCycle!Plans(v2', GrowthCycle!CashFor(v2', readable), priced) : Outcome(p)
  BY Zenon DEF GrowthCycle!StartCycle
<1>2. PICK readable \in BOOLEAN, priced \in {Ticker, {}} :
         \E p \in GrowthCycle!Plans(v2', GrowthCycle!CashFor(v2', readable), priced) : Outcome(p)
  BY <1>1, Zenon
<1>3. PICK p \in GrowthCycle!Plans(v2', GrowthCycle!CashFor(v2', readable), priced) : Outcome(p)
  BY <1>2, Zenon
<1>4. GrowthCycle!CycleIsOrderly
  BY DEF GrowthCycle!OwedIsPending
<1>5. v2'.rebuy = v2.rebuy /\ DOMAIN v2' = {"cash", "qty", "booked", "rebuy"} /\ v2.rebuy \in [Ticker -> Nat]
  BY <1>1, <1>4 DEF GrowthCycle!Booked, GrowthCycle!CycleIsOrderly
<1>6. \A t \in Ticker : /\ p.sale[t] \in Nat /\ p.harvest[t] \in Nat /\ p.back[t] \in Nat /\ p.invest[t] \in Nat
                        /\ p.harvest[t] = 0 \/ p.sale[t] = 0
                        /\ p.back[t] <= v2.rebuy[t]
                        /\ p.invest[t] > 0 => v2.rebuy[t] = 0
  BY <1>5, PlanByTicker
<1>7. /\ v6'.at = "orders" /\ v6'.todo = GrowthCycle!OrdersOf(p) /\ v6'.order = {}
      /\ v6'.pending = [t \in Ticker |-> IF v2.rebuy[t] > 0 /\ p.back[t] = 0 THEN v2.rebuy[t] ELSE p.harvest[t]]
      /\ DOMAIN v6' = {"at", "todo", "pending", "order"}
      /\ GrowthCycle!Ongoing' = GrowthCycle!OrdersOf(p)
  BY <1>3, <1>5 DEF GrowthCycle!Carried, GrowthCycle!Ongoing
<1>8. /\ \A o \in GrowthCycle!OrdersOf(p) :
              /\ o \in GrowthCycle!OrderType /\ o.left = o.q
              /\ o.side = "BUY" <=> o.why \in {"buyback", "invest"}
              /\ o.q > 0
              /\ \/ o.why = "sale" /\ o.q = p.sale[o.t]
                 \/ o.why = "harvest" /\ o.q = p.harvest[o.t]
                 \/ o.why = "buyback" /\ o.q = p.back[o.t]
                 \/ o.why = "invest" /\ o.q = p.invest[o.t]
      /\ \A o, u \in GrowthCycle!OrdersOf(p) : o.t = u.t /\ o.why = u.why => o = u
      /\ \A t \in Ticker : p.harvest[t] > 0 => \E o \in GrowthCycle!OrdersOf(p) : o.t = t /\ o.why = "harvest"
      /\ \A t \in Ticker : p.back[t] > 0 => \E o \in GrowthCycle!OrdersOf(p) : o.t = t /\ o.why = "buyback"
  BY <1>6, OrdersOfAPlan
<1>9. GrowthCycle!CycleIsOrderly'
  <2>1. v8' \in [Ticker -> Int]
    BY <1>3, <1>4, <1>6 DEF GrowthCycle!CycleIsOrderly
  <2>2. v6'.pending \in [Ticker -> Nat]
    BY <1>5, <1>6, <1>7
  <2>3. \A o \in GrowthCycle!OrdersOf(p) : /\ o.left <= o.q
                                           /\ o.side = "BUY" <=> o.why \in {"buyback", "invest"}
    BY <1>8 DEF GrowthCycle!OrderType
  <2> QED BY <1>1, <1>4, <1>5, <1>7, <1>8, <2>1, <2>2, <2>3 DEF GrowthCycle!CycleIsOrderly
<1>10. ASSUME GrowthCycle!Followed', NEW t \in Ticker, t \notin v9'
       PROVE  GrowthCycle!PendingIsOwed(t)'
  <2>1. GrowthCycle!Followed /\ t \notin v9
    BY <1>1, <1>3, <1>10 DEF GrowthCycle!Followed
  <2>2. v2.rebuy[t] = v8[t] /\ v8[t] \in Nat
    BY <1>1, <1>5, <2>1 DEF GrowthCycle!OwedIsPending, GrowthCycle!PendingIsOwed
  <2>3. v2.rebuy[t] > 0 => p.sale[t] = 0 /\ p.harvest[t] = 0
    <3>1. ~(v2.rebuy[t] > 0 /\ p.sale[t] + p.harvest[t] > 0)
      BY <1>3, <1>10
    <3> QED BY <1>6, <3>1
  <2>4. /\ v6'.pending[t] = IF v2.rebuy[t] > 0 /\ p.back[t] = 0 THEN v2.rebuy[t] ELSE p.harvest[t]
        /\ v8'[t] = IF p.back[t] = 0 THEN v8[t] ELSE v8[t] - (v2.rebuy[t] - p.back[t])
    BY <1>3, <1>7, <1>10, <2>1
  <2>5. /\ p.back[t] > 0 => v6'.pending[t] = 0 /\ v8'[t] = p.back[t] /\ p.sale[t] = 0 /\ p.harvest[t] = 0
        /\ p.harvest[t] > 0 => v6'.pending[t] = p.harvest[t] /\ v8'[t] = 0 /\ p.sale[t] = 0
        /\ p.sale[t] > 0 => v6'.pending[t] = 0 /\ v8'[t] = 0
        /\ p.back[t] = 0 /\ p.harvest[t] = 0 => v6'.pending[t] = v8'[t]
    BY <1>5, <1>6, <2>2, <2>3, <2>4
  <2>6. ASSUME NEW o \in GrowthCycle!OrdersOf(p), o.t = t
        PROVE  GrowthCycle!OrderExplains(o)'
    BY <1>6, <1>8, <2>5, <2>6 DEF GrowthCycle!OrderExplains, GrowthCycle!OrderType
  <2>7. ASSUME NEW o \in GrowthCycle!OrdersOf(p), NEW u \in GrowthCycle!OrdersOf(p), o.t = t, u.t = t,
               "invest" \notin {o.why, u.why}
        PROVE  o = u
    <3>1. o.why = u.why
      BY <1>6, <1>8, <2>5, <2>7
    <3> QED BY <1>8, <2>7, <3>1
  <2>8. \/ v6'.pending[t] = v8'[t]
        \/ \E o \in GrowthCycle!OrdersOf(p) : o.t = t /\ o.why \in {"buyback", "harvest"}
    BY <1>6, <1>8, <2>5
  <2> QED BY <1>7, <2>6, <2>7, <2>8 DEF GrowthCycle!PendingIsOwed
<1> QED BY <1>9, <1>10 DEF GrowthCycle!OwedIsPending

(* An order that is over: what it leaves pending is what is owed.          *)
Outlived(o) ==
  /\ v6'.pending \in [Ticker -> Nat]
  /\ \A t \in Ticker \ {o.t} : v6'.pending[t] = v6.pending[t]
  /\ GrowthCycle!Followed /\ o.t \notin v9 =>
       IF o.why = "invest" THEN v6'.pending[o.t] = v6.pending[o.t] ELSE v6'.pending[o.t] = v8[o.t]

LEMMA OrderIsOver ==
  ASSUME GrowthCycle!OwedIsPending, NEW o \in GrowthCycle!Ongoing, Outlived(o),
         v6'.at = "orders", v6'.todo = v6.todo \ {o}, v6'.order = {}, v6.order \subseteq {o},
         DOMAIN v6' = {"at", "todo", "pending", "order"},
         v2'.rebuy = v2.rebuy, DOMAIN v2' = DOMAIN v2, v7' \subseteq GrowthCycle!OrderType,
         UNCHANGED <<v8, v9, v10>>
  PROVE  GrowthCycle!OwedIsPending'
<1>1. GrowthCycle!CycleIsOrderly /\ o \in GrowthCycle!OrderType /\ v6.at # "idle"
  BY DEF GrowthCycle!OwedIsPending, GrowthCycle!CycleIsOrderly
<1>2. GrowthCycle!Ongoing' = GrowthCycle!Ongoing \ {o}
  BY DEF GrowthCycle!Ongoing
<1>3. GrowthCycle!CycleIsOrderly'
  BY <1>1, <1>2 DEF GrowthCycle!CycleIsOrderly, Outlived
<1>4. ASSUME GrowthCycle!Followed, NEW t \in Ticker, t \notin v9
      PROVE  GrowthCycle!PendingIsOwed(t)'
  <2>1. GrowthCycle!PendingIsOwed(t)
    BY <1>4 DEF GrowthCycle!OwedIsPending
  <2>2. \/ v6'.pending[t] = v6.pending[t] /\ (o.t # t \/ o.why = "invest")
        \/ v6'.pending[t] = v8[t] /\ o.t = t /\ o.why # "invest"
    BY <1>4, <1>1 DEF Outlived, GrowthCycle!OrderType
  <2>3. ASSUME NEW u \in GrowthCycle!Ongoing', u.t = t
        PROVE  GrowthCycle!OrderExplains(u)'
    <3>1. u \in GrowthCycle!Ongoing /\ u # o /\ u \in GrowthCycle!OrderType
      BY <1>1, <1>2, <2>3 DEF GrowthCycle!CycleIsOrderly
    <3>2. GrowthCycle!OrderExplains(u)
      BY <2>1, <2>3, <3>1 DEF GrowthCycle!PendingIsOwed
    <3>3. u.why = "invest" \/ o.why = "invest" \/ o.t # t
      BY <2>1, <2>3, <3>1 DEF GrowthCycle!PendingIsOwed
    <3> QED BY <2>2, <2>3, <3>2, <3>3 DEF GrowthCycle!OrderExplains
  <2>4. \A u, w \in GrowthCycle!Ongoing' : u.t = t /\ w.t = t /\ "invest" \notin {u.why, w.why} => u = w
    BY <1>2, <2>1 DEF GrowthCycle!PendingIsOwed
  <2>5. v6'.pending[t] = v8[t] \/ \E u \in GrowthCycle!Ongoing' : u.t = t /\ u.why \in {"buyback", "harvest"}
    BY <1>1, <1>2, <2>1, <2>2 DEF GrowthCycle!PendingIsOwed
  <2> QED BY <2>3, <2>4, <2>5 DEF GrowthCycle!PendingIsOwed
<1>5. GrowthCycle!Followed' <=> GrowthCycle!Followed
  BY DEF GrowthCycle!Followed
<1> QED BY <1>3, <1>4, <1>5 DEF GrowthCycle!OwedIsPending

(* Refused, lost or closed without a fill: a buy-back goes back on the     *)
(* list, a harvest that sold nothing is struck off.                        *)
LEMMA FailureOwed ==
  ASSUME GrowthCycle!OwedIsPending, NEW o \in GrowthCycle!Ongoing, o.left = o.q,
         v6'.pending = GrowthCycle!PendingAfterFailure(o)
  PROVE  Outlived(o)
<1>1. /\ v6.pending \in [Ticker -> Nat] /\ o \in GrowthCycle!OrderType
      /\ o.side = "BUY" <=> o.why \in {"buyback", "invest"}
  BY DEF GrowthCycle!OwedIsPending, GrowthCycle!CycleIsOrderly
<1>2. GrowthCycle!Followed /\ o.t \notin v9 => GrowthCycle!OrderExplains(o)
  BY <1>1 DEF GrowthCycle!OwedIsPending, GrowthCycle!PendingIsOwed, GrowthCycle!OrderType
<1>3. CASE o.why = "buyback"
  <2>1. v6'.pending = [v6.pending EXCEPT ![o.t] = @ + o.q]
    BY <1>1, <1>3 DEF GrowthCycle!PendingAfterFailure, GrowthCycle!Add
  <2> QED BY <1>1, <1>2, <1>3, <2>1 DEF Outlived, GrowthCycle!OrderExplains, GrowthCycle!OrderType
<1>4. CASE o.side = "SELL"
  <2>1. v6'.pending = [v6.pending EXCEPT ![o.t] = 0]
    BY <1>1, <1>4 DEF GrowthCycle!PendingAfterFailure
  <2>2. o.why \in {"sale", "harvest"}
    BY <1>1, <1>4 DEF GrowthCycle!OrderType
  <2> QED BY <1>1, <1>2, <1>4, <2>1, <2>2 DEF Outlived, GrowthCycle!OrderExplains, GrowthCycle!OrderType
<1>5. CASE o.why = "invest"
  <2>1. v6'.pending = v6.pending
    BY <1>1, <1>5 DEF GrowthCycle!PendingAfterFailure
  <2> QED BY <1>1, <1>5, <2>1 DEF Outlived
<1> QED BY <1>1, <1>3, <1>4, <1>5 DEF GrowthCycle!OrderType

(* Closed after a fill: the rest of a buy-back, the part of a harvest that *)
(* was sold.                                                               *)
LEMMA FillOwed ==
  ASSUME GrowthCycle!OwedIsPending, NEW o \in GrowthCycle!Ongoing,
         v6'.pending = GrowthCycle!PendingAfterFill(o, o.q - o.left)
  PROVE  Outlived(o)
<1>1. /\ v6.pending \in [Ticker -> Nat] /\ o \in GrowthCycle!OrderType /\ o.left <= o.q
      /\ o.side = "BUY" <=> o.why \in {"buyback", "invest"}
  BY DEF GrowthCycle!OwedIsPending, GrowthCycle!CycleIsOrderly
<1>2. GrowthCycle!Followed /\ o.t \notin v9 => GrowthCycle!OrderExplains(o)
  BY <1>1 DEF GrowthCycle!OwedIsPending, GrowthCycle!PendingIsOwed, GrowthCycle!OrderType
<1>3. o.t \in Ticker /\ o.q \in Nat \ {0} /\ o.left \in Nat /\ o.q - o.left \in Nat /\ o.q - (o.q - o.left) = o.left
  BY <1>1 DEF GrowthCycle!OrderType
<1>4. CASE o.why = "buyback"
  <2>1. v6'.pending = [v6.pending EXCEPT ![o.t] = @ + o.left]
    BY <1>1, <1>3, <1>4 DEF GrowthCycle!PendingAfterFill, GrowthCycle!Add
  <2> QED BY <1>1, <1>2, <1>3, <1>4, <2>1 DEF Outlived, GrowthCycle!OrderExplains
<1>5. CASE o.side = "SELL" /\ v6.pending[o.t] > 0
  <2>1. v6'.pending = [v6.pending EXCEPT ![o.t] = o.q - o.left]
    BY <1>1, <1>5 DEF GrowthCycle!PendingAfterFill
  <2>2. o.why \in {"sale", "harvest"}
    BY <1>1, <1>5 DEF GrowthCycle!OrderType
  <2> QED BY <1>1, <1>2, <1>3, <1>5, <2>1, <2>2 DEF Outlived, GrowthCycle!OrderExplains
<1>6. CASE o.why # "buyback" /\ ~(o.side = "SELL" /\ v6.pending[o.t] > 0)
  <2>1. v6'.pending = v6.pending
    BY <1>6 DEF GrowthCycle!PendingAfterFill
  <2>2. o.why = "invest" \/ (o.why \in {"sale", "harvest"} /\ v6.pending[o.t] = 0)
    BY <1>1, <1>3, <1>6 DEF GrowthCycle!OrderType
  <2> QED BY <1>1, <1>2, <1>3, <1>6, <2>1, <2>2 DEF Outlived, GrowthCycle!OrderExplains
<1> QED BY <1>4, <1>5, <1>6

LEMMA RefusedOwed ==
  ASSUME GrowthCycle!OwedIsPending, NEW o \in v6.todo, GrowthCycle!RefuseOrder(o) \/ GrowthCycle!LoseOrder(o)
  PROVE  GrowthCycle!OwedIsPending'
<1>1. /\ v6.at = "orders" /\ v6' = [v6 EXCEPT !.todo = @ \ {o}, !.pending = GrowthCycle!PendingAfterFailure(o)]
      /\ v7' \in {v7, {o}} /\ UNCHANGED <<v2, v8, v9, v10>>
  BY DEF GrowthCycle!RefuseOrder, GrowthCycle!LoseOrder, GrowthCycle!NextOrder
<1>2. GrowthCycle!CycleIsOrderly /\ o \in GrowthCycle!Ongoing
  BY DEF GrowthCycle!OwedIsPending, GrowthCycle!Ongoing
<1>3. /\ v6'.at = "orders" /\ v6'.todo = v6.todo \ {o} /\ v6'.order = {} /\ v6.order = {}
      /\ v6'.pending = GrowthCycle!PendingAfterFailure(o) /\ DOMAIN v6' = {"at", "todo", "pending", "order"}
  BY <1>1, <1>2 DEF GrowthCycle!CycleIsOrderly
<1>4. o.left = o.q /\ v7' \subseteq GrowthCycle!OrderType
  BY <1>1, <1>2 DEF GrowthCycle!CycleIsOrderly
<1>5. Outlived(o)
  BY <1>2, <1>3, <1>4, FailureOwed
<1> QED BY <1>1, <1>2, <1>3, <1>4, <1>5, OrderIsOver

LEMMA SettledOwed ==
  ASSUME GrowthCycle!OwedIsPending, GrowthCycle!SettleOrder
  PROVE  GrowthCycle!OwedIsPending'
<1>1. PICK o \in v6.order :
        /\ v6' = [v6 EXCEPT !.at = "orders", !.order = {},
                     !.pending = IF o.q - o.left = 0 THEN GrowthCycle!PendingAfterFailure(o)
                                                     ELSE GrowthCycle!PendingAfterFill(o, o.q - o.left)]
        /\ v2' = GrowthCycle!Recorded(o, o.q - o.left)
        /\ v7' \in {v7, {o}}
  BY DEF GrowthCycle!SettleOrder
<1>2. UNCHANGED <<v8, v9, v10>>
  BY DEF GrowthCycle!SettleOrder
<1>3. GrowthCycle!CycleIsOrderly /\ o \in GrowthCycle!Ongoing
  BY DEF GrowthCycle!OwedIsPending, GrowthCycle!Ongoing
<1>4. o \in GrowthCycle!OrderType /\ o.left <= o.q /\ v6.order = {o} /\ o \notin v6.todo
  BY <1>3 DEF GrowthCycle!CycleIsOrderly
<1>5. /\ v6'.at = "orders" /\ v6'.todo = v6.todo \ {o} /\ v6'.order = {} /\ DOMAIN v6' = {"at", "todo", "pending", "order"}
      /\ v6'.pending = IF o.q - o.left = 0 THEN GrowthCycle!PendingAfterFailure(o)
                                           ELSE GrowthCycle!PendingAfterFill(o, o.q - o.left)
  BY <1>1, <1>3, <1>4 DEF GrowthCycle!CycleIsOrderly
<1>6. v2'.rebuy = v2.rebuy /\ DOMAIN v2' = DOMAIN v2
  BY <1>1, <1>3 DEF GrowthCycle!CycleIsOrderly, GrowthCycle!Recorded
<1>7. v7' \subseteq GrowthCycle!OrderType
  BY <1>1, <1>3, <1>4 DEF GrowthCycle!CycleIsOrderly
<1>8. Outlived(o)
  <2>1. CASE o.q - o.left = 0
    <3>1. o.left = o.q
      BY <1>4, <2>1 DEF GrowthCycle!OrderType
    <3> QED BY <1>3, <1>5, <2>1, <3>1, FailureOwed
  <2>2. CASE o.q - o.left # 0
    BY <1>3, <1>5, <2>2, FillOwed
  <2> QED BY <2>1, <2>2
<1> QED BY <1>2, <1>3, <1>4, <1>5, <1>6, <1>7, <1>8, OrderIsOver

LEMMA SentOwed ==
  ASSUME GrowthCycle!OwedIsPending, NEW o \in v6.todo, GrowthCycle!SendOrder(o)
  PROVE  GrowthCycle!OwedIsPending'
<1>1. /\ v6.at = "orders" /\ v6' = [v6 EXCEPT !.at = "sent", !.todo = @ \ {o}, !.order = {o}]
      /\ UNCHANGED <<v2, v7, v8, v9, v10>>
  BY DEF GrowthCycle!SendOrder, GrowthCycle!NextOrder
<1>2. GrowthCycle!CycleIsOrderly
  BY DEF GrowthCycle!OwedIsPending
<1>3. /\ v6'.at = "sent" /\ v6'.todo = v6.todo \ {o} /\ v6'.order = {o} /\ v6'.pending = v6.pending
      /\ DOMAIN v6' = {"at", "todo", "pending", "order"} /\ v6.order = {}
  BY <1>1, <1>2 DEF GrowthCycle!CycleIsOrderly
<1>4. GrowthCycle!Ongoing' = GrowthCycle!Ongoing
  BY <1>3 DEF GrowthCycle!Ongoing
<1>5. GrowthCycle!CycleIsOrderly'
  BY <1>1, <1>2, <1>3, <1>4 DEF GrowthCycle!CycleIsOrderly
<1>6. \A t \in Ticker : GrowthCycle!PendingIsOwed(t) => GrowthCycle!PendingIsOwed(t)'
  BY <1>1, <1>3, <1>4 DEF GrowthCycle!PendingIsOwed, GrowthCycle!OrderExplains
<1>7. GrowthCycle!Followed' <=> GrowthCycle!Followed
  BY <1>1 DEF GrowthCycle!Followed
<1> QED BY <1>1, <1>5, <1>6, <1>7 DEF GrowthCycle!OwedIsPending

LEMMA FinishedOwed ==
  ASSUME GrowthCycle!OwedIsPending, GrowthCycle!FinishCycle
  PROVE  GrowthCycle!OwedIsPending'
<1>1. /\ v6.at = "orders" /\ v6.todo = {} /\ v2' = [v2 EXCEPT !.rebuy = v6.pending] /\ v6' = GrowthCycle!Idle
      /\ v10' = v10 \ {"stale"} /\ UNCHANGED <<v7, v8, v9>>
  BY DEF GrowthCycle!FinishCycle
<1>2. GrowthCycle!CycleIsOrderly
  BY DEF GrowthCycle!OwedIsPending
<1>3. /\ v6'.at = "idle" /\ v6'.todo = {} /\ v6'.order = {} /\ v6'.pending \in [Ticker -> Nat]
      /\ DOMAIN v6' = {"at", "todo", "pending", "order"}
  BY <1>1 DEF GrowthCycle!Idle, GrowthCycle!Nothing
<1>4. GrowthCycle!Ongoing = {} /\ GrowthCycle!Ongoing' = {}
  BY <1>1, <1>2, <1>3 DEF GrowthCycle!Ongoing, GrowthCycle!CycleIsOrderly
<1>5. v2'.rebuy = v6.pending /\ DOMAIN v2' = DOMAIN v2
  BY <1>1, <1>2 DEF GrowthCycle!CycleIsOrderly
<1>6. GrowthCycle!CycleIsOrderly'
  BY <1>1, <1>2, <1>3, <1>4, <1>5 DEF GrowthCycle!CycleIsOrderly
<1>7. \A t \in Ticker : GrowthCycle!PendingIsOwed(t) => GrowthCycle!PendingIsOwed(t)'
  BY <1>1, <1>3, <1>4, <1>5 DEF GrowthCycle!PendingIsOwed
<1>8. GrowthCycle!Followed' => GrowthCycle!Followed
  BY <1>1 DEF GrowthCycle!Followed
<1> QED BY <1>1, <1>6, <1>7, <1>8 DEF GrowthCycle!OwedIsPending

(* A share sold or bought by the open order moves from what is pending to  *)
(* what is owed, or the other way.                                         *)
LEMMA FilledOwed ==
  ASSUME GrowthCycle!OwedIsPending, GrowthCycle!OrderFills
  PROVE  GrowthCycle!OwedIsPending'
<1>1. PICK o \in v6.order : GrowthCycle!Fill(o) /\ v6' = [v6 EXCEPT !.order = {[o EXCEPT !.left = @ - 1]}]
  BY DEF GrowthCycle!OrderFills
<1>2. UNCHANGED <<v2, v7, v9, v10>>
  BY DEF GrowthCycle!OrderFills
<1> DEFINE n == [o EXCEPT !.left = @ - 1]
<1>3. GrowthCycle!CycleIsOrderly /\ o \in GrowthCycle!Ongoing
  BY DEF GrowthCycle!OwedIsPending, GrowthCycle!Ongoing
<1>4. /\ o \in GrowthCycle!OrderType /\ o.left <= o.q /\ v6.order = {o} /\ o \notin v6.todo
      /\ o.side = "BUY" <=> o.why \in {"buyback", "invest"}
      /\ v6.at # "idle" /\ v6.at # "orders"
  BY <1>3 DEF GrowthCycle!CycleIsOrderly
<1>5. o.left > 0
  BY <1>1 DEF GrowthCycle!Fill
<1>6. /\ n \in GrowthCycle!OrderType /\ n.t = o.t /\ n.why = o.why /\ n.side = o.side /\ n.q = o.q
      /\ n.left = o.left - 1 /\ n.left < n.q
  BY <1>4, <1>5 DEF GrowthCycle!OrderType
<1>7. /\ v6'.at = v6.at /\ v6'.todo = v6.todo /\ v6'.order = {n} /\ v6'.pending = v6.pending
      /\ DOMAIN v6' = {"at", "todo", "pending", "order"}
  BY <1>1, <1>3 DEF GrowthCycle!CycleIsOrderly
<1> HIDE DEF n
<1>8. GrowthCycle!Ongoing = v6.todo \cup {o} /\ GrowthCycle!Ongoing' = v6.todo \cup {n} /\ n \notin v6.todo
  <2>1. \A u \in v6.todo : u.left = u.q
    BY <1>3 DEF GrowthCycle!CycleIsOrderly
  <2>2. n.left # n.q
    BY <1>4, <1>6 DEF GrowthCycle!OrderType
  <2> QED BY <1>4, <1>7, <2>1, <2>2 DEF GrowthCycle!Ongoing
<1>9. /\ v8 \in [Ticker -> Int] /\ o.t \in Ticker
      /\ v8' = IF ~GrowthCycle!Followed \/ o.t \in v9 THEN v8
               ELSE IF o.why = "harvest" THEN [v8 EXCEPT ![o.t] = @ + 1]
               ELSE IF o.why = "buyback" THEN [v8 EXCEPT ![o.t] = @ + (-1)] ELSE v8
  BY <1>1, <1>3, <1>4 DEF GrowthCycle!Fill, GrowthCycle!CycleIsOrderly, GrowthCycle!OrderType, GrowthCycle!Add
<1>10. v8' \in [Ticker -> Int]
  BY <1>9
<1>11. GrowthCycle!CycleIsOrderly'
  <2>1. \A u \in GrowthCycle!Ongoing' : u.left <= u.q /\ (u.side = "BUY" <=> u.why \in {"buyback", "invest"})
    BY <1>3, <1>4, <1>6, <1>8 DEF GrowthCycle!CycleIsOrderly, GrowthCycle!OrderType
  <2> QED BY <1>2, <1>3, <1>4, <1>6, <1>7, <1>8, <1>10, <2>1 DEF GrowthCycle!CycleIsOrderly
<1>12. ASSUME GrowthCycle!Followed, NEW t \in Ticker, t \notin v9
       PROVE  GrowthCycle!PendingIsOwed(t)'
  <2>1. GrowthCycle!PendingIsOwed(t)
    BY <1>12 DEF GrowthCycle!OwedIsPending
  <2>2. \A u \in v6.todo : u.t = t /\ u.why # "invest" => o.t # t \/ o.why = "invest"
    BY <1>4, <1>8, <2>1 DEF GrowthCycle!PendingIsOwed
  <2>3. /\ o.t = t /\ o.why = "harvest" => v8'[t] = v8[t] + 1
        /\ o.t = t /\ o.why = "buyback" => v8'[t] = v8[t] - 1
        /\ o.t # t \/ o.why \in {"sale", "invest"} => v8'[t] = v8[t]
    BY <1>9, <1>12
  <2>4. ASSUME NEW u \in v6.todo, u.t = t
        PROVE  GrowthCycle!OrderExplains(u)'
    <3>1. GrowthCycle!OrderExplains(u)
      BY <1>8, <2>1, <2>4 DEF GrowthCycle!PendingIsOwed
    <3>2. u.why = "invest" \/ v8'[t] = v8[t]
      BY <2>2, <2>3, <2>4
    <3> QED BY <1>7, <2>4, <3>1, <3>2 DEF GrowthCycle!OrderExplains
  <2>5. n.t = t => GrowthCycle!OrderExplains(n)'
    <3>1. n.t = t => GrowthCycle!OrderExplains(o)
      BY <1>3, <1>6, <2>1 DEF GrowthCycle!PendingIsOwed
    <3>2. v6.pending[t] \in Nat /\ v8[t] \in Int /\ o.left \in Nat /\ o.q \in Nat
      BY <1>3, <1>4 DEF GrowthCycle!CycleIsOrderly, GrowthCycle!OrderType
    <3> QED BY <1>6, <1>7, <2>3, <3>1, <3>2 DEF GrowthCycle!OrderExplains
  <2>6. \A u, w \in GrowthCycle!Ongoing' : u.t = t /\ w.t = t /\ "invest" \notin {u.why, w.why} => u = w
    BY <1>6, <1>8, <2>1, <2>2 DEF GrowthCycle!PendingIsOwed
  <2>7. v6'.pending[t] = v8'[t] \/ \E u \in GrowthCycle!Ongoing' : u.t = t /\ u.why \in {"buyback", "harvest"}
    <3>1. CASE o.t = t /\ o.why \in {"harvest", "buyback"}
      BY <1>6, <1>8, <3>1
    <3>2. CASE ~(o.t = t /\ o.why \in {"harvest", "buyback"})
      <4>1. v8'[t] = v8[t]
        BY <1>4, <2>3, <3>2 DEF GrowthCycle!OrderType
      <4>2. v6.pending[t] = v8[t] \/ \E u \in v6.todo : u.t = t /\ u.why \in {"buyback", "harvest"}
        BY <1>4, <1>8, <2>1, <3>2 DEF GrowthCycle!PendingIsOwed
      <4> QED BY <1>7, <1>8, <4>1, <4>2
    <3> QED BY <3>1, <3>2
  <2> QED BY <1>4, <1>7, <1>8, <2>4, <2>5, <2>6, <2>7 DEF GrowthCycle!PendingIsOwed
<1>13. GrowthCycle!Followed' <=> GrowthCycle!Followed
  BY <1>2 DEF GrowthCycle!Followed
<1> QED BY <1>2, <1>11, <1>12, <1>13 DEF GrowthCycle!OwedIsPending

(* Where the history ends: a cycle that died, a fill nobody recorded, and  *)
(* the fresh books of a reconciliation.                                    *)
LEMMA StrayOwed ==
  ASSUME GrowthCycle!OwedIsPending, GrowthCycle!StrayFills
  PROVE  GrowthCycle!OwedIsPending'
<1>1. PICK o \in v7 : GrowthCycle!Fill(o) /\ v7' = {[o EXCEPT !.left = @ - 1]}
  BY DEF GrowthCycle!StrayFills
<1>2. v10' = v10 \cup {"unrecorded"} /\ UNCHANGED <<v2, v6, v9>>
  BY DEF GrowthCycle!StrayFills
<1>3. GrowthCycle!CycleIsOrderly /\ o \in GrowthCycle!OrderType /\ o.left > 0
  BY <1>1 DEF GrowthCycle!OwedIsPending, GrowthCycle!CycleIsOrderly, GrowthCycle!Fill
<1>4. v7' \subseteq GrowthCycle!OrderType
  BY <1>1, <1>3 DEF GrowthCycle!OrderType
<1>5. v8' \in [Ticker -> Int]
  BY <1>1, <1>3 DEF GrowthCycle!Fill, GrowthCycle!Add, GrowthCycle!CycleIsOrderly, GrowthCycle!OrderType
<1>6. GrowthCycle!CycleIsOrderly'
  BY <1>2, <1>3, <1>4, <1>5 DEF GrowthCycle!CycleIsOrderly, GrowthCycle!Ongoing
<1>7. ~GrowthCycle!Followed'
  BY <1>2 DEF GrowthCycle!Followed
<1> QED BY <1>6, <1>7 DEF GrowthCycle!OwedIsPending

LEMMA BrokenOffOwed ==
  ASSUME GrowthCycle!OwedIsPending, GrowthCycle!CycleFails \/ GrowthCycle!Restart
  PROVE  GrowthCycle!OwedIsPending'
<1>1. /\ v6' = GrowthCycle!Idle /\ v7' = v7 \cup v6.order /\ v8' = GrowthCycle!Nothing /\ v2' = v2
      /\ \/ v10' = v10 \cup GrowthCycle!Abandoned \cup {"stale"}
         \/ /\ v6.at # "idle" \/ "stale" \in v10
            /\ v10' = (v10 \cup (IF v6.at = "idle" THEN {} ELSE GrowthCycle!Abandoned)) \ {"stale"}
  BY DEF GrowthCycle!CycleFails, GrowthCycle!Restart
<1>2. GrowthCycle!CycleIsOrderly
  BY DEF GrowthCycle!OwedIsPending
<1>3. "interrupted" \in v10'
  <2>1. "interrupted" \in GrowthCycle!Abandoned
    BY DEF GrowthCycle!Abandoned
  <2>2. "stale" \in v10 => "interrupted" \in v10
    BY <1>2 DEF GrowthCycle!CycleIsOrderly
  <2> QED BY <1>1, <2>1, <2>2
<1>4. /\ v6'.at = "idle" /\ v6'.todo = {} /\ v6'.order = {} /\ v6'.pending \in [Ticker -> Nat]
      /\ DOMAIN v6' = {"at", "todo", "pending", "order"} /\ v8' \in [Ticker -> Int]
  BY <1>1 DEF GrowthCycle!Idle, GrowthCycle!Nothing
<1>5. GrowthCycle!Ongoing' = {} /\ v7' \subseteq GrowthCycle!OrderType
  BY <1>1, <1>2, <1>4 DEF GrowthCycle!Ongoing, GrowthCycle!CycleIsOrderly
<1>6. GrowthCycle!CycleIsOrderly'
  BY <1>1, <1>2, <1>3, <1>4, <1>5 DEF GrowthCycle!CycleIsOrderly
<1>7. ~GrowthCycle!Followed'
  BY <1>3 DEF GrowthCycle!Followed
<1> QED BY <1>6, <1>7 DEF GrowthCycle!OwedIsPending

LEMMA ReconciledOwed ==
  ASSUME GrowthCycle!Reconcile
  PROVE  GrowthCycle!OwedIsPending'
<1>1. /\ v2' = [cash |-> 0, qty |-> GrowthCycle!Nothing, booked |-> FALSE, rebuy |-> GrowthCycle!Nothing]
      /\ v6' = GrowthCycle!Idle /\ v7' = {} /\ v8' = GrowthCycle!Nothing /\ v10' = {}
  BY DEF GrowthCycle!Reconcile
<1>2. v6'.at = "idle" /\ v6'.todo = {} /\ v6'.order = {} /\ v6'.pending = GrowthCycle!Nothing
      /\ DOMAIN v6' = {"at", "todo", "pending", "order"}
  BY <1>1 DEF GrowthCycle!Idle
<1>3. GrowthCycle!Nothing \in [Ticker -> Nat] /\ GrowthCycle!Nothing \in [Ticker -> Int]
  BY DEF GrowthCycle!Nothing
<1>4. GrowthCycle!Ongoing' = {}
  BY <1>2 DEF GrowthCycle!Ongoing
<1>5. GrowthCycle!CycleIsOrderly'
  BY <1>1, <1>2, <1>3, <1>4 DEF GrowthCycle!CycleIsOrderly
<1>6. \A t \in Ticker : GrowthCycle!PendingIsOwed(t)'
  BY <1>1, <1>2, <1>4 DEF GrowthCycle!PendingIsOwed
<1> QED BY <1>5, <1>6 DEF GrowthCycle!OwedIsPending

LEMMA GrowthCycleStep ==
  ASSUME GrowthCycle!OwedIsPending, NextGrowthCycle
  PROVE  GrowthCycle!OwedIsPending'
  BY StartOwed, WorldOwed, FinishedOwed, SettledOwed, FilledOwed, StrayOwed, SentOwed, RefusedOwed,
     BrokenOffOwed, ReconciledOwed DEF NextGrowthCycle

LEMMA OwedPending == Spec => [](focus = "growth_in" => GrowthCycle!OwedIsPending)
<1> DEFINE Inv == focus = "growth_in" => GrowthCycle!OwedIsPending
<1>1. Init => Inv
  BY WhoStarts, GrowthCycleInit DEF Init, InitGrowthCycle
<1>2. Inv /\ [Next]_vars => Inv'
  <2> SUFFICES ASSUME Inv, [Next]_vars, focus' = "growth_in" PROVE GrowthCycle!OwedIsPending'
    OBVIOUS
  <2>1. GrowthCycle!OwedIsPending
    BY FocusStays
  <2>2. CASE Next
    BY <2>1, <2>2, WhoSteps, GrowthCycleStep DEF Next
  <2>3. CASE UNCHANGED vars
    <3>1. UNCHANGED <<v2, v6, v7, v8, v9, v10>>
      BY <2>3 DEF vars
    <3>2. v7' \subseteq GrowthCycle!OrderType
      BY <2>1, <3>1 DEF GrowthCycle!OwedIsPending, GrowthCycle!CycleIsOrderly
    <3> QED BY <2>1, <3>1, <3>2, ElsewhereOwed
  <2> QED BY <2>2, <2>3
<1> QED BY <1>1, <1>2, PTL DEF Spec

(* Every share the India bot sold to harvest a loss is bought back or      *)
(* still on the list, and none twice, through partial fills, refusals,     *)
(* lost orders and an empty purse (in_growth_bot/main.py).                 *)
THEOREM HarvestsComeBack == Spec => []HarvestComesBack
<1> DEFINE Inv == focus = "growth_in" => GrowthCycle!OwedIsPending
<1>1. Inv => HarvestComesBack
  BY DEF GrowthCycle!OwedIsPending, GrowthCycle!PendingIsOwed, GrowthCycle!Followed, HarvestComesBack, GrowthCycle!HarvestComesBack
<1> QED BY <1>1, OwedPending, PTL

-----------------------------------------------------------------------------
(* The UK growth bot's planner (UkPlanner).  A core line belongs to one    *)
(* slot, and so does the line it is switched into.                         *)

LEMMA SlotOfCore ==
  ASSUME NEW t \in UkPlanner!Core
  PROVE  /\ UkPlanner!Slot(t) \in Fund /\ t \in {UkPlanner!Slot(t), Twin[UkPlanner!Slot(t)]}
         /\ \A f \in Fund : t \in {f, Twin[f]} => f = UkPlanner!Slot(t)
<1>1. \E f \in Fund : t \in {f, Twin[f]}
  BY DEF UkPlanner!Core, UkPlanner!Line
<1>2. UkPlanner!Slot(t) = CHOOSE f \in Fund : t \in {f, Twin[f]}
  BY DEF UkPlanner!Slot
<1>3. UkPlanner!Slot(t) \in Fund /\ t \in {UkPlanner!Slot(t), Twin[UkPlanner!Slot(t)]}
  BY <1>1, <1>2, Zenon
<1> QED BY <1>3, UniverseAssumption

LEMMA LinesOfAFund ==
  ASSUME NEW f \in Fund
  PROVE  /\ f \in UkPlanner!Core /\ UkPlanner!Slot(f) = f
         /\ Twin[f] \in UkPlanner!Core /\ UkPlanner!Slot(Twin[f]) = f
<1>1. f \in UkPlanner!Core /\ Twin[f] \in UkPlanner!Core
  BY UniverseAssumption DEF UkPlanner!Core, UkPlanner!Line
<1> QED BY <1>1, SlotOfCore

LEMMA OnlyCoreLinesHaveFunds ==
  ASSUME NEW t, UkPlanner!Slot(t) \in Fund
  PROVE  t \in UkPlanner!Core
<1>1. t \notin UkPlanner!Core => UkPlanner!Slot(t) = t
  BY DEF UkPlanner!Slot
<1> QED BY <1>1, LinesOfAFund

LEMMA OtherLineStaysInItsSlot ==
  ASSUME NEW t \in UkPlanner!Core
  PROVE  /\ UkPlanner!OtherLine(t) \in UkPlanner!Core
         /\ UkPlanner!Slot(UkPlanner!OtherLine(t)) = UkPlanner!Slot(t)
  BY SlotOfCore, LinesOfAFund DEF UkPlanner!OtherLine

LEMMA CoreIsLine == UkPlanner!Core \subseteq UkPlanner!Line /\ Fund \subseteq UkPlanner!Line
                    /\ Stock \subseteq UkPlanner!Line /\ Stock \cap UkPlanner!Core = {}
                    /\ Gilts \in UkPlanner!Line /\ Gilts \notin UkPlanner!Core
  BY DEF UkPlanner!Core, UkPlanner!Line

\* What _sell does to a plan: of the lines asked for some are sold and some are
\* noted as held at a loss.
Asked(p, lines, q) ==
  /\ q \in UkPlanner!LinesChosen
  /\ q.keep = p.keep /\ q.buys = p.buys /\ q.trim = p.trim
  /\ p.sold \subseteq q.sold /\ q.sold \subseteq p.sold \cup lines
  /\ p.atLoss \subseteq q.atLoss /\ q.atLoss \subseteq p.atLoss \cup lines

LEMMA SoldOrLeft ==
  ASSUME NEW p \in UkPlanner!LinesChosen, NEW lines \in SUBSET v2,
         NEW f \in UkPlanner!Fates(lines), NEW force
  PROVE  Asked(p, lines, UkPlanner!SellAll(p, f, force))
<1> DEFINE q == UkPlanner!SellAll(p, f, force)
           left == lines \ p.sold
           loss == {t \in left : f[t] = "loss"}
           out == {t \in left \ loss : force \/ f[t] = "gain"}
<1>1. f \in [lines -> {"gain", "loss", "taxed"}]
  BY DEF UkPlanner!Fates
<1>2. q = [p EXCEPT !.atLoss = p.atLoss \cup loss, !.sold = p.sold \cup out]
  BY <1>1 DEF UkPlanner!SellAll
<1>3. p \in [sold : SUBSET v2, atLoss : SUBSET v2, trim : SUBSET UkPlanner!Line,
             keep : SUBSET UkPlanner!Line, buys : SUBSET UkPlanner!Line]
  BY DEF UkPlanner!LinesChosen
<1>4. /\ q.keep = p.keep /\ q.buys = p.buys /\ q.trim = p.trim
      /\ q.atLoss = p.atLoss \cup loss /\ q.sold = p.sold \cup out
  <2> HIDE DEF q
  <2> QED BY <1>2, <1>3
<1>5. out \subseteq lines /\ loss \subseteq lines
  OBVIOUS
<1>6. q \in UkPlanner!LinesChosen
  <2> HIDE DEF q
  <2> QED BY <1>2, <1>3, <1>5 DEF UkPlanner!LinesChosen
<1> HIDE DEF q
<1>7. Asked(p, lines, q)
  BY <1>4, <1>5, <1>6 DEF Asked
<1> QED BY <1>7 DEF q

LEMMA UkPlannerInit ==
  ASSUME UkPlanner!Init
  PROVE  UkPlanner!OneFundPlanned
  BY DEF UkPlanner!Init, UkPlanner!OneFundPlanned, UkPlanner!StepsInOrder, UkPlanner!OneFundPerGroup,
         UkPlanner!LinesChosen, UkPlanner!NoPlan

\* The satellite step touches no core line.
LEMMA SatelliteKeepsFunds ==
  ASSUME UkPlanner!OneFundPlanned, UkPlanner!PlanSatellite
  PROVE  UkPlanner!OneFundPlanned'
<1>1. /\ v1 \in Settings /\ v2 \subseteq UkPlanner!Line /\ v7 \in BOOLEAN /\ UkPlanner!OneFundPerGroup
      /\ v6 = UkPlanner!NoPlan /\ v5' = "core" /\ v1' = v1 /\ v2' = v2 /\ v7' = v7
  BY DEF UkPlanner!OneFundPlanned, UkPlanner!StepsInOrder, UkPlanner!PlanSatellite
<1>2. PICK bear \in BOOLEAN, broken \in SUBSET UkPlanner!HeldStocks, good \in SUBSET Stock :
        \E out \in SUBSET (UkPlanner!HeldStocks \ broken) : \E f \in UkPlanner!Fates(out) :
          LET p == UkPlanner!Satellite(broken, f)
              room == UkPlanner!Max({0, v1.stocks - UkPlanner!Cardinality(p.keep)})
              fresh == UkPlanner!Candidates(p, good)
          IN \E new \in {n \in SUBSET fresh : UkPlanner!Cardinality(n)
                             = UkPlanner!Min({room, UkPlanner!Cardinality(fresh)})} :
               /\ v4' = UkPlanner!PauseAfter(bear)
               /\ IF bear /\ v1.action = "derisk"
                  THEN \E g \in UkPlanner!Fates(p.keep) : v6' = UkPlanner!Derisked(p, g)
                  ELSE v6' = [p EXCEPT !.keep = @ \cup new]
  BY DEF UkPlanner!PlanSatellite
<1>3. PICK out \in SUBSET (UkPlanner!HeldStocks \ broken) : \E f \in UkPlanner!Fates(out) :
        \/ \E g : g \in UkPlanner!Fates(UkPlanner!Satellite(broken, f).keep)
                  /\ v6' = UkPlanner!Derisked(UkPlanner!Satellite(broken, f), g)
        \/ \E new \in SUBSET Stock : v6' = [UkPlanner!Satellite(broken, f) EXCEPT !.keep = @ \cup new]
  BY <1>2 DEF UkPlanner!Candidates
<1>4. PICK f \in UkPlanner!Fates(out) :
        \/ \E g : g \in UkPlanner!Fates(UkPlanner!Satellite(broken, f).keep)
                  /\ v6' = UkPlanner!Derisked(UkPlanner!Satellite(broken, f), g)
        \/ \E new \in SUBSET Stock : v6' = [UkPlanner!Satellite(broken, f) EXCEPT !.keep = @ \cup new]
  BY <1>3
<1> DEFINE p0 == [v6 EXCEPT !.sold = broken]
           p1 == UkPlanner!SellAll(p0, f, FALSE)
           p == UkPlanner!Satellite(broken, f)
<1>5. broken \in SUBSET v2 /\ broken \subseteq Stock /\ out \in SUBSET v2 /\ out \subseteq Stock
  BY DEF UkPlanner!HeldStocks
<1>6. /\ p0 \in UkPlanner!LinesChosen /\ p0.sold = broken
      /\ p0.atLoss = {} /\ p0.trim = {} /\ p0.buys = {} /\ p0.keep = {}
  BY <1>1, <1>5 DEF UkPlanner!NoPlan, UkPlanner!LinesChosen
<1> HIDE DEF p0
<1>7. /\ p1 \in UkPlanner!LinesChosen /\ p1.sold \subseteq Stock /\ p1.atLoss \subseteq Stock
      /\ p1.trim = {} /\ p1.buys = {}
  <2>1. Asked(p0, out, p1)
    BY <1>5, <1>6, SoldOrLeft
  <2> HIDE DEF p1
  <2> QED BY <1>5, <1>6, <2>1 DEF Asked
<1>8. p = [p1 EXCEPT !.keep = UkPlanner!HeldStocks \ (p1.sold \cup p1.atLoss)]
  BY DEF p0, UkPlanner!Satellite
<1> HIDE DEF p1
<1>9. /\ p \in UkPlanner!LinesChosen /\ p.sold \subseteq Stock /\ p.atLoss \subseteq Stock
      /\ p.keep \in SUBSET v2 /\ p.keep \subseteq Stock /\ p.trim = {} /\ p.buys = {}
  <2>1. UkPlanner!HeldStocks \ (p1.sold \cup p1.atLoss) \subseteq v2 \cap Stock
    BY DEF UkPlanner!HeldStocks
  <2> QED BY <1>7, <1>8, <2>1, CoreIsLine DEF UkPlanner!LinesChosen
<1> HIDE DEF p
<1>10. /\ v6' \in UkPlanner!LinesChosen /\ v6'.sold \subseteq Stock /\ v6'.atLoss \subseteq Stock
       /\ v6'.keep \subseteq Stock \cup {Gilts} /\ v6'.trim = {} /\ v6'.buys = {}
  <2>1. CASE \E new \in SUBSET Stock : v6' = [p EXCEPT !.keep = @ \cup new]
    <3>1. PICK new \in SUBSET Stock : v6' = [p EXCEPT !.keep = p.keep \cup new]
      BY <2>1
    <3>2. p.keep \cup new \subseteq UkPlanner!Line
      BY <1>9, CoreIsLine DEF UkPlanner!LinesChosen
    <3> QED BY <1>9, <3>1, <3>2 DEF UkPlanner!LinesChosen
  <2>2. CASE \E g : g \in UkPlanner!Fates(p.keep) /\ v6' = UkPlanner!Derisked(p, g)
    <3>1. PICK g : g \in UkPlanner!Fates(p.keep) /\ v6' = UkPlanner!Derisked(p, g)
      BY <2>2
    <3> DEFINE q == UkPlanner!SellAll(p, g, FALSE)
    <3>2. /\ q \in UkPlanner!LinesChosen /\ q.sold \subseteq Stock /\ q.atLoss \subseteq Stock
          /\ q.trim = {} /\ q.buys = {}
      <4>1. p \in UkPlanner!LinesChosen
        BY <1>9
      <4>2. p.keep \in SUBSET v2
        BY <1>9
      <4>3. g \in UkPlanner!Fates(p.keep)
        BY <3>1
      <4>4. Asked(p, p.keep, q)
        BY <4>1, <4>2, <4>3, SoldOrLeft
      <4> HIDE DEF q
      <4> QED BY <1>9, <4>4 DEF Asked
    <3>3. v6' = [q EXCEPT !.keep = {Gilts}]
      BY <3>1 DEF UkPlanner!Derisked
    <3> HIDE DEF q
    <3> QED BY <3>2, <3>3, CoreIsLine DEF UkPlanner!LinesChosen
  <2> QED BY <1>4, <2>1, <2>2 DEF p
<1>11. v6' \in UkPlanner!LinesChosen'
  BY <1>1, <1>10 DEF UkPlanner!LinesChosen
<1>12. UkPlanner!StepsInOrder'
  BY <1>1, <1>10, <1>11, CoreIsLine DEF UkPlanner!StepsInOrder
<1> QED BY <1>1, <1>12 DEF UkPlanner!OneFundPlanned, UkPlanner!OneFundPerGroup

\* The funds chosen beside the kept ones: none of a taken group, and no two of
\* the same.
LEMMA ChosenFunds ==
  ASSUME NEW p, NEW kept \in SUBSET Fund, NEW rank \in UkPlanner!Ranks
  PROVE  LET chosen == UkPlanner!CoreChosen(p, kept, rank)
         IN /\ kept \subseteq chosen /\ chosen \subseteq Fund
            /\ \A s \in chosen \ kept : Group[s] \notin UkPlanner!Taken(p, kept)
            /\ (\A s, u \in kept : Group[s] = Group[u] => s = u)
               => (\A s, u \in chosen : Group[s] = Group[u] => s = u)
<1> DEFINE N == UkPlanner!Cardinality(Fund)
           lead == UkPlanner!Leading(p, kept, rank)
           chosen == UkPlanner!CoreChosen(p, kept, rank)
<1>1. rank \in [1 .. N -> Fund]
  BY DEF UkPlanner!Ranks
<1>2. /\ kept \subseteq chosen
      /\ \A s \in chosen : s \in kept \/ \E i \in lead : s = rank[i]
  BY DEF UkPlanner!CoreChosen
<1>3. \A i \in lead : /\ i \in 1 .. N /\ Group[rank[i]] \notin UkPlanner!Taken(p, kept)
                      /\ \A j \in 1 .. i - 1 : Group[rank[j]] # Group[rank[i]]
  BY <1>1 DEF UkPlanner!Leading
<1> HIDE DEF N, lead
<1>4. \A i \in lead : i \in Int /\ 1 <= i /\ rank[i] \in Fund
  BY <1>1, <1>3
<1>5. \A i, j \in lead : Group[rank[i]] = Group[rank[j]] => i = j
  <2> SUFFICES ASSUME NEW i \in lead, NEW j \in lead, j < i PROVE Group[rank[i]] # Group[rank[j]]
    BY <1>4
  <2> QED BY <1>3, <1>4
<1>6. \A s \in kept : Group[s] \in UkPlanner!Taken(p, kept)
  BY DEF UkPlanner!Taken
<1> HIDE DEF chosen
<1>7. ASSUME \A s, u \in kept : Group[s] = Group[u] => s = u,
             NEW s \in chosen, NEW u \in chosen, Group[s] = Group[u]
      PROVE  s = u
  BY <1>2, <1>3, <1>5, <1>6, <1>7
<1>8. /\ kept \subseteq chosen /\ chosen \subseteq Fund
      /\ \A s \in chosen \ kept : Group[s] \notin UkPlanner!Taken(p, kept)
      /\ (\A s, u \in kept : Group[s] = Group[u] => s = u)
         => (\A s, u \in chosen : Group[s] = Group[u] => s = u)
  BY <1>2, <1>3, <1>4, <1>7
<1> QED BY <1>8 DEF chosen

LEMMA CoreKeepsFunds ==
  ASSUME UkPlanner!OneFundPlanned, UkPlanner!PlanCore
  PROVE  UkPlanner!OneFundPlanned'
<1>1. /\ v1 \in Settings /\ v2 \subseteq UkPlanner!Line /\ v7 \in BOOLEAN
      /\ v6 \in UkPlanner!LinesChosen /\ v6.trim = {} /\ v6.buys = {}
      /\ (v6.sold \cup v6.atLoss \cup v6.keep) \cap UkPlanner!Core = {}
      /\ v5' = "season" /\ v1' = v1 /\ v2' = v2 /\ v7' = v7
  BY DEF UkPlanner!OneFundPlanned, UkPlanner!StepsInOrder, UkPlanner!PlanCore
<1>2. PICK rank \in UkPlanner!Ranks, leaving \in SUBSET UkPlanner!HeldSlots :
        \E f \in UkPlanner!Fates({t \in v2 : UkPlanner!Slot(t) \in leaving}) :
          LET p == UkPlanner!SellAll(v6, f, FALSE)
          IN v6' = [p EXCEPT !.keep = @ \cup UkPlanner!CoreChosen(p, UkPlanner!CoreKept(p, leaving), rank)]
  BY DEF UkPlanner!PlanCore
<1> DEFINE lines == {t \in v2 : UkPlanner!Slot(t) \in leaving}
<1>3. PICK f \in UkPlanner!Fates(lines) :
        LET p == UkPlanner!SellAll(v6, f, FALSE)
        IN v6' = [p EXCEPT !.keep = @ \cup UkPlanner!CoreChosen(p, UkPlanner!CoreKept(p, leaving), rank)]
  BY <1>2
<1> DEFINE p == UkPlanner!SellAll(v6, f, FALSE)
           kept == UkPlanner!CoreKept(p, leaving)
           chosen == UkPlanner!CoreChosen(p, kept, rank)
<1>4. v6' = [p EXCEPT !.keep = p.keep \cup chosen]
  BY <1>3
<1>5. lines \in SUBSET v2
  OBVIOUS
<1>6. /\ p \in UkPlanner!LinesChosen
      /\ p.keep = v6.keep /\ p.buys = v6.buys /\ p.trim = v6.trim
      /\ p.sold \subseteq v6.sold \cup lines /\ p.atLoss \subseteq v6.atLoss \cup lines
  <2>1. v6 \in UkPlanner!LinesChosen
    BY <1>1
  <2>2. f \in UkPlanner!Fates(lines)
    OBVIOUS
  <2> HIDE DEF lines
  <2>3. Asked(v6, lines, p)
    BY <1>5, <2>1, <2>2, SoldOrLeft
  <2> HIDE DEF p
  <2> QED BY <2>3 DEF Asked
<1> HIDE DEF p
<1>7. UkPlanner!HeldSlots \subseteq Fund
  BY SlotOfCore DEF UkPlanner!HeldSlots
<1>8. kept \in SUBSET UkPlanner!HeldSlots /\ kept \in SUBSET Fund
  BY <1>7 DEF UkPlanner!CoreKept
<1> HIDE DEF kept
<1>9. /\ kept \subseteq chosen /\ chosen \subseteq Fund
      /\ \A s \in chosen \ kept : Group[s] \notin UkPlanner!Taken(p, kept)
      /\ (\A s, u \in kept : Group[s] = Group[u] => s = u)
         => (\A s, u \in chosen : Group[s] = Group[u] => s = u)
  BY <1>8, ChosenFunds, Zenon
<1> HIDE DEF chosen
<1>10. /\ v6' \in UkPlanner!LinesChosen /\ v6'.keep = v6.keep \cup chosen
       /\ v6'.sold = p.sold /\ v6'.atLoss = p.atLoss /\ v6'.trim = {} /\ v6'.buys = {}
  BY <1>1, <1>4, <1>6, <1>9, CoreIsLine DEF UkPlanner!LinesChosen
<1>11. UkPlanner!StepsInOrder'
  <2>1. v6' \in UkPlanner!LinesChosen'
    BY <1>1, <1>10 DEF UkPlanner!LinesChosen
  <2> QED BY <1>1, <1>10, <2>1 DEF UkPlanner!StepsInOrder
<1>12. UkPlanner!OneFundPerGroup'
  BY <1>1 DEF UkPlanner!OneFundPlanned, UkPlanner!OneFundPerGroup
<1>13. v6'.keep \cap Fund = chosen
  BY <1>1, <1>9, <1>10, LinesOfAFund
<1>14. ASSUME ~v7 PROVE UkPlanner!KeptFundsDiffer' /\ UkPlanner!LeaversGo' /\ UkPlanner!SwitchesSettle'
  <2>1. \A t, u \in v2 \cap UkPlanner!Core :
          Group[UkPlanner!Slot(t)] = Group[UkPlanner!Slot(u)] => UkPlanner!Slot(t) = UkPlanner!Slot(u)
    BY <1>14 DEF UkPlanner!OneFundPlanned, UkPlanner!OneFundPerGroup
  <2>2. \A s, u \in UkPlanner!HeldSlots : Group[s] = Group[u] => s = u
    BY <2>1 DEF UkPlanner!HeldSlots
  <2>3. \A s, u \in chosen : Group[s] = Group[u] => s = u
    BY <1>8, <1>9, <2>2
  <2>4. ASSUME NEW t \in v2 \cap UkPlanner!Core, t \notin p.sold,
               NEW s \in chosen, Group[s] = Group[UkPlanner!Slot(t)]
        PROVE  s = UkPlanner!Slot(t)
    <3>1. UkPlanner!Slot(t) \in UkPlanner!HeldSlots
      BY DEF UkPlanner!HeldSlots
    <3>2. CASE UkPlanner!Slot(t) \in kept
      BY <1>9, <2>3, <2>4, <3>2
    <3>3. CASE s \in kept
      BY <1>8, <2>2, <2>4, <3>1, <3>3
    <3>4. CASE UkPlanner!Slot(t) \notin kept /\ s \notin kept
      <4>1. UkPlanner!Slot(t) \in leaving /\ t \in lines
        BY <3>1, <3>4 DEF kept, UkPlanner!CoreKept
      <4>2. t \in UkPlanner!LinesOf(UkPlanner!Slot(t))
        BY <1>1 DEF UkPlanner!LinesOf
      <4>3. v2 \cap UkPlanner!LinesOf(UkPlanner!Slot(t)) \cap p.atLoss # {}
        BY <2>4, <3>4, <4>1, <4>2 DEF kept, UkPlanner!CoreKept
      <4>4. PICK u \in v2 : u \in p.atLoss /\ UkPlanner!Slot(u) = UkPlanner!Slot(t)
        BY <4>3 DEF UkPlanner!LinesOf
      <4>5. u \in UkPlanner!Core
        <5>1. UkPlanner!Slot(t) \in Fund
          BY SlotOfCore
        <5> QED BY <4>4, <5>1, OnlyCoreLinesHaveFunds
      <4>6. Group[UkPlanner!Slot(t)] \in UkPlanner!Taken(p, kept)
        BY <4>4, <4>5 DEF UkPlanner!Taken
      <4> QED BY <1>9, <2>4, <3>4, <4>6
    <3> QED BY <3>2, <3>3, <3>4
  <2>5. UkPlanner!KeptFundsDiffer'
    BY <1>13, <2>3 DEF UkPlanner!KeptFundsDiffer
  <2>6. UkPlanner!LeaversGo'
    BY <1>1, <1>10, <1>13, <2>4 DEF UkPlanner!LeaversGo, UkPlanner!Settled
  <2>7. UkPlanner!SwitchesSettle'
    BY <1>10 DEF UkPlanner!SwitchesSettle
  <2> QED BY <2>5, <2>6, <2>7
<1> QED BY <1>1, <1>11, <1>12, <1>14 DEF UkPlanner!OneFundPlanned

LEMMA RebalanceKeepsFunds ==
  ASSUME UkPlanner!OneFundPlanned, UkPlanner!Rebalance
  PROVE  UkPlanner!OneFundPlanned'
<1>1. /\ v1 \in Settings /\ v2 \subseteq UkPlanner!Line /\ v7 \in BOOLEAN /\ UkPlanner!OneFundPerGroup
      /\ v5 = "season" /\ v6 \in UkPlanner!LinesChosen /\ v6.trim = {} /\ v6.buys = {}
      /\ v5' = "harvest" /\ v1' = v1 /\ v2' = v2 /\ v7' = v7
  BY DEF UkPlanner!OneFundPlanned, UkPlanner!StepsInOrder, UkPlanner!Rebalance
<1>2. PICK over \in SUBSET {UkPlanner!Slot(t) : t \in v2 \ v6.atLoss}, force \in BOOLEAN :
        \E f \in UkPlanner!Fates({t \in v2 : UkPlanner!Slot(t) \in over}) :
          LET p == UkPlanner!SellAll(v6, f, force) IN v6' = [p EXCEPT !.trim = p.sold \ v6.sold]
  BY DEF UkPlanner!Rebalance
<1> DEFINE lines == {t \in v2 : UkPlanner!Slot(t) \in over}
<1>3. PICK f \in UkPlanner!Fates(lines) :
        LET p == UkPlanner!SellAll(v6, f, force) IN v6' = [p EXCEPT !.trim = p.sold \ v6.sold]
  BY <1>2
<1> DEFINE p == UkPlanner!SellAll(v6, f, force)
<1>4. v6' = [p EXCEPT !.trim = p.sold \ v6.sold]
  BY <1>3
<1>5. lines \in SUBSET v2 /\ v6 \in UkPlanner!LinesChosen
  BY <1>1
<1>6. /\ p \in UkPlanner!LinesChosen /\ p.keep = v6.keep /\ p.buys = v6.buys
      /\ v6.sold \subseteq p.sold
  <2>1. lines \in SUBSET v2
    BY <1>5
  <2>2. v6 \in UkPlanner!LinesChosen
    BY <1>5
  <2>3. f \in UkPlanner!Fates(lines)
    OBVIOUS
  <2> HIDE DEF lines
  <2>4. Asked(v6, lines, p)
    BY <2>1, <2>2, <2>3, SoldOrLeft
  <2> HIDE DEF p
  <2> QED BY <2>4 DEF Asked
<1> HIDE DEF p
<1>7. /\ v6' \in UkPlanner!LinesChosen /\ v6'.keep = v6.keep /\ v6'.buys = {}
      /\ v6'.sold \ v6'.trim = v6.sold \ v6.trim
  BY <1>1, <1>4, <1>6 DEF UkPlanner!LinesChosen
<1>8. UkPlanner!StepsInOrder'
  <2>1. v6' \in UkPlanner!LinesChosen'
    BY <1>1, <1>7 DEF UkPlanner!LinesChosen
  <2> QED BY <1>1, <1>7, <2>1 DEF UkPlanner!StepsInOrder
<1>9. ASSUME ~v7 PROVE UkPlanner!KeptFundsDiffer' /\ UkPlanner!LeaversGo' /\ UkPlanner!SwitchesSettle'
  <2>1. UkPlanner!KeptFundsDiffer /\ UkPlanner!LeaversGo
    BY <1>1, <1>9 DEF UkPlanner!OneFundPlanned
  <2> QED BY <1>1, <1>7, <2>1 DEF UkPlanner!KeptFundsDiffer, UkPlanner!LeaversGo, UkPlanner!SwitchesSettle, UkPlanner!Settled
<1> QED BY <1>1, <1>8, <1>9 DEF UkPlanner!OneFundPlanned, UkPlanner!OneFundPerGroup

LEMMA HarvestKeepsFunds ==
  ASSUME UkPlanner!OneFundPlanned, UkPlanner!Harvest
  PROVE  UkPlanner!OneFundPlanned'
<1>1. /\ v1 \in Settings /\ v2 \subseteq UkPlanner!Line /\ v7 \in BOOLEAN /\ UkPlanner!OneFundPerGroup
      /\ v5 = "harvest" /\ v6 \in UkPlanner!LinesChosen
      /\ v5' = "invest" /\ v1' = v1 /\ v2' = v2 /\ v7' = v7
  BY DEF UkPlanner!OneFundPlanned, UkPlanner!StepsInOrder, UkPlanner!Harvest
<1>2. PICK ts \in SUBSET {t \in v2 \cap UkPlanner!Core : UkPlanner!Harvestable(t)} :
        v6' = [v6 EXCEPT !.sold = v6.sold \cup ts, !.buys = {UkPlanner!OtherLine(t) : t \in ts}]
  BY DEF UkPlanner!Harvest
<1>3. {UkPlanner!OtherLine(t) : t \in ts} \subseteq UkPlanner!Core
  BY OtherLineStaysInItsSlot
<1>4. ts \subseteq v2 /\ \A t \in ts : t \in UkPlanner!Core /\ t \notin v6.sold \ v6.trim
  BY DEF UkPlanner!Harvestable
<1>5. /\ v6'.keep = v6.keep /\ v6'.trim = v6.trim /\ v6'.atLoss = v6.atLoss
      /\ v6'.sold = v6.sold \cup ts /\ v6'.buys = {UkPlanner!OtherLine(t) : t \in ts}
      /\ v6' \in UkPlanner!LinesChosen
  <2> DEFINE buys == {UkPlanner!OtherLine(t) : t \in ts}
  <2>1. buys \subseteq UkPlanner!Line
    BY <1>3, CoreIsLine
  <2>2. v6' = [v6 EXCEPT !.sold = v6.sold \cup ts, !.buys = buys]
    BY <1>2
  <2> HIDE DEF buys
  <2>3. /\ v6'.keep = v6.keep /\ v6'.trim = v6.trim /\ v6'.atLoss = v6.atLoss
        /\ v6'.sold = v6.sold \cup ts /\ v6'.buys = buys /\ v6' \in UkPlanner!LinesChosen
    BY <1>1, <1>4, <2>1, <2>2 DEF UkPlanner!LinesChosen
  <2> QED BY <2>3 DEF buys
<1>6. UkPlanner!StepsInOrder'
  <2>1. v6' \in UkPlanner!LinesChosen'
    BY <1>1, <1>5 DEF UkPlanner!LinesChosen
  <2> QED BY <1>1, <2>1 DEF UkPlanner!StepsInOrder
<1>7. ASSUME ~v7 PROVE UkPlanner!KeptFundsDiffer' /\ UkPlanner!LeaversGo' /\ UkPlanner!SwitchesSettle'
  <2>1. UkPlanner!KeptFundsDiffer /\ UkPlanner!LeaversGo
    BY <1>1, <1>7 DEF UkPlanner!OneFundPlanned
  <2>2. \A t : UkPlanner!Settled(t)' <=> UkPlanner!Settled(t)
    BY <1>5 DEF UkPlanner!Settled
  <2>3. UkPlanner!KeptFundsDiffer'
    BY <1>5, <2>1 DEF UkPlanner!KeptFundsDiffer
  <2>4. UkPlanner!LeaversGo'
    BY <1>1, <1>5, <2>1, <2>2 DEF UkPlanner!LeaversGo
  <2>5. ASSUME NEW b \in v6'.buys
        PROVE  \E t \in v2 \cap UkPlanner!Core :
                 b \in UkPlanner!Core /\ UkPlanner!Slot(b) = UkPlanner!Slot(t) /\ UkPlanner!Settled(t)'
    <3>1. PICK t \in ts : b = UkPlanner!OtherLine(t)
      BY <1>5
    <3>2. t \in v2 \cap UkPlanner!Core /\ UkPlanner!Settled(t)'
      BY <1>4, <2>1, <2>2 DEF UkPlanner!LeaversGo
    <3> QED BY <3>1, <3>2, OtherLineStaysInItsSlot
  <2>6. UkPlanner!SwitchesSettle'
    BY <1>1, <2>5 DEF UkPlanner!SwitchesSettle
  <2> QED BY <2>3, <2>4, <2>6
<1> QED BY <1>1, <1>6, <1>7 DEF UkPlanner!OneFundPlanned, UkPlanner!OneFundPerGroup

\* What is held afterwards stayed, or came from a switch, or was bought for a
\* fund that was kept.
LEMMA InvestKeepsFunds ==
  ASSUME UkPlanner!OneFundPlanned, UkPlanner!Invest
  PROVE  UkPlanner!OneFundPlanned'
<1>1. /\ v1 \in Settings /\ v2 \subseteq UkPlanner!Line /\ v7 \in BOOLEAN /\ UkPlanner!OneFundPerGroup
      /\ v5 = "invest" /\ v6 \in UkPlanner!LinesChosen
      /\ v5' = "satellite" /\ v1' = v1 /\ v6' = UkPlanner!NoPlan
  BY DEF UkPlanner!OneFundPlanned, UkPlanner!StepsInOrder, UkPlanner!Invest
<1>2. PICK gone \in SUBSET v6.sold, done \in SUBSET (v6.buys \cup UkPlanner!Purchases) :
        /\ v2' = (v2 \ gone) \cup done
        /\ v7' = (v7 \/ ~(v6.sold \subseteq gone \cup v6.trim))
  BY DEF UkPlanner!Invest
<1>3. ASSUME NEW t \in UkPlanner!Purchases
      PROVE  t \in UkPlanner!Line /\ UkPlanner!Slot(t) \in v6.keep
  BY DEF UkPlanner!Purchases, UkPlanner!TickerFor, UkPlanner!LinesOf
<1>4. v2' \subseteq UkPlanner!Line /\ v7' \in BOOLEAN
  <2>1. v6.buys \subseteq UkPlanner!Line
    BY <1>1 DEF UkPlanner!LinesChosen
  <2>2. v7' \in BOOLEAN
    BY <1>2, Zenon
  <2> QED BY <1>1, <1>2, <1>3, <2>1, <2>2
<1>5. UkPlanner!StepsInOrder'
  BY <1>1, <1>4 DEF UkPlanner!StepsInOrder, UkPlanner!NoPlan, UkPlanner!LinesChosen
<1>6. ASSUME ~v7',
             NEW t \in v2' \cap UkPlanner!Core, NEW u \in v2' \cap UkPlanner!Core,
             Group[UkPlanner!Slot(t)] = Group[UkPlanner!Slot(u)]
      PROVE  UkPlanner!Slot(t) = UkPlanner!Slot(u)
  <2>1. ~v7 /\ v6.sold \subseteq gone \cup v6.trim
    BY <1>2, <1>6, Zenon
  <2>2. UkPlanner!KeptFundsDiffer /\ UkPlanner!LeaversGo /\ UkPlanner!SwitchesSettle
    BY <1>1, <2>1 DEF UkPlanner!OneFundPlanned
  <2> DEFINE Stays(x) == \E h \in v2 \cap UkPlanner!Core :
                           UkPlanner!Slot(x) = UkPlanner!Slot(h) /\ UkPlanner!Settled(h)
             Bought(x) == UkPlanner!Slot(x) \in v6.keep \cap Fund
  <2>3. ASSUME NEW x \in v2' \cap UkPlanner!Core PROVE Stays(x) \/ Bought(x)
    <3>1. CASE x \in v2 \ gone
      BY <2>1, <2>2, <3>1 DEF UkPlanner!LeaversGo
    <3>2. CASE x \in v6.buys
      BY <2>2, <3>2 DEF UkPlanner!SwitchesSettle
    <3>3. CASE x \in UkPlanner!Purchases
      BY <1>3, <3>3, SlotOfCore
    <3> QED BY <1>2, <3>1, <3>2, <3>3
  <2>4. CASE Stays(t) /\ Stays(u)
    BY <1>1, <1>6, <2>1, <2>4 DEF UkPlanner!OneFundPerGroup
  <2>5. CASE Stays(t) /\ Bought(u)
    BY <1>6, <2>5 DEF UkPlanner!Settled
  <2>6. CASE Bought(t) /\ Stays(u)
    BY <1>6, <2>6 DEF UkPlanner!Settled
  <2>7. CASE Bought(t) /\ Bought(u)
    BY <1>6, <2>2, <2>7 DEF UkPlanner!KeptFundsDiffer
  <2> HIDE DEF Stays, Bought
  <2> QED BY <2>3, <2>4, <2>5, <2>6, <2>7
<1>7. UkPlanner!OneFundPerGroup'
  BY <1>6 DEF UkPlanner!OneFundPerGroup
<1> QED BY <1>1, <1>5, <1>7 DEF UkPlanner!OneFundPlanned

LEMMA UkPlannerStep ==
  ASSUME UkPlanner!OneFundPlanned, NextUkPlanner
  PROVE  UkPlanner!OneFundPlanned'
  BY SatelliteKeepsFunds, CoreKeepsFunds, RebalanceKeepsFunds, HarvestKeepsFunds, InvestKeepsFunds
     DEF NextUkPlanner

LEMMA OneFundKept == Spec => [](focus = "planner_uk" => UkPlanner!OneFundPlanned)
<1> DEFINE Inv == focus = "planner_uk" => UkPlanner!OneFundPlanned
<1>1. Init => Inv
  BY WhoStarts, UkPlannerInit DEF Init, InitUkPlanner
<1>2. Inv /\ [Next]_vars => Inv'
  <2> SUFFICES ASSUME Inv, [Next]_vars, focus' = "planner_uk" PROVE UkPlanner!OneFundPlanned'
    OBVIOUS
  <2>1. UkPlanner!OneFundPlanned
    BY FocusStays
  <2>2. CASE Next
    BY <2>1, <2>2, WhoSteps, UkPlannerStep DEF Next
  <2>3. CASE UNCHANGED vars
    BY <2>1, <2>3 DEF vars, UkPlanner!OneFundPlanned, UkPlanner!StepsInOrder, UkPlanner!OneFundPerGroup, UkPlanner!LinesChosen, UkPlanner!KeptFundsDiffer, UkPlanner!LeaversGo, UkPlanner!SwitchesSettle, UkPlanner!Settled
  <2> QED BY <2>2, <2>3
<1> QED BY <1>1, <1>2, PTL DEF Spec

(* The core holdings of the UK growth bot have at most one fund of a group  *)
(* after every cycle whose sales were carried out in full, through          *)
(* rotations refused at a loss, deferrals, twins and rebalancing            *)
(* (uk_growth_bot/planner.py).                                             *)
THEOREM OneFundForEachGroup == Spec => []OneFundPerGroup
<1> DEFINE Inv == focus = "planner_uk" => UkPlanner!OneFundPlanned
<1>1. Inv => OneFundPerGroup
  BY DEF UkPlanner!OneFundPlanned, OneFundPerGroup, UkPlanner!OneFundPerGroup
<1> QED BY <1>1, OneFundKept, PTL

-----------------------------------------------------------------------------
(* The India growth bot's planner (InPlanner).                             *)

LEMMA SharesCounted == \A S : InPlanner!Cardinality(S) = Cardinality(S)
  BY Zenon DEF InPlanner!Cardinality, Cardinality

\* The shares of a sector that are picked fit in beside those that are there.
LEMMA PicksFitIn ==
  ASSUME NEW p, p.atLoss \subseteq Share, NEW keep \in SUBSET Share,
         NEW rank \in [1 .. Cardinality(Share) -> Share], NEW good, NEW g,
         Cardinality(InPlanner!Peers(p, keep, g)) <= MaxPerSector
  PROVE  Cardinality(InPlanner!Peers(p, InPlanner!Picked(p, keep, rank, good), g)) <= MaxPerSector
<1> DEFINE N == Cardinality(Share)
           peers == InPlanner!Peers(p, keep, g)
           eligible == InPlanner!Eligible(p, keep, rank, good)
           picked == InPlanner!Picked(p, keep, rank, good)
           fit == {i \in InPlanner!Fitting(p, keep, rank, good) : Sector[rank[i]] = g}
           before(i) == {j \in eligible : j < i /\ Sector[rank[j]] = g}
           there == {t \in picked \cup p.atLoss : Sector[t] = g}
<1>1. IsFiniteSet(Share) /\ N \in Nat /\ MaxPerSector \in Nat
  BY PoolAssumption, FS_CardinalityType
<1>2. eligible \subseteq 1 .. N
  BY DEF InPlanner!Eligible
<1>3. \A i \in fit : i \in eligible /\ Cardinality(peers) + Cardinality(before(i)) < MaxPerSector
  BY SharesCounted DEF InPlanner!Fitting
<1>4. there \subseteq peers \cup {rank[i] : i \in fit}
  BY DEF InPlanner!Picked, InPlanner!Peers
<1>5. peers \subseteq Share
  BY DEF InPlanner!Peers
<1> HIDE DEF eligible, peers, picked
<1>6. /\ IsFiniteSet(peers) /\ Cardinality(peers) \in Nat
  BY <1>1, <1>5, FS_Subset, FS_CardinalityType
<1>7. fit \subseteq eligible
  BY <1>3
<1>8. IsFiniteSet(1 .. N)
  BY <1>1, FS_Interval
<1>9. IsFiniteSet(fit) /\ Cardinality(fit) \in Nat
  <2> HIDE DEF fit
  <2> QED BY <1>2, <1>7, <1>8, FS_Subset, FS_CardinalityType
<1>10. Cardinality(peers) + Cardinality(fit) <= MaxPerSector
  <2>1. CASE fit = {}
    <3> HIDE DEF fit
    <3>1. Cardinality(fit) = 0
      BY <2>1, FS_EmptySet
    <3> QED BY <1>1, <1>6, <3>1 DEF peers
  <2>2. CASE fit # {}
    <3>1. fit \in SUBSET Int
      <4> HIDE DEF fit
      <4>1. \A i \in 1 .. N : i \in Int
        OBVIOUS
      <4> QED BY <1>2, <1>7, <4>1
    <3>2. PICK i \in fit : \A j \in fit : j <= i
      <4> HIDE DEF fit
      <4> QED BY <1>9, <2>2, <3>1, LastOf
    <3>3. \A j \in fit : j \in before(i) \cup {i}
      BY <1>7, <3>1, <3>2
    <3>4. Cardinality(peers) + Cardinality(before(i)) < MaxPerSector
      BY <1>3
    <3>5. before(i) \subseteq eligible
      OBVIOUS
    <3> HIDE DEF fit, before
    <3>6. IsFiniteSet(before(i)) /\ Cardinality(before(i)) \in Nat
      BY <1>2, <1>8, <3>5, FS_Subset, FS_CardinalityType
    <3>7. /\ IsFiniteSet(before(i) \cup {i})
          /\ Cardinality(before(i) \cup {i}) <= Cardinality(before(i)) + 1
      BY <3>6, FS_AddElement
    <3>8. fit \in SUBSET (before(i) \cup {i})
      BY <3>3
    <3>9. Cardinality(fit) <= Cardinality(before(i) \cup {i})
      BY <3>7, <3>8, FS_Subset
    <3>10. Cardinality(before(i) \cup {i}) \in Nat
      BY <3>7, FS_CardinalityType
    <3> QED BY <1>1, <1>6, <1>9, <3>4, <3>6, <3>7, <3>9, <3>10
  <2> QED BY <2>1, <2>2
<1> DEFINE new == {rank[i] : i \in fit}
<1>11. IsFiniteSet(new) /\ Cardinality(new) <= Cardinality(fit) /\ Cardinality(new) \in Nat
  <2> HIDE DEF fit
  <2>1. IsFiniteSet(new) /\ Cardinality(new) <= Cardinality(fit)
    BY <1>9, ImageIsNoLarger
  <2> QED BY <2>1, FS_CardinalityType
<1>12. there \in SUBSET (peers \cup new)
  BY <1>4
<1> HIDE DEF new, there, fit
<1>13. /\ IsFiniteSet(peers \cup new)
       /\ Cardinality(peers \cup new) = Cardinality(peers) + Cardinality(new) - Cardinality(peers \cap new)
  BY <1>6, <1>11, FS_Union
<1>14. Cardinality(peers \cap new) \in Nat
  BY <1>6, FS_Intersection, FS_CardinalityType
<1>15. Cardinality(there) <= Cardinality(peers \cup new) /\ Cardinality(there) \in Nat
  BY <1>12, <1>13, FS_Subset, FS_CardinalityType
<1>16. Cardinality(there) <= MaxPerSector
  BY <1>1, <1>6, <1>9, <1>10, <1>11, <1>13, <1>14, <1>15
<1>17. there = InPlanner!Peers(p, InPlanner!Picked(p, keep, rank, good), g)
  BY DEF there, picked, InPlanner!Peers
<1> QED BY <1>16, <1>17

\* What _sell does to a plan.
Offered(p, shares, q) ==
  /\ q \in InPlanner!SharesChosen
  /\ q.keep = p.keep /\ q.trim = p.trim /\ q.harvested = p.harvested
  /\ p.sold \subseteq q.sold /\ q.sold \subseteq p.sold \cup shares
  /\ p.atLoss \subseteq q.atLoss /\ q.atLoss \subseteq p.atLoss \cup (shares \ p.sold)

LEMMA SoldOrKept ==
  ASSUME NEW p \in InPlanner!SharesChosen, NEW shares \in SUBSET v1, NEW f \in InPlanner!Fates(shares)
  PROVE  Offered(p, shares, InPlanner!Sell(p, f))
<1> DEFINE q == InPlanner!Sell(p, f)
           left == shares \ p.sold
           loss == {t \in left : f[t] = "loss"}
           out == {t \in left : f[t] = "gain"}
<1>1. f \in [shares -> {"gain", "loss", "taxed"}]
  BY DEF InPlanner!Fates
<1>2. q = [p EXCEPT !.atLoss = p.atLoss \cup loss, !.sold = p.sold \cup out]
  BY <1>1 DEF InPlanner!Sell
<1>3. p \in [sold : SUBSET v1, trim : SUBSET v1, harvested : SUBSET v1, atLoss : SUBSET v1, keep : SUBSET Share]
  BY DEF InPlanner!SharesChosen
<1>4. out \subseteq shares /\ loss \subseteq shares \ p.sold
  OBVIOUS
<1> HIDE DEF q, out, loss
<1>5. Offered(p, shares, q)
  BY <1>2, <1>3, <1>4 DEF InPlanner!SharesChosen, Offered
<1> QED BY <1>5 DEF q

LEMMA InPlannerInit ==
  ASSUME InPlanner!Init
  PROVE  InPlanner!SectorsPlanned
<1>1. InPlanner!StepsInOrder
  BY DEF InPlanner!Init, InPlanner!StepsInOrder, InPlanner!SharesChosen, InPlanner!NoPlan
<1>2. InPlanner!SectorCap
  BY DEF InPlanner!Init, InPlanner!SectorCap
<1> QED BY <1>1, <1>2 DEF InPlanner!Init, InPlanner!SectorsPlanned

LEMMA PortfolioKeepsTheCap ==
  ASSUME InPlanner!SectorsPlanned, InPlanner!PlanPortfolio
  PROVE  InPlanner!SectorsPlanned'
<1>1. /\ v1 \subseteq Share /\ v2 \subseteq Share /\ v5 \in BOOLEAN /\ InPlanner!SectorCap
      /\ v4 = InPlanner!NoPlan /\ v3' = "season" /\ v1' = v1 /\ v2' = v2 /\ v5' = v5
  BY DEF InPlanner!SectorsPlanned, InPlanner!StepsInOrder, InPlanner!PlanPortfolio
<1>2. PICK rank \in [1 .. InPlanner!Cardinality(Share) -> Share], good \in SUBSET Share,
           crashed \in SUBSET (v1 \ v2) :
        \E out \in SUBSET (v1 \ (v2 \cup crashed)) : \E f \in InPlanner!Fates(out) :
          LET p == InPlanner!Sell([v4 EXCEPT !.sold = crashed], f)
              keep == (v1 \cup v2) \ (p.sold \cup p.atLoss)
          IN v4' = [p EXCEPT !.keep = InPlanner!Picked(p, keep, rank, good)]
  BY DEF InPlanner!PlanPortfolio
<1>3. PICK out \in SUBSET (v1 \ (v2 \cup crashed)) : \E f \in InPlanner!Fates(out) :
        LET p == InPlanner!Sell([v4 EXCEPT !.sold = crashed], f)
            keep == (v1 \cup v2) \ (p.sold \cup p.atLoss)
        IN v4' = [p EXCEPT !.keep = InPlanner!Picked(p, keep, rank, good)]
  BY <1>2
<1>4. PICK f \in InPlanner!Fates(out) :
        LET p == InPlanner!Sell([v4 EXCEPT !.sold = crashed], f)
            keep == (v1 \cup v2) \ (p.sold \cup p.atLoss)
        IN v4' = [p EXCEPT !.keep = InPlanner!Picked(p, keep, rank, good)]
  BY <1>3
<1> DEFINE p0 == [v4 EXCEPT !.sold = crashed]
           p == InPlanner!Sell(p0, f)
           keep == (v1 \cup v2) \ (p.sold \cup p.atLoss)
           picked == InPlanner!Picked(p, keep, rank, good)
<1>5. v4' = [p EXCEPT !.keep = picked]
  BY <1>4
<1>6. /\ p0 \in InPlanner!SharesChosen /\ p0.sold = crashed
      /\ p0.atLoss = {} /\ p0.trim = {} /\ p0.harvested = {}
  BY <1>1 DEF InPlanner!NoPlan, InPlanner!SharesChosen
<1> HIDE DEF p0
<1>7. /\ p \in InPlanner!SharesChosen /\ p.trim = {} /\ p.harvested = {}
      /\ p.sold \subseteq v1 \ v2
  <2>1. out \in SUBSET v1
    OBVIOUS
  <2>2. Offered(p0, out, p)
    BY <1>6, <2>1, SoldOrKept
  <2> HIDE DEF p
  <2> QED BY <1>6, <2>2 DEF Offered
<1> HIDE DEF p
<1>8. p.atLoss \subseteq v1 /\ keep \subseteq Share /\ p.atLoss \subseteq Share
  BY <1>1, <1>7 DEF InPlanner!SharesChosen
<1>9. keep \cup p.atLoss \subseteq v1 \cup v2 /\ v1 \cup v2 \subseteq keep \cup p.atLoss \cup p.sold
      /\ v2 \subseteq keep \cup p.atLoss
  BY <1>7, <1>8
<1>10. keep \subseteq picked /\ picked \subseteq Share
  BY <1>8 DEF InPlanner!Picked, InPlanner!Fitting, InPlanner!Eligible
<1>11. ASSUME ~v5, NEW t \in Share
       PROVE  Cardinality({u \in picked \cup p.atLoss : Sector[u] = Sector[t]}) <= MaxPerSector
  <2> DEFINE peers == InPlanner!Peers(p, keep, Sector[t])
             owned == {u \in v1 \cup v2 : Sector[u] = Sector[t]}
  <2>1. peers \subseteq owned /\ owned \subseteq Share
    BY <1>1, <1>9 DEF InPlanner!Peers
  <2>2. Cardinality(owned) <= MaxPerSector
    <3>1. CASE owned = {}
      <4> HIDE DEF owned
      <4> QED BY <3>1, FS_EmptySet, PoolAssumption
    <3>2. CASE owned # {}
      <4>1. PICK u \in v1 \cup v2 : Sector[u] = Sector[t]
        BY <3>2
      <4>2. InPlanner!Cardinality({x \in v1 \cup v2 : Sector[x] = Sector[u]}) <= MaxPerSector
        BY <1>1, <1>11 DEF InPlanner!SectorCap
      <4> QED BY <4>1, <4>2, SharesCounted
    <3> QED BY <3>1, <3>2
  <2> HIDE DEF peers, owned
  <2>3. Cardinality(peers) <= MaxPerSector
    <3>1. IsFiniteSet(owned)
      BY <2>1, PoolAssumption, FS_Subset
    <3>2. /\ Cardinality(peers) <= Cardinality(owned) /\ Cardinality(peers) \in Nat
          /\ Cardinality(owned) \in Nat
      BY <2>1, <3>1, FS_Subset, FS_CardinalityType
    <3> QED BY <2>2, <3>2, PoolAssumption
  <2>4. rank \in [1 .. Cardinality(Share) -> Share]
    BY SharesCounted
  <2>5. picked = InPlanner!Picked(p, keep, rank, good)
    OBVIOUS
  <2> HIDE DEF keep, picked
  <2>6. Cardinality(InPlanner!Peers(p, picked, Sector[t])) <= MaxPerSector
    BY <1>8, <2>3, <2>4, <2>5, PicksFitIn DEF peers
  <2> QED BY <2>6 DEF InPlanner!Peers
<1> HIDE DEF picked, keep
<1>12. /\ v4' \in InPlanner!SharesChosen /\ v4'.keep = picked /\ v4'.atLoss = p.atLoss
       /\ v4'.sold = p.sold /\ v4'.trim = {} /\ v4'.harvested = {}
  BY <1>5, <1>7, <1>10 DEF InPlanner!SharesChosen
<1>13. InPlanner!StepsInOrder'
  <2>1. v4' \in InPlanner!SharesChosen'
    BY <1>1, <1>12 DEF InPlanner!SharesChosen
  <2> QED BY <1>1, <1>12, <2>1 DEF InPlanner!StepsInOrder
<1>14. InPlanner!OwnedAreMembers'
  BY <1>1, <1>9, <1>10, <1>12 DEF InPlanner!OwnedAreMembers, InPlanner!Members
<1>15. ASSUME ~v5 PROVE InPlanner!MembersCapped'
  BY <1>11, <1>12, <1>15, SharesCounted DEF InPlanner!MembersCapped, InPlanner!Members
<1>16. InPlanner!SectorCap'
  BY <1>1 DEF InPlanner!SectorCap
<1> QED BY <1>1, <1>13, <1>14, <1>15, <1>16 DEF InPlanner!SectorsPlanned

\* A sale asked for later takes no member away: it is trimmed, or noted as held
\* at a loss.
LEMMA SeasonKeepsTheCap ==
  ASSUME InPlanner!SectorsPlanned, InPlanner!Rebalance \/ InPlanner!Harvest
  PROVE  InPlanner!SectorsPlanned'
<1>1. /\ v1 \subseteq Share /\ v2 \subseteq Share /\ v5 \in BOOLEAN /\ InPlanner!SectorCap
      /\ v3 = "season" /\ v4 \in InPlanner!SharesChosen /\ v4.trim = {} /\ v4.harvested = {}
      /\ InPlanner!OwnedAreMembers
      /\ v3' = "invest" /\ v1' = v1 /\ v2' = v2 /\ v5' = v5
  BY DEF InPlanner!SectorsPlanned, InPlanner!StepsInOrder, InPlanner!Rebalance, InPlanner!Harvest
<1>2. /\ v4' \in InPlanner!SharesChosen
      /\ v4'.keep \cup v4'.atLoss = v4.keep \cup v4.atLoss
      /\ v4'.sold \ v4'.trim = v4.sold /\ v4'.harvested \subseteq v1 \ v4.sold
  <2>1. CASE InPlanner!Rebalance
    <3>1. PICK over \in SUBSET v1 : \E f \in InPlanner!Fates(over) :
            LET p == InPlanner!Sell(v4, f) IN v4' = [p EXCEPT !.trim = p.sold \ v4.sold]
      BY <2>1 DEF InPlanner!Rebalance
    <3>2. PICK f \in InPlanner!Fates(over) :
            LET p == InPlanner!Sell(v4, f) IN v4' = [p EXCEPT !.trim = p.sold \ v4.sold]
      BY <3>1
    <3> DEFINE p == InPlanner!Sell(v4, f)
    <3>3. v4' = [p EXCEPT !.trim = p.sold \ v4.sold]
      BY <3>2
    <3>4. Offered(v4, over, p)
      BY <1>1, SoldOrKept
    <3> HIDE DEF p
    <3>5. /\ v4' \in InPlanner!SharesChosen /\ v4'.keep = v4.keep /\ v4'.atLoss = p.atLoss
          /\ v4'.sold = p.sold /\ v4'.trim = p.sold \ v4.sold /\ v4'.harvested = {}
          /\ v4.sold \subseteq p.sold
      BY <1>1, <3>3, <3>4 DEF Offered, InPlanner!SharesChosen
    <3>6. v4.atLoss \subseteq p.atLoss /\ p.atLoss \subseteq v4.keep \cup v4.atLoss
      BY <1>1, <3>4 DEF Offered, InPlanner!OwnedAreMembers, InPlanner!Members
    <3> QED BY <3>5, <3>6
  <2>2. CASE InPlanner!Harvest
    <3>1. PICK ts \in SUBSET (v1 \ (v4.sold \cup v4.atLoss)) :
            v4' = [v4 EXCEPT !.sold = v4.sold \cup ts, !.trim = ts, !.harvested = ts]
      BY <2>2 DEF InPlanner!Harvest
    <3>2. /\ v4' \in InPlanner!SharesChosen /\ v4'.keep = v4.keep /\ v4'.atLoss = v4.atLoss
          /\ v4'.sold = v4.sold \cup ts /\ v4'.trim = ts /\ v4'.harvested = ts
      BY <1>1, <3>1 DEF InPlanner!SharesChosen
    <3> QED BY <3>2
  <2> QED BY <2>1, <2>2
<1>3. InPlanner!StepsInOrder'
  <2>1. v4' \in InPlanner!SharesChosen'
    BY <1>1, <1>2 DEF InPlanner!SharesChosen
  <2> QED BY <1>1, <2>1 DEF InPlanner!StepsInOrder
<1>4. InPlanner!OwnedAreMembers'
  BY <1>1, <1>2 DEF InPlanner!OwnedAreMembers, InPlanner!Members
<1>5. ASSUME ~v5 PROVE InPlanner!MembersCapped'
  <2>1. InPlanner!MembersCapped
    BY <1>1, <1>5 DEF InPlanner!SectorsPlanned
  <2> QED BY <1>2, <2>1 DEF InPlanner!MembersCapped, InPlanner!Members
<1>6. InPlanner!SectorCap'
  BY <1>1 DEF InPlanner!SectorCap
<1> QED BY <1>1, <1>3, <1>4, <1>5, <1>6 DEF InPlanner!SectorsPlanned

LEMMA InvestKeepsTheCap ==
  ASSUME InPlanner!SectorsPlanned, InPlanner!Invest
  PROVE  InPlanner!SectorsPlanned'
<1>1. /\ v1 \subseteq Share /\ v2 \subseteq Share /\ v5 \in BOOLEAN /\ v3 = "invest"
      /\ v4 \in InPlanner!SharesChosen /\ InPlanner!OwnedAreMembers
      /\ v3' = "portfolio" /\ v4' = InPlanner!NoPlan
  BY DEF InPlanner!SectorsPlanned, InPlanner!StepsInOrder, InPlanner!Invest
<1>2. PICK gone \in SUBSET v4.sold, back \in SUBSET v2, new \in SUBSET InPlanner!Buyable(v4) :
        /\ v1' = (v1 \ gone) \cup back \cup new
        /\ v2' \subseteq v2 \cup v4.harvested
        /\ v5' = (v5 \/ ~(v4.sold \subseteq gone \cup v4.trim))
  BY DEF InPlanner!Invest
<1>3. new \subseteq v4.keep
  BY DEF InPlanner!Buyable
<1>4. v1' \subseteq Share /\ v2' \subseteq Share /\ v5' \in BOOLEAN
  <2>1. v4.keep \subseteq Share /\ v4.harvested \subseteq Share
    BY <1>1 DEF InPlanner!SharesChosen
  <2>2. v5' \in BOOLEAN
    BY <1>2, Zenon
  <2> QED BY <1>1, <1>2, <1>3, <2>1, <2>2
<1>5. InPlanner!StepsInOrder'
  BY <1>1, <1>4 DEF InPlanner!StepsInOrder, InPlanner!NoPlan, InPlanner!SharesChosen
<1>6. ASSUME ~v5', NEW t \in v1' \cup v2'
      PROVE  Cardinality({u \in v1' \cup v2' : Sector[u] = Sector[t]}) <= MaxPerSector
  <2>1. ~v5 /\ v4.sold \subseteq gone \cup v4.trim
    BY <1>2, <1>6, Zenon
  <2>2. v1' \cup v2' \subseteq InPlanner!Members
    BY <1>1, <1>2, <1>3, <2>1 DEF InPlanner!OwnedAreMembers, InPlanner!Members
  <2> DEFINE owned == {u \in v1' \cup v2' : Sector[u] = Sector[t]}
             members == {u \in InPlanner!Members : Sector[u] = Sector[t]}
  <2>3. owned \in SUBSET members
    BY <2>2
  <2>4. members \in SUBSET Share
    BY <1>1 DEF InPlanner!Members, InPlanner!SharesChosen
  <2>5. t \in Share
    BY <1>4
  <2>6. Cardinality(members) <= MaxPerSector
    BY <1>1, <2>1, <2>5, SharesCounted DEF InPlanner!SectorsPlanned, InPlanner!MembersCapped
  <2> HIDE DEF owned, members
  <2>7. IsFiniteSet(members) /\ Cardinality(members) \in Nat
    BY <2>4, PoolAssumption, FS_Subset, FS_CardinalityType
  <2>8. Cardinality(owned) <= Cardinality(members) /\ Cardinality(owned) \in Nat
    BY <2>3, <2>7, FS_Subset, FS_CardinalityType
  <2>9. Cardinality(owned) <= MaxPerSector
    BY <2>6, <2>7, <2>8, PoolAssumption
  <2> QED BY <2>9 DEF owned
<1>7. InPlanner!SectorCap'
  BY <1>6, SharesCounted DEF InPlanner!SectorCap
<1> QED BY <1>1, <1>5, <1>7 DEF InPlanner!SectorsPlanned

LEMMA InPlannerStep ==
  ASSUME InPlanner!SectorsPlanned, NextInPlanner
  PROVE  InPlanner!SectorsPlanned'
  BY PortfolioKeepsTheCap, SeasonKeepsTheCap, InvestKeepsTheCap DEF NextInPlanner

LEMMA SectorsKept == Spec => [](focus = "planner_in" => InPlanner!SectorsPlanned)
<1> DEFINE Inv == focus = "planner_in" => InPlanner!SectorsPlanned
<1>1. Init => Inv
  BY WhoStarts, InPlannerInit DEF Init, InitInPlanner
<1>2. Inv /\ [Next]_vars => Inv'
  <2> SUFFICES ASSUME Inv, [Next]_vars, focus' = "planner_in" PROVE InPlanner!SectorsPlanned'
    OBVIOUS
  <2>1. InPlanner!SectorsPlanned
    BY FocusStays
  <2>2. CASE Next
    BY <2>1, <2>2, WhoSteps, InPlannerStep DEF Next
  <2>3. CASE UNCHANGED vars
    BY <2>1, <2>3 DEF vars, InPlanner!SectorsPlanned, InPlanner!StepsInOrder, InPlanner!SectorCap, InPlanner!SharesChosen, InPlanner!OwnedAreMembers, InPlanner!Members, InPlanner!MembersCapped
  <2> QED BY <2>2, <2>3
<1> QED BY <1>1, <1>2, PTL DEF Spec

(* What the India growth bot owns, the shares it waits to buy back         *)
(* included, has no more shares of a sector than it allows after every     *)
(* cycle whose sales were carried out in full (in_growth_bot/planner.py).  *)
THEOREM NoSectorIsCrowded == Spec => []SectorCap
<1> DEFINE Inv == focus = "planner_in" => InPlanner!SectorsPlanned
<1>1. Inv => SectorCap
  BY DEF InPlanner!SectorsPlanned, SectorCap, InPlanner!SectorCap
<1> QED BY <1>1, SectorsKept, PTL

-----------------------------------------------------------------------------
(* The sum of a weight over a finite set: the recursive function behind it *)
(* exists, and is the same whichever element is taken first.               *)

FirstOf(S) == CHOOSE x \in S : TRUE
Rest(S) == S \ {FirstOf(S)}

SumsUp(w, S, h) ==
  h = [s \in SUBSET S |-> IF s = {} THEN 0 ELSE w[FirstOf(s)] + h[Rest(s)]]
SumOf(w, S) == CHOOSE h : SumsUp(w, S, h)
Sum(w, S) == SumOf(w, S)[S]
Alike(w, v, S) == \A x \in S : w[x] = v[x]

LEMMA FirstAndRest ==
  ASSUME NEW S, S # {}
  PROVE  FirstOf(S) \in S /\ Rest(S) \subseteq S /\ Rest(S) # S /\ S = Rest(S) \cup {FirstOf(S)}
  BY DEF FirstOf, Rest

LEMMA SumUnrolled ==
  ASSUME NEW w, NEW S, NEW h, SumsUp(w, S, h), NEW s \in SUBSET S
  PROVE  h[s] = IF s = {} THEN 0 ELSE w[FirstOf(s)] + h[Rest(s)]
  BY DEF SumsUp

LEMMA SumIsUnique ==
  ASSUME NEW S, IsFiniteSet(S), NEW T \in SUBSET S, NEW w, NEW v, Alike(w, v, T),
         NEW g, SumsUp(w, S, g), NEW h, SumsUp(v, T, h)
  PROVE  \A s \in SUBSET T : g[s] = h[s]
<1> DEFINE Bad == {s \in SUBSET T : g[s] # h[s]}
<1> SUFFICES ASSUME Bad # {} PROVE FALSE
  OBVIOUS
<1>1. IsFiniteSet(T) /\ Bad \in SUBSET (SUBSET T)
  BY FS_Subset
<1> HIDE DEF Bad
<1>2. PICK s \in Bad : \A u \in Bad : u \subseteq s => u = s
  BY <1>1, SmallestOf
<1>3. s \in SUBSET T /\ s \in SUBSET S /\ g[s] # h[s]
  BY DEF Bad
<1>4. s # {}
  BY <1>3, SumUnrolled
<1>5. Rest(s) \notin Bad /\ Rest(s) \in SUBSET T /\ w[FirstOf(s)] = v[FirstOf(s)]
  BY <1>2, <1>3, <1>4, FirstAndRest DEF Alike
<1>6. g[Rest(s)] = h[Rest(s)]
  BY <1>5 DEF Bad
<1>7. g[s] = w[FirstOf(s)] + g[Rest(s)] /\ h[s] = v[FirstOf(s)] + h[Rest(s)]
  BY <1>3, <1>4, SumUnrolled
<1> QED BY <1>3, <1>5, <1>6, <1>7

LEMMA SumExists ==
  ASSUME NEW w, NEW F, IsFiniteSet(F)
  PROVE  \A S \in SUBSET F : SumsUp(w, S, SumOf(w, S))
<1> DEFINE Bad == {S \in SUBSET F : ~SumsUp(w, S, SumOf(w, S))}
<1> SUFFICES ASSUME Bad # {} PROVE FALSE
  OBVIOUS
<1>1. Bad \in SUBSET (SUBSET F)
  OBVIOUS
<1> HIDE DEF Bad
<1>2. PICK S \in Bad : \A u \in Bad : u \subseteq S => u = S
  BY <1>1, SmallestOf
<1>3. S \in SUBSET F /\ ~SumsUp(w, S, SumOf(w, S))
  BY DEF Bad
<1>4. ASSUME NEW Q \in SUBSET S, Q # S PROVE SumsUp(w, Q, SumOf(w, Q)) /\ IsFiniteSet(Q)
  BY <1>2, <1>3, <1>4, FS_Subset DEF Bad
<1> DEFINE h == [s \in SUBSET S |-> IF s = {} THEN 0
                                    ELSE w[FirstOf(s)] + SumOf(w, Rest(s))[Rest(s)]]
<1>5. ASSUME NEW q \in SUBSET S, q # S PROVE h[q] = SumOf(w, q)[q]
  <2>1. SumsUp(w, q, SumOf(w, q)) /\ IsFiniteSet(q)
    BY <1>4, <1>5
  <2>2. SumOf(w, q)[q] = IF q = {} THEN 0 ELSE w[FirstOf(q)] + SumOf(w, q)[Rest(q)]
    BY <2>1, SumUnrolled
  <2>3. CASE q = {}
    BY <2>2, <2>3
  <2>4. CASE q # {}
    <3>1. Rest(q) \in SUBSET q /\ Rest(q) \in SUBSET S /\ Rest(q) # S
      BY <1>5, <2>4, FirstAndRest
    <3>2. SumsUp(w, Rest(q), SumOf(w, Rest(q)))
      BY <3>1, <1>4
    <3>3. SumOf(w, q)[Rest(q)] = SumOf(w, Rest(q))[Rest(q)]
      BY <2>1, <3>1, <3>2, SumIsUnique DEF Alike
    <3> QED BY <2>2, <2>4, <3>3
  <2> QED BY <2>3, <2>4
<1>6. ASSUME NEW s \in SUBSET S, s # {} PROVE h[Rest(s)] = SumOf(w, Rest(s))[Rest(s)]
  <2>1. Rest(s) \in SUBSET S /\ Rest(s) # S
    BY <1>6, FirstAndRest
  <2> HIDE DEF h
  <2> QED BY <1>5, <2>1
<1>7. SumsUp(w, S, h)
  <2>1. ASSUME NEW s \in SUBSET S
        PROVE  (IF s = {} THEN 0 ELSE w[FirstOf(s)] + SumOf(w, Rest(s))[Rest(s)])
                 = IF s = {} THEN 0 ELSE w[FirstOf(s)] + h[Rest(s)]
    <3> HIDE DEF h
    <3> QED BY <1>6
  <2>2. h = [s \in SUBSET S |-> IF s = {} THEN 0
                                ELSE w[FirstOf(s)] + SumOf(w, Rest(s))[Rest(s)]]
    OBVIOUS
  <2> HIDE DEF h
  <2>3. h = [s \in SUBSET S |-> IF s = {} THEN 0 ELSE w[FirstOf(s)] + h[Rest(s)]]
    BY <2>1, <2>2
  <2> QED BY <2>3 DEF SumsUp
<1> HIDE DEF h
<1>8. SumsUp(w, S, SumOf(w, S))
  BY <1>7 DEF SumOf
<1> QED BY <1>3, <1>8

Sums(w, S) == IsFiniteSet(S) /\ \A x \in S : w[x] \in Int

LEMMA SumFirst ==
  ASSUME NEW w, NEW S, IsFiniteSet(S)
  PROVE  Sum(w, S) = IF S = {} THEN 0
                                ELSE w[FirstOf(S)] + Sum(w, Rest(S))
<1>1. SumsUp(w, S, SumOf(w, S)) /\ \A T \in SUBSET S : SumsUp(w, T, SumOf(w, T))
  BY SumExists
<1>2. SumOf(w, S)[S] = IF S = {} THEN 0 ELSE w[FirstOf(S)] + SumOf(w, S)[Rest(S)]
  BY <1>1, SumUnrolled
<1>3. ASSUME S # {} PROVE SumOf(w, S)[Rest(S)] = SumOf(w, Rest(S))[Rest(S)]
  <2>1. Rest(S) \in SUBSET S
    BY <1>3, FirstAndRest
  <2>2. SumsUp(w, Rest(S), SumOf(w, Rest(S)))
    BY <1>1, <2>1
  <2> QED BY <1>1, <2>1, <2>2, SumIsUnique DEF Alike
<1> QED BY <1>2, <1>3 DEF Sum

LEMMA SumsOfParts ==
  ASSUME NEW w, NEW S, Sums(w, S), NEW T \in SUBSET S
  PROVE  Sums(w, T)
  BY FS_Subset DEF Sums

LEMMA SumIsInt ==
  ASSUME NEW w, NEW S, Sums(w, S)
  PROVE  Sum(w, S) \in Int
<1> DEFINE Bad == {T \in SUBSET S : Sum(w, T) \notin Int}
<1> SUFFICES ASSUME Bad # {} PROVE FALSE
  OBVIOUS
<1>1. Bad \in SUBSET (SUBSET S) /\ IsFiniteSet(S)
  BY DEF Sums
<1> HIDE DEF Bad
<1>2. PICK T \in Bad : \A U \in Bad : U \subseteq T => U = T
  BY <1>1, SmallestOf
<1>3. T \in SUBSET S /\ Sum(w, T) \notin Int
  BY DEF Bad
<1>4. Sums(w, T) /\ IsFiniteSet(T)
  BY <1>3, SumsOfParts DEF Sums
<1>5. T # {}
  BY <1>3, <1>4, SumFirst
<1>6. w[FirstOf(T)] \in Int /\ Rest(T) \in SUBSET S /\ Rest(T) \notin Bad
  BY <1>2, <1>3, <1>4, <1>5, FirstAndRest DEF Sums
<1>7. Sum(w, Rest(T)) \in Int
  BY <1>6 DEF Bad
<1>8. Sum(w, T) = w[FirstOf(T)] + Sum(w, Rest(T))
  BY <1>4, <1>5, SumFirst
<1> QED BY <1>3, <1>6, <1>7, <1>8

(* One element more adds its weight, whichever the sum starts with.        *)
LEMMA SumWithOneMore ==
  ASSUME NEW w, NEW S, NEW e, e \notin S, Sums(w, S \cup {e})
  PROVE  Sum(w, S \cup {e}) = w[e] + Sum(w, S)
<1> DEFINE Odd(T, x) == Sum(w, T \cup {x}) # w[x] + Sum(w, T)
           Bad == {T \in SUBSET (S \cup {e}) : \E x \in S \cup {e} : x \notin T /\ Odd(T, x)}
<1> SUFFICES ASSUME Bad # {} PROVE FALSE
  OBVIOUS
<1>1. Bad \in SUBSET (SUBSET (S \cup {e})) /\ IsFiniteSet(S \cup {e})
  BY DEF Sums
<1> HIDE DEF Bad
<1>2. PICK T \in Bad : \A U \in Bad : U \subseteq T => U = T
  BY <1>1, SmallestOf
<1>3. PICK x \in S \cup {e} : x \notin T /\ Odd(T, x)
  BY DEF Bad
<1> DEFINE W == T \cup {x}
           f == FirstOf(W)
<1>4. W \in SUBSET (S \cup {e}) /\ T \in SUBSET (S \cup {e})
  BY DEF Bad
<1>5. Sums(w, W) /\ IsFiniteSet(W) /\ Sums(w, T) /\ IsFiniteSet(T)
  BY <1>4, SumsOfParts DEF Sums
<1>6. f \in W /\ Rest(W) = W \ {f}
  BY FirstAndRest DEF Rest
<1>7. Sum(w, W) = w[f] + Sum(w, Rest(W))
  BY <1>5, SumFirst
<1>8. CASE f = x
  <2>1. Rest(W) = T
    BY <1>3, <1>6, <1>8
  <2> QED BY <1>3, <1>7, <1>8, <2>1
<1>9. CASE f # x
  <2> DEFINE V == T \ {f}
  <2>1. f \in T /\ Rest(W) = V \cup {x} /\ T = V \cup {f} /\ x \notin V /\ f \notin V
    BY <1>3, <1>6, <1>9
  <2>2. V \in SUBSET (S \cup {e}) /\ V \notin Bad /\ f \in S \cup {e}
    BY <1>2, <1>4, <2>1
  <2>3. ~Odd(V, x) /\ ~Odd(V, f)
    <3> HIDE DEF Odd, V, W, f
    <3> QED BY <1>3, <2>1, <2>2 DEF Bad
  <2>4. /\ Sum(w, Rest(W)) = w[x] + Sum(w, V)
        /\ Sum(w, T) = w[f] + Sum(w, V)
    BY <2>1, <2>3
  <2>5. Sum(w, V) \in Int /\ w[x] \in Int /\ w[f] \in Int
    <3>1. Sums(w, V)
      BY <1>5, SumsOfParts
    <3>2. x \in W /\ f \in W
      BY <1>6
    <3> HIDE DEF V, W, f
    <3> QED BY <1>5, <3>1, <3>2, SumIsInt DEF Sums
  <2> QED BY <1>3, <1>7, <2>4, <2>5
<1> QED BY <1>8, <1>9

LEMMA SumAlike ==
  ASSUME NEW S, IsFiniteSet(S), NEW w, NEW v, Alike(w, v, S)
  PROVE  Sum(w, S) = Sum(v, S)
<1>1. SumsUp(w, S, SumOf(w, S)) /\ SumsUp(v, S, SumOf(v, S))
  BY SumExists
<1> QED BY <1>1, SumIsUnique DEF Sum

(* Another weight for one element changes the sum by the difference.       *)
LEMMA SumChanged ==
  ASSUME NEW S, NEW w, NEW v, Sums(w, S), NEW s \in S, v[s] \in Int, Alike(w, v, S \ {s})
  PROVE  Sum(v, S) = Sum(w, S) - w[s] + v[s]
<1> DEFINE T == S \ {s}
<1>1. s \notin T /\ T \cup {s} = S /\ IsFiniteSet(S) /\ Sums(w, S)
  BY DEF Sums
<1>2. IsFiniteSet(T) /\ Sums(w, T)
  BY <1>1, SumsOfParts, FS_Subset
<1>3. Sums(v, S)
  BY DEF Sums, Alike
<1> HIDE DEF T
<1>4. Sum(w, S) = w[s] + Sum(w, T)
  BY <1>1, SumWithOneMore
<1>5. Sum(v, S) = v[s] + Sum(v, T)
  BY <1>1, <1>3, SumWithOneMore
<1>6. Sum(w, T) = Sum(v, T)
  BY <1>2, SumAlike DEF T
<1>7. w[s] \in Int /\ Sum(w, T) \in Int
  BY <1>2, SumIsInt DEF Sums
<1> QED BY <1>4, <1>5, <1>6, <1>7

LEMMA SumOfNothing == \A w : Sum(w, {}) = 0
  BY FS_EmptySet, SumFirst

LEMMA SumOfZeros ==
  ASSUME NEW S, IsFiniteSet(S), NEW w, \A x \in S : w[x] = 0
  PROVE  Sum(w, S) = 0
<1> DEFINE Bad == {T \in SUBSET S : Sum(w, T) # 0}
<1> SUFFICES ASSUME Bad # {} PROVE FALSE
  OBVIOUS
<1>1. Bad \in SUBSET (SUBSET S)
  OBVIOUS
<1> HIDE DEF Bad
<1>2. PICK T \in Bad : \A U \in Bad : U \subseteq T => U = T
  BY <1>1, SmallestOf
<1>3. T \in SUBSET S /\ Sum(w, T) # 0
  BY DEF Bad
<1>4. T # {} /\ IsFiniteSet(T)
  BY <1>3, SumOfNothing, FS_Subset
<1>5. FirstOf(T) \in T /\ Rest(T) \in SUBSET S /\ Rest(T) \notin Bad
  BY <1>2, <1>3, <1>4, FirstAndRest
<1>6. Sum(w, T) = w[FirstOf(T)] + Sum(w, Rest(T))
  BY <1>4, SumFirst
<1>7. Sum(w, Rest(T)) = 0 /\ w[FirstOf(T)] = 0
  BY <1>3, <1>5 DEF Bad
<1> QED BY <1>3, <1>6, <1>7

(* Element by element no more than k times as much, and so is the sum.     *)
LEMMA SumWithin ==
  ASSUME NEW S, NEW w, NEW v, Sums(w, S), Sums(v, S), NEW k \in Nat,
         \A x \in S : w[x] <= v[x] * k
  PROVE  Sum(w, S) <= Sum(v, S) * k
<1> DEFINE Bad == {T \in SUBSET S : ~(Sum(w, T) <= Sum(v, T) * k)}
<1> SUFFICES ASSUME Bad # {} PROVE FALSE
  <2>1. S \notin Bad
    OBVIOUS
  <2> QED BY <2>1
<1>1. Bad \in SUBSET (SUBSET S) /\ IsFiniteSet(S)
  BY DEF Sums
<1> HIDE DEF Bad
<1>2. PICK T \in Bad : \A U \in Bad : U \subseteq T => U = T
  BY <1>1, SmallestOf
<1>3. T \in SUBSET S /\ ~(Sum(w, T) <= Sum(v, T) * k)
  BY DEF Bad
<1>4. T # {}
  BY <1>3, SumOfNothing
<1>5. FirstOf(T) \in S /\ Rest(T) \in SUBSET S /\ Rest(T) \notin Bad /\ IsFiniteSet(T)
  BY <1>1, <1>2, <1>3, <1>4, FirstAndRest, FS_Subset
<1>6. Sum(w, T) = w[FirstOf(T)] + Sum(w, Rest(T)) /\ Sum(v, T) = v[FirstOf(T)] + Sum(v, Rest(T))
  BY <1>4, <1>5, SumFirst
<1>7. Sum(w, Rest(T)) <= Sum(v, Rest(T)) * k
  BY <1>5 DEF Bad
<1>8. Sum(w, Rest(T)) \in Int /\ Sum(v, Rest(T)) \in Int
  BY <1>5, SumsOfParts, SumIsInt
<1> DEFINE a == w[FirstOf(T)]
           b == v[FirstOf(T)]
           c == Sum(w, Rest(T))
           d == Sum(v, Rest(T))
<1>9. a \in Int /\ b \in Int /\ c \in Int /\ d \in Int /\ a <= b * k /\ c <= d * k
  BY <1>5, <1>7, <1>8 DEF Sums
<1>10. ~(a + c <= (b + d) * k)
  BY <1>3, <1>6
<1> HIDE DEF a, b, c, d
<1>11. (b + d) * k = b * k + d * k /\ b * k \in Int /\ d * k \in Int
  BY <1>9
<1> QED BY <1>9, <1>10, <1>11

(* A tally that leaves one out for the elements of B falls short by at     *)
(* most their number.                                                      *)
Tally(w, B, x) == IF x \in B THEN w[x] - 1 ELSE w[x]
Tallied(w, B, S) == Sum([x \in S |-> Tally(w, B, x)], S)
Positive(w, S) == {x \in S : w[x] > 0}

LEMMA TallyFallsShort ==
  ASSUME NEW S, NEW w, IsFiniteSet(S), \A x \in S : w[x] \in Nat, NEW B \in SUBSET S
  PROVE  Sum(w, S) <= Tallied(w, B, Positive(w, S)) + Cardinality(B)
<1> DEFINE P(T) == Positive(w, T)
           Short(T) == Sum(w, T) <= Tallied(w, B, P(T)) + Cardinality(B \cap T)
           Bad == {T \in SUBSET S : ~Short(T)}
<1> SUFFICES ASSUME Bad # {} PROVE FALSE
  <2>1. S \notin Bad
    OBVIOUS
  <2>2. Short(S) /\ B \cap S = B
    BY <2>1
  <2> QED BY <2>2
<1>1. Bad \in SUBSET (SUBSET S)
  OBVIOUS
<1> HIDE DEF Bad
<1>2. PICK T \in Bad : \A U \in Bad : U \subseteq T => U = T
  BY <1>1, SmallestOf
<1>3. T \in SUBSET S /\ ~Short(T)
  BY DEF Bad
<1>4. \A U \in SUBSET S : IsFiniteSet(U) /\ IsFiniteSet(P(U)) /\ Sums(w, U)
                          /\ IsFiniteSet(B \cap U) /\ Cardinality(B \cap U) \in Nat
  <2> SUFFICES ASSUME NEW U \in SUBSET S
               PROVE  IsFiniteSet(U) /\ IsFiniteSet(P(U)) /\ Sums(w, U)
                      /\ IsFiniteSet(B \cap U) /\ Cardinality(B \cap U) \in Nat
    OBVIOUS
  <2>1. IsFiniteSet(U)
    BY FS_Subset
  <2>2. P(U) \in SUBSET U /\ B \cap U \in SUBSET U
    BY DEF Positive
  <2>3. IsFiniteSet(P(U)) /\ IsFiniteSet(B \cap U)
    BY <2>1, <2>2, FS_Subset
  <2> QED BY <2>1, <2>3, FS_CardinalityType DEF Sums
<1>5. ASSUME NEW U \in SUBSET S PROVE Sums([x \in U |-> Tally(w, B, x)], U)
  <2>1. ASSUME NEW x \in U PROVE Tally(w, B, x) \in Int
    <3>1. w[x] \in Nat
      OBVIOUS
    <3> QED BY <3>1 DEF Tally
  <2>2. IsFiniteSet(U)
    BY <1>4
  <2> QED BY <2>1, <2>2 DEF Sums
<1>6. T # {}
  <2>1. P({}) = {} /\ B \cap {} = {} /\ Cardinality({}) = 0
    BY FS_EmptySet DEF Positive
  <2>2. Sum(w, {}) = 0 /\ Tallied(w, B, {}) = 0
    BY SumOfNothing DEF Tallied
  <2>3. Sum(w, {}) <= Tallied(w, B, P({})) + Cardinality(B \cap {})
    <3>1. Tallied(w, B, P({})) = 0 /\ Cardinality(B \cap {}) = 0
      BY <2>1, <2>2
    <3> QED BY <2>2, <3>1
  <2> QED BY <1>3, <2>3
<1>7. PICK x \in T : TRUE
  BY <1>6
<1> DEFINE U == T \ {x}
<1>8. U \in SUBSET S /\ U \notin Bad /\ T = U \cup {x} /\ x \notin U /\ x \in S
  BY <1>2, <1>3, <1>7
<1>9. Short(U)
  BY <1>8 DEF Bad
<1> HIDE DEF U
<1>10. Sum(w, T) = w[x] + Sum(w, U) /\ Sum(w, U) \in Int
  BY <1>3, <1>4, <1>8, SumWithOneMore, SumIsInt
<1>11. P(U) \in SUBSET S
  BY <1>8 DEF Positive
<1>12. Tallied(w, B, P(U)) \in Int
  BY <1>5, <1>11, SumIsInt DEF Tallied
<1>13. /\ x \in B => Cardinality(B \cap T) = Cardinality(B \cap U) + 1
       /\ x \notin B => B \cap T = B \cap U
  <2>1. ASSUME x \in B PROVE Cardinality(B \cap T) = Cardinality(B \cap U) + 1
    <3>1. B \cap T = (B \cap U) \cup {x} /\ x \notin B \cap U
      BY <1>8, <2>1
    <3> QED BY <1>4, <1>8, <3>1, FS_AddElement
  <2>2. ASSUME x \notin B PROVE B \cap T = B \cap U
    BY <1>8, <2>2
  <2> QED BY <2>1, <2>2
<1>14. CASE w[x] > 0
  <2>1. P(T) = P(U) \cup {x} /\ x \notin P(U) /\ P(T) \in SUBSET S
    BY <1>8, <1>14 DEF Positive
  <2> DEFINE v == [y \in P(T) |-> Tally(w, B, y)]
             u == [y \in P(U) |-> Tally(w, B, y)]
  <2>2. Sums(v, P(T)) /\ v[x] = Tally(w, B, x) /\ Alike(v, u, P(U))
    BY <1>5, <2>1 DEF Alike
  <2>3. Sum(v, P(T)) = v[x] + Sum(v, P(U))
    <3> HIDE DEF v, P
    <3> QED BY <2>1, <2>2, SumWithOneMore
  <2>4. Sum(v, P(U)) = Sum(u, P(U))
    <3>1. IsFiniteSet(P(U))
      BY <1>4, <1>8
    <3> HIDE DEF v, u, P
    <3> QED BY <2>2, <3>1, SumAlike
  <2>5. Tallied(w, B, P(T)) = Tally(w, B, x) + Tallied(w, B, P(U))
    BY <2>2, <2>3, <2>4 DEF Tallied
  <2>6. Sum(w, U) <= Tallied(w, B, P(U)) + Cardinality(B \cap U)
    BY <1>9
  <2>7. w[x] \in Nat /\ Cardinality(B \cap U) \in Nat /\ Cardinality(B \cap T) \in Nat
    BY <1>3, <1>4, <1>8
  <2>8. Tally(w, B, x) + Cardinality(B \cap T) = w[x] + Cardinality(B \cap U)
    BY <1>13, <2>7 DEF Tally
  <2>9. Tally(w, B, x) \in Int
    BY <2>7 DEF Tally
  <2>10. Short(T)
    <3> HIDE DEF P
    <3> QED BY <1>10, <1>12, <2>5, <2>6, <2>7, <2>8, <2>9
  <2> QED BY <1>3, <2>10
<1>15. CASE ~(w[x] > 0)
  <2>1. P(T) = P(U) /\ w[x] = 0
    BY <1>8, <1>15 DEF Positive
  <2>2. Cardinality(B \cap U) <= Cardinality(B \cap T) /\ Cardinality(B \cap U) \in Nat /\ Cardinality(B \cap T) \in Nat
    BY <1>3, <1>4, <1>8, <1>13
  <2>3. Short(T)
    <3> HIDE DEF P
    <3> QED BY <1>9, <1>10, <1>12, <2>1, <2>2
  <2> QED BY <1>3, <2>3
<1> QED BY <1>14, <1>15

-----------------------------------------------------------------------------
(* What the rows of the UK ledger add up to is such a sum.                 *)

AmountsUp(S, h) ==
  h = [s \in SUBSET S |-> IF s = {} THEN 0 ELSE FirstOf(s).amount + h[Rest(s)]]
AmountsOf(S) == CHOOSE h : AmountsUp(S, h)
AmountIn(S) == [x \in S |-> x.amount]
Summable(S) == IsFiniteSet(S) /\ \A x \in S : x.amount \in Int

LEMMA AmountsAreChosen == \A S : UkFunding!Amounts(S) = AmountsOf(S)[S]
  BY DEF UkFunding!Amounts, UkFunding!MapThenSumSet, UkFunding!MapThenFoldSet,
         AmountsOf, AmountsUp, FirstOf, Rest

LEMMA AmountsAreSummed ==
  ASSUME NEW S, IsFiniteSet(S)
  PROVE  UkFunding!Amounts(S) = Sum(AmountIn(S), S)
<1>1. ASSUME NEW h PROVE AmountsUp(S, h) <=> SumsUp(AmountIn(S), S, h)
  <2>1. ASSUME NEW s \in SUBSET S, s # {} PROVE AmountIn(S)[FirstOf(s)] = FirstOf(s).amount
    BY <2>1, FirstAndRest DEF AmountIn
  <2>2. [s \in SUBSET S |-> IF s = {} THEN 0 ELSE FirstOf(s).amount + h[Rest(s)]]
          = [s \in SUBSET S |-> IF s = {} THEN 0 ELSE AmountIn(S)[FirstOf(s)] + h[Rest(s)]]
    BY <2>1
  <2> QED BY <2>2 DEF AmountsUp, SumsUp
<1>2. SumsUp(AmountIn(S), S, SumOf(AmountIn(S), S))
  BY SumExists
<1>3. AmountsUp(S, AmountsOf(S))
  BY <1>1, <1>2 DEF AmountsOf
<1>4. SumsUp(AmountIn(S), S, AmountsOf(S))
  BY <1>1, <1>3
<1>5. AmountsOf(S)[S] = SumOf(AmountIn(S), S)[S]
  BY <1>2, <1>4, SumIsUnique DEF Alike
<1> QED BY <1>5, AmountsAreChosen DEF Sum

LEMMA SummableParts ==
  ASSUME NEW S, Summable(S), NEW T \in SUBSET S
  PROVE  Summable(T)
  BY FS_Subset DEF Summable

LEMMA AmountsOfNothing == UkFunding!Amounts({}) = 0
  BY FS_EmptySet, AmountsAreSummed, SumOfNothing

LEMMA AmountsAreInt ==
  ASSUME NEW S, Summable(S)
  PROVE  UkFunding!Amounts(S) \in Int
<1>1. IsFiniteSet(S) /\ Sums(AmountIn(S), S)
  BY DEF Summable, Sums, AmountIn
<1> QED BY <1>1, AmountsAreSummed, SumIsInt

LEMMA AmountsWithOneMore ==
  ASSUME NEW S, NEW e, e \notin S, Summable(S \cup {e})
  PROVE  UkFunding!Amounts(S \cup {e}) = e.amount + UkFunding!Amounts(S)
<1> DEFINE w == AmountIn(S \cup {e})
<1>1. /\ IsFiniteSet(S) /\ IsFiniteSet(S \cup {e}) /\ Sums(w, S \cup {e}) /\ w[e] = e.amount
      /\ Alike(w, AmountIn(S), S)
  <2>1. IsFiniteSet(S) /\ IsFiniteSet(S \cup {e})
    BY FS_Subset DEF Summable
  <2> QED BY <2>1 DEF Summable, Sums, AmountIn, Alike
<1> HIDE DEF w
<1>2. Sum(w, S \cup {e}) = w[e] + Sum(w, S)
  BY <1>1, SumWithOneMore
<1>3. Sum(w, S) = Sum(AmountIn(S), S)
  BY <1>1, SumAlike
<1>4. UkFunding!Amounts(S \cup {e}) = Sum(w, S \cup {e}) /\ UkFunding!Amounts(S) = Sum(AmountIn(S), S)
  BY <1>1, AmountsAreSummed DEF w
<1> QED BY <1>1, <1>2, <1>3, <1>4

(* Rows of one unit each add their number.                                 *)
LEMMA AmountsOfUnits ==
  ASSUME NEW S, NEW N, S \cap N = {}, Summable(S \cup N), \A x \in N : x.amount = 1
  PROVE  UkFunding!Amounts(S \cup N) = UkFunding!Amounts(S) + Cardinality(N)
<1> DEFINE Odd(T) == UkFunding!Amounts(S \cup T) # UkFunding!Amounts(S) + Cardinality(T)
           Bad == {T \in SUBSET N : Odd(T)}
<1> SUFFICES ASSUME Bad # {} PROVE FALSE
  OBVIOUS
<1>0. Bad \in SUBSET (SUBSET N)
  OBVIOUS
<1>1. Summable(S) /\ IsFiniteSet(N)
  BY SummableParts, FS_Subset DEF Summable
<1> HIDE DEF Bad
<1>2. PICK T \in Bad : \A U \in Bad : U \subseteq T => U = T
  BY <1>0, <1>1, SmallestOf
<1>3. T \in SUBSET N /\ Odd(T)
  BY DEF Bad
<1>4. UkFunding!Amounts(S) \in Int
  BY <1>1, AmountsAreInt
<1>5. T # {}
  <2>1. Cardinality({}) = 0 /\ S \cup {} = S
    BY FS_EmptySet
  <2>2. UkFunding!Amounts(S \cup {}) = UkFunding!Amounts(S)
    BY <2>1
  <2>3. UkFunding!Amounts(S \cup {}) = UkFunding!Amounts(S) + Cardinality({})
    BY <1>4, <2>1, <2>2
  <2> QED BY <1>3, <2>3
<1>6. PICK x \in T : TRUE
  BY <1>5
<1> DEFINE V == T \ {x}
<1>7. /\ V \in SUBSET N /\ V \notin Bad /\ x.amount = 1
      /\ S \cup T = (S \cup V) \cup {x} /\ x \notin S \cup V
  BY <1>2, <1>3
<1>8. IsFiniteSet(T) /\ Cardinality(V) = Cardinality(T) - 1 /\ Cardinality(T) \in Nat
  BY <1>1, <1>3, FS_Subset, FS_RemoveElement, FS_CardinalityType
<1>9. Summable((S \cup V) \cup {x})
  BY <1>3, <1>7, SummableParts
<1> HIDE DEF V
<1>10. UkFunding!Amounts(S \cup T) = 1 + UkFunding!Amounts(S \cup V)
  BY <1>7, <1>9, AmountsWithOneMore
<1>11. UkFunding!Amounts(S \cup V) = UkFunding!Amounts(S) + Cardinality(V)
  BY <1>7 DEF Bad
<1> QED BY <1>3, <1>4, <1>8, <1>10, <1>11

-----------------------------------------------------------------------------
(* The UK growth bot's money (UkFunding).  v1 is the kind of funding, v2   *)
(* the day, v4 the rows of the ledger, v5 its shares, v6 the marks, v7 the *)
(* broker, v8 where the cycle is, v10 the order, v12 what went wrong.      *)

LEMMA RowsCounted ==
  \A S : UkFunding!Cardinality(S) = Cardinality(S) /\ UkFunding!IsFiniteSet(S) = IsFiniteSet(S)
<1>1. \A S : UkFunding!IsFiniteSet(S) = IsFiniteSet(S)
  BY Zenon DEF UkFunding!IsFiniteSet, IsFiniteSet
<1>2. \A S : UkFunding!Cardinality(S) = Cardinality(S)
  BY Zenon DEF UkFunding!Cardinality, Cardinality
<1> QED BY <1>1, <1>2

Dated(rows) == IsFiniteSet(rows) /\ \A f \in rows : f.amount \in Int /\ f.day \in 0 .. v2

LEMMA LedgerIsDated ==
  UkFunding!LedgerInOrder <=> v2 \in Nat /\ v5 \in Int /\ Dated(v4)
  BY RowsCounted DEF UkFunding!LedgerInOrder, Dated

\* One unit on each of some days.
UnitRows(D, kind, note) == {UkFunding!Flow(d, kind, note, 1) : d \in D}

LEMMA UnitRowsDated ==
  ASSUME v2 \in Nat, NEW D \in SUBSET (0 .. v2), NEW kind, NEW note
  PROVE  /\ Dated(UnitRows(D, kind, note))
         /\ Cardinality(UnitRows(D, kind, note)) = Cardinality(D)
<1> DEFINE h == [d \in D |-> UkFunding!Flow(d, kind, note, 1)]
<1>1. h \in Bijection(D, UnitRows(D, kind, note))
  <2>1. h \in [D -> UnitRows(D, kind, note)]
    BY DEF UnitRows
  <2>2. \A d \in D : h[d].day = d
    BY DEF UkFunding!Flow
  <2>3. \A r \in UnitRows(D, kind, note) : \E d \in D : h[d] = r
    BY DEF UnitRows
  <2> HIDE DEF h
  <2>4. \A d, e \in D : h[d] = h[e] => d = e
    BY <2>2
  <2> QED BY <2>1, <2>3, <2>4 DEF Bijection, Injection, Surjection, IsInjective
<1>2. IsFiniteSet(D)
  <2>1. IsFiniteSet(0 .. v2)
    BY FS_Interval
  <2> QED BY <2>1, FS_Subset
<1> HIDE DEF h
<1>3. /\ IsFiniteSet(UnitRows(D, kind, note))
      /\ Cardinality(UnitRows(D, kind, note)) = Cardinality(D)
  BY <1>1, <1>2, FS_Bijection DEF ExistsBijection
<1> QED BY <1>3 DEF Dated, UnitRows, UkFunding!Flow

LEMMA RowsTogether ==
  ASSUME NEW rows, NEW new, Dated(rows), Dated(new)
  PROVE  /\ Dated(rows \cup new) /\ Dated(UkFunding!Insert(rows, new))
         /\ rows \subseteq UkFunding!Insert(rows, new)
         /\ UkFunding!Insert(rows, new) \subseteq rows \cup new
<1>1. IsFiniteSet(rows \cup new)
  BY FS_Union DEF Dated
<1>2. /\ rows \subseteq UkFunding!Insert(rows, new)
      /\ UkFunding!Insert(rows, new) \subseteq rows \cup new
  BY DEF UkFunding!Insert
<1>3. IsFiniteSet(UkFunding!Insert(rows, new))
  BY <1>1, <1>2, FS_Subset
<1> QED BY <1>1, <1>2, <1>3 DEF Dated

LEMMA OneRowDated ==
  ASSUME NEW kind, NEW note, NEW n \in Int, v2 \in Nat
  PROVE  Dated({UkFunding!Flow(v2, kind, note, n)}) /\ Dated({})
<1> DEFINE row == UkFunding!Flow(v2, kind, note, n)
<1>1. row.amount = n /\ row.day = v2
  BY DEF UkFunding!Flow
<1> HIDE DEF row
<1>2. IsFiniteSet({row}) /\ IsFiniteSet({})
  BY FS_Singleton, FS_EmptySet
<1>3. Dated({row})
  BY <1>1, <1>2 DEF Dated
<1>4. Dated({})
  BY <1>2 DEF Dated
<1> QED BY <1>3, <1>4 DEF row

LEMMA AmountsOfDated ==
  ASSUME NEW rows, Dated(rows)
  PROVE  Summable(rows) /\ UkFunding!Amounts(rows) \in Int
<1>1. Summable(rows)
  BY DEF Summable, Dated
<1> QED BY <1>1, AmountsAreInt

LEMMA ExDated ==
  ASSUME UkFunding!LedgerInOrder, UkFunding!BankAddsUp
  PROVE  Dated(UkFunding!ExDividends) /\ \A f \in UkFunding!ExDividends : f.note = "ex"
<1>1. v2 \in Nat /\ v7.ex \in SUBSET (0 .. v2)
  BY DEF UkFunding!LedgerInOrder, UkFunding!BankAddsUp
<1>2. Dated(UnitRows(v7.ex, "dividend", "ex"))
  BY <1>1, UnitRowsDated
<1>3. Dated({})
  BY FS_EmptySet DEF Dated
<1> QED BY <1>2, <1>3 DEF UkFunding!ExDividends, UnitRows, UkFunding!Flow

(* IBKR: the difference is what the ledger lacks, and it is entered.       *)
LEMMA DifferenceIsBooked ==
  ASSUME UkFunding!LedgerInOrder, UkFunding!BankAddsUp, UkFunding!ReconciledLater,
         v8 = "record", NEW cashRead \in BOOLEAN
  PROVE  /\ Dated(UkFunding!Reconciled(cashRead))
         /\ cashRead /\ "twice" \notin v12 =>
              UkFunding!Amounts(UkFunding!Reconciled(cashRead)) - v5 = v7.cash
<1> DEFINE rows == UkFunding!Insert(v4, UkFunding!ExDividends)
           diff == v7.cash - (UkFunding!Amounts(rows) - v5)
           kind == IF diff > 0 THEN "contribution" ELSE "withdrawal"
           row == UkFunding!Flow(v2, kind, "reconciled", diff)
<1>1. v2 \in Nat /\ v5 \in Int /\ Dated(v4) /\ v7.cash \in Int
  BY LedgerIsDated DEF UkFunding!BankAddsUp
<1>2. Dated(rows) /\ rows \subseteq v4 \cup UkFunding!ExDividends
  BY <1>1, ExDated, RowsTogether
<1>3. UkFunding!Amounts(rows) \in Int
  BY <1>2, AmountsOfDated
<1>4. diff \in Int
  BY <1>1, <1>3
<1>5. Dated({row}) /\ Dated({}) /\ row.note = "reconciled" /\ row.day = v2 /\ row.amount = diff
  <2> HIDE DEF diff, kind
  <2> QED BY <1>1, <1>4, OneRowDated DEF UkFunding!Flow
<1>6. UkFunding!Reconciled(cashRead) =
        UkFunding!Insert(rows, IF cashRead /\ diff # 0 THEN {row} ELSE {})
  BY DEF UkFunding!Reconciled, UkFunding!CashOf
<1> HIDE DEF row, kind
<1>7. Dated(UkFunding!Reconciled(cashRead))
  <2> HIDE DEF rows, diff
  <2>1. Dated(IF cashRead /\ diff # 0 THEN {row} ELSE {})
    BY <1>5
  <2>2. Dated(rows)
    BY <1>2
  <2> QED BY <1>6, <2>1, <2>2, RowsTogether
<1>8. ASSUME cashRead, "twice" \notin v12
      PROVE  UkFunding!Amounts(UkFunding!Reconciled(cashRead)) - v5 = v7.cash
  <2>1. \A f \in rows : f.note = "reconciled" => f.day # v2
    <3>1. \A f \in v4 : f.note = "reconciled" => f.day # v2
      BY <1>8 DEF UkFunding!ReconciledLater
    <3>2. \A f \in UkFunding!ExDividends : f.note = "ex"
      BY ExDated
    <3> HIDE DEF rows
    <3> QED BY <1>2, <3>1, <3>2
  <2>2. CASE diff = 0
    <3>1. UkFunding!Reconciled(cashRead) = rows
      <4> HIDE DEF rows, diff
      <4> QED BY <1>6, <2>2 DEF UkFunding!Insert
    <3> HIDE DEF rows
    <3> QED BY <1>1, <1>3, <2>2, <3>1
  <2>3. CASE diff # 0
    <3>1. UkFunding!Reconciled(cashRead) = rows \cup {row} /\ row \notin rows
      <4> HIDE DEF rows, diff
      <4> QED BY <1>5, <1>6, <1>8, <2>1, <2>3 DEF UkFunding!Insert
    <3>2. Summable(rows \cup {row})
      <4> HIDE DEF rows, diff
      <4> QED BY <1>7, <3>1, AmountsOfDated
    <3>3. UkFunding!Amounts(rows \cup {row}) = row.amount + UkFunding!Amounts(rows)
      <4> HIDE DEF rows, diff
      <4> QED BY <3>1, <3>2, AmountsWithOneMore
    <3> HIDE DEF rows
    <3> QED BY <1>1, <1>3, <1>5, <3>1, <3>3
  <2> QED BY <2>2, <2>3
<1> QED BY <1>7, <1>8

(* What Trading 212 lists: one unit a row, no two rows of one entry.       *)
Listing == UkFunding!Deposits \cup UkFunding!PaidDividends
OpeningsOf(rows) == {f \in rows : f.note = "opening"}

LEMMA ListingRows ==
  ASSUME v2 \in Nat, UkFunding!BankAddsUp
  PROVE  /\ Dated(Listing)
         /\ \A f \in Listing : f.amount = 1 /\ f.note # "opening"
         /\ \A f, g \in Listing : f.day = g.day /\ f.kind = g.kind /\ f.note = g.note => f = g
         /\ v7.cash + v7.shares = v7.old + Cardinality(Listing)
         /\ v7.cash \in Int /\ v7.shares \in Int /\ v7.old \in Nat /\ Cardinality(Listing) \in Nat
<1> DEFINE D == UnitRows(v7.paidIn, "contribution", "ref")
           P == UnitRows(v7.paid, "dividend", "paid")
<1>1. Listing = D \cup P
  BY DEF Listing, UkFunding!Deposits, UkFunding!PaidDividends, UnitRows
<1>2. v7.paidIn \in SUBSET (0 .. v2) /\ v7.paid \in SUBSET (0 .. v2)
  BY DEF UkFunding!BankAddsUp
<1>3. /\ Dated(D) /\ Cardinality(D) = Cardinality(v7.paidIn)
      /\ Dated(P) /\ Cardinality(P) = Cardinality(v7.paid)
  BY <1>2, UnitRowsDated
<1>4. /\ \A f \in D : /\ f = UkFunding!Flow(f.day, "contribution", "ref", 1)
                      /\ f.amount = 1 /\ f.note = "ref"
      /\ \A f \in P : /\ f = UkFunding!Flow(f.day, "dividend", "paid", 1)
                      /\ f.amount = 1 /\ f.note = "paid"
  BY DEF UnitRows, UkFunding!Flow
<1>5. v7.cash \in Int /\ v7.shares \in Int /\ v7.old \in Nat
      /\ v7.cash + v7.shares = v7.old + Cardinality(v7.paidIn) + Cardinality(v7.paid)
  BY RowsCounted DEF UkFunding!BankAddsUp
<1> HIDE DEF D, P
<1>6. D \cap P = {}
  BY <1>4
<1>7. IsFiniteSet(D) /\ IsFiniteSet(P)
  BY <1>3 DEF Dated
<1>8. /\ Cardinality(D \cup P) = Cardinality(D) + Cardinality(P)
      /\ Cardinality(D) \in Nat /\ Cardinality(P) \in Nat
  <2>1. Cardinality(D \cup P) = Cardinality(D) + Cardinality(P) - Cardinality(D \cap P)
    BY <1>7, FS_Union
  <2>2. Cardinality(D) \in Nat /\ Cardinality(P) \in Nat
    BY <1>7, FS_CardinalityType
  <2>3. Cardinality(D \cap P) = 0
    BY <1>6, FS_EmptySet
  <2> QED BY <2>1, <2>2, <2>3
<1>9. Dated(Listing)
  BY <1>1, <1>3, RowsTogether
<1>10. \A f, g \in Listing : f.day = g.day /\ f.kind = g.kind /\ f.note = g.note => f = g
  BY <1>1, <1>4
<1>11. v7.cash + v7.shares = v7.old + Cardinality(Listing) /\ Cardinality(Listing) \in Nat
  BY <1>1, <1>3, <1>5, <1>8
<1> QED BY <1>1, <1>4, <1>5, <1>9, <1>10, <1>11

(* Listing and opening balance are all the money there is.                 *)
LEMMA OpeningAndListing ==
  ASSUME NEW rows, Dated(rows), Dated(Listing), NEW O, O \subseteq rows,
         rows = O \cup Listing, O \cap Listing = {}, \A f \in Listing : f.amount = 1
  PROVE  UkFunding!Amounts(rows) = UkFunding!Amounts(O) + Cardinality(Listing)
<1>1. Summable(O \cup Listing)
  BY AmountsOfDated
<1> QED BY <1>1, AmountsOfUnits

Known(rows) ==
  /\ rows \ OpeningsOf(rows) \subseteq Listing
  /\ UkFunding!Amounts(OpeningsOf(rows)) = v7.old

(* A cycle after the first.                                                *)
LEMMA LaterListing ==
  ASSUME UkFunding!LedgerInOrder, UkFunding!BankAddsUp, Known(v4)
  PROVE  /\ Known(UkFunding!Insert(v4, Listing))
         /\ UkFunding!Amounts(UkFunding!Insert(v4, Listing)) = v7.old + Cardinality(Listing)
<1> DEFINE rows == UkFunding!Insert(v4, Listing)
           O == OpeningsOf(v4)
<1>1. v2 \in Nat /\ Dated(v4)
  BY LedgerIsDated
<1>2. /\ Dated(Listing)
      /\ \A f \in Listing : f.amount = 1 /\ f.note # "opening"
      /\ \A f, g \in Listing : f.day = g.day /\ f.kind = g.kind /\ f.note = g.note => f = g
  BY <1>1, ListingRows
<1>3. Dated(rows) /\ v4 \subseteq rows /\ rows \subseteq v4 \cup Listing
  BY <1>1, <1>2, RowsTogether
<1>4. O \subseteq v4 /\ v4 \subseteq O \cup Listing /\ \A f \in O : f.note = "opening"
  BY DEF Known, OpeningsOf
<1>5. Listing \subseteq rows
  <2> SUFFICES ASSUME NEW f \in Listing PROVE f \in rows
    OBVIOUS
  <2>1. CASE \E g \in v4 : g.day = f.day /\ g.kind = f.kind /\ g.note = f.note
    <3>1. PICK g \in v4 : g.day = f.day /\ g.kind = f.kind /\ g.note = f.note
      BY <2>1
    <3>2. g \in Listing
      BY <1>2, <1>4, <3>1
    <3> QED BY <1>2, <1>3, <3>1, <3>2
  <2>2. CASE ~\E g \in v4 : g.day = f.day /\ g.kind = f.kind /\ g.note = f.note
    BY <2>2 DEF UkFunding!Insert
  <2> QED BY <2>1, <2>2
<1> HIDE DEF rows, O
<1>6. rows = O \cup Listing /\ O \cap Listing = {} /\ O \subseteq rows
  BY <1>2, <1>3, <1>4, <1>5
<1>7. OpeningsOf(rows) = O
  BY <1>2, <1>4, <1>6 DEF OpeningsOf
<1>8. UkFunding!Amounts(O) = v7.old
  BY DEF Known, O
<1>9. UkFunding!Amounts(rows) = UkFunding!Amounts(O) + Cardinality(Listing)
  BY <1>2, <1>3, <1>6, OpeningAndListing
<1>10. Known(rows)
  BY <1>6, <1>7, <1>8 DEF Known
<1> QED BY <1>8, <1>9, <1>10 DEF rows

(* The first cycle that reads both the list and the balance.               *)
LEMMA FirstListing ==
  ASSUME UkFunding!LedgerInOrder, UkFunding!BankAddsUp, UkFunding!IdleUntilOpened,
         v1 = "t212", "opened" \notin v6
  PROVE  LET rows == UkFunding!Insert(v4, Listing)
             new == rows \cup UkFunding!Opening(rows, TRUE)
         IN  Dated(new) /\ Known(new) /\ UkFunding!Amounts(new) - v5 = v7.cash
<1> DEFINE rows == UkFunding!Insert(v4, Listing)
           new == rows \cup UkFunding!Opening(rows, TRUE)
           row == UkFunding!Flow(v2, "contribution", "opening", v7.cash - Cardinality(Listing))
<1>1. v2 \in Nat /\ v4 = {} /\ v5 = 0 /\ v7.shares = 0
  BY LedgerIsDated DEF UkFunding!IdleUntilOpened
<1>2. /\ Dated(Listing)
      /\ \A f \in Listing : f.amount = 1 /\ f.note # "opening"
      /\ v7.cash + v7.shares = v7.old + Cardinality(Listing)
      /\ v7.cash \in Int /\ v7.shares \in Int /\ v7.old \in Nat /\ Cardinality(Listing) \in Nat
  BY <1>1, ListingRows
<1>3. rows = Listing
  BY <1>1 DEF UkFunding!Insert
<1>4. UkFunding!Amounts({}) = 0
  BY AmountsOfNothing
<1>5. UkFunding!Amounts(Listing) = Cardinality(Listing)
  <2>1. Summable({} \cup Listing) /\ {} \cup Listing = Listing
    BY <1>2, AmountsOfDated
  <2>2. UkFunding!Amounts({} \cup Listing) = UkFunding!Amounts({}) + Cardinality(Listing)
    BY <1>2, <2>1, AmountsOfUnits
  <2> QED BY <1>2, <1>4, <2>1, <2>2
<1>6. UkFunding!CashOf(rows) = Cardinality(Listing)
  <2> HIDE DEF rows
  <2> QED BY <1>1, <1>2, <1>3, <1>5 DEF UkFunding!CashOf
<1>7. UkFunding!Opening(rows, TRUE) = IF v7.old > 0 THEN {row} ELSE {}
  <2>1. (v7.cash > Cardinality(Listing)) = (v7.old > 0)
    BY <1>1, <1>2
  <2> HIDE DEF rows
  <2> QED BY <1>1, <1>6, <2>1 DEF UkFunding!Opening
<1>8. row.note = "opening" /\ row.amount = v7.old
  <2>1. row.note = "opening" /\ row.amount = v7.cash - Cardinality(Listing)
    BY DEF UkFunding!Flow
  <2> HIDE DEF row
  <2> QED BY <1>1, <1>2, <2>1
<1>9. Dated({row})
  <2>1. v7.cash - Cardinality(Listing) \in Int
    BY <1>2
  <2> QED BY <1>1, <2>1, OneRowDated
<1> HIDE DEF row
<1>10. CASE v7.old > 0
  <2>1. new = Listing \cup {row} /\ row \notin Listing
    <3> HIDE DEF rows
    <3> QED BY <1>2, <1>3, <1>7, <1>8, <1>10
  <2> HIDE DEF new
  <2>2. Dated(new)
    BY <1>2, <1>9, <2>1, RowsTogether
  <2>3. UkFunding!Amounts(new) = v7.old + Cardinality(Listing)
    <3>1. Summable(Listing \cup {row})
      BY <2>1, <2>2, AmountsOfDated
    <3> QED BY <1>5, <1>8, <2>1, <3>1, AmountsWithOneMore
  <2>4. OpeningsOf(new) = {row}
    BY <1>2, <1>8, <2>1 DEF OpeningsOf
  <2>5. UkFunding!Amounts({row}) = v7.old
    <3>1. Summable({} \cup {row}) /\ {} \cup {row} = {row}
      BY <1>9, AmountsOfDated
    <3>2. UkFunding!Amounts({} \cup {row}) = row.amount + UkFunding!Amounts({})
      BY <3>1, AmountsWithOneMore
    <3> QED BY <1>2, <1>4, <1>8, <3>1, <3>2
  <2>6. Known(new)
    BY <2>1, <2>4, <2>5 DEF Known
  <2>7. UkFunding!Amounts(new) - v5 = v7.cash
    BY <1>1, <1>2, <2>3
  <2> QED BY <2>2, <2>6, <2>7 DEF new
<1>11. CASE ~(v7.old > 0)
  <2>1. new = Listing
    <3> HIDE DEF rows
    <3> QED BY <1>3, <1>7, <1>11
  <2> HIDE DEF new
  <2>2. OpeningsOf(new) = {}
    BY <1>2, <2>1 DEF OpeningsOf
  <2>3. Known(new)
    BY <1>2, <1>4, <1>11, <2>1, <2>2 DEF Known
  <2>4. UkFunding!Amounts(new) - v5 = v7.cash
    BY <1>1, <1>2, <1>5, <1>11, <2>1
  <2> QED BY <1>2, <2>1, <2>3, <2>4 DEF new
<1> QED BY <1>10, <1>11

(* What a cycle with Trading 212 leaves in the ledger.                     *)
LEMMA OpeningIsBooked ==
  ASSUME UkFunding!FundingInv, v1 = "t212", v8 = "record",
         NEW listRead \in BOOLEAN, NEW cashRead \in BOOLEAN
  PROVE  LET rows == UkFunding!Listed(listRead)
             new == rows \cup UkFunding!Opening(rows, cashRead)
             ill == v12 \cup UkFunding!Blind(listRead, cashRead)
         IN  /\ Dated(new)
             /\ ill \cap {"unlisted", "unopened"} = {} => Known(new)
             /\ listRead /\ cashRead /\ ill \cap {"unlisted", "unopened", "missed"} = {} =>
                  UkFunding!Amounts(new) - v5 = v7.cash
<1> DEFINE rows == UkFunding!Listed(listRead)
           open == UkFunding!Opening(rows, cashRead)
           new == rows \cup open
           ill == v12 \cup UkFunding!Blind(listRead, cashRead)
<1>1. /\ UkFunding!LedgerInOrder /\ UkFunding!BankAddsUp /\ UkFunding!IdleUntilOpened
      /\ v2 \in Nat /\ v5 \in Int /\ Dated(v4)
  BY LedgerIsDated DEF UkFunding!FundingInv
<1>2. /\ Dated(Listing) /\ v7.cash + v7.shares = v7.old + Cardinality(Listing)
      /\ v7.cash \in Int /\ v7.shares \in Int /\ v7.old \in Nat /\ Cardinality(Listing) \in Nat
  BY <1>1, ListingRows
<1>3. rows = IF listRead THEN UkFunding!Insert(v4, Listing) ELSE v4
  BY DEF UkFunding!Listed, Listing
<1>4. Dated(rows)
  <2> HIDE DEF rows
  <2> QED BY <1>1, <1>2, <1>3, RowsTogether
<1>5. Dated(open)
  <2>1. UkFunding!Amounts(rows) \in Int
    BY <1>4, AmountsOfDated
  <2> DEFINE n == v7.cash - UkFunding!CashOf(rows)
  <2>2. n \in Int
    <3> HIDE DEF rows
    <3> QED BY <1>1, <1>2, <2>1 DEF UkFunding!CashOf
  <2>3. open \in {{UkFunding!Flow(v2, "contribution", "opening", n)}, {}}
    BY DEF UkFunding!Opening
  <2> HIDE DEF n, open
  <2>4. Dated({UkFunding!Flow(v2, "contribution", "opening", n)}) /\ Dated({})
    BY <1>1, <2>2, OneRowDated
  <2> QED BY <2>3, <2>4
<1>6. Dated(new)
  <2> HIDE DEF rows, open
  <2> QED BY <1>4, <1>5, RowsTogether
<1>7. CASE "opened" \in v6
  <2>1. open = {} /\ UkFunding!Blind(listRead, cashRead) = {}
    BY <1>7 DEF UkFunding!Opening, UkFunding!Blind
  <2> HIDE DEF rows, open
  <2>2. ASSUME ill \cap {"unlisted", "unopened"} = {} PROVE Known(v4)
    BY <1>7, <2>1, <2>2
       DEF UkFunding!FundingInv, UkFunding!ListExplains, UkFunding!Opened, Known, Listing,
           OpeningsOf
  <2>3. ASSUME ill \cap {"unlisted", "unopened"} = {}
        PROVE  /\ Known(new)
               /\ listRead => UkFunding!Amounts(new) = v7.old + Cardinality(Listing)
    <3>1. new = rows
      BY <2>1
    <3>2. Known(v4)
      BY <2>2, <2>3
    <3> HIDE DEF new
    <3> QED BY <1>1, <1>3, <3>1, <3>2, LaterListing
  <2>4. ASSUME ill \cap {"unlisted", "unopened", "missed"} = {} PROVE v7.shares = v5
    <3>1. "missed" \notin v12 /\ v1 # "sim" /\ UkFunding!Unbooked = 0
      BY <2>4 DEF UkFunding!Unbooked
    <3>2. v7.shares = v5 + 0
      BY <3>1 DEF UkFunding!FundingInv, UkFunding!FillsAreBooked
    <3> QED BY <1>1, <3>2
  <2>5. ASSUME listRead, ill \cap {"unlisted", "unopened", "missed"} = {}
        PROVE  UkFunding!Amounts(new) - v5 = v7.cash
    <3>1. ill \cap {"unlisted", "unopened"} = {}
      BY <2>5
    <3>2. UkFunding!Amounts(new) = v7.old + Cardinality(Listing)
      BY <2>3, <2>5, <3>1
    <3>3. v7.shares = v5
      BY <2>4, <2>5
    <3> HIDE DEF new, ill
    <3> QED BY <1>1, <1>2, <3>2, <3>3
  <2> QED BY <1>6, <2>3, <2>5 DEF open, rows
<1>8. CASE "opened" \notin v6
  <2>1. ASSUME ill \cap {"unlisted", "unopened"} = {} PROVE listRead = TRUE /\ cashRead = TRUE
    BY <1>8, <2>1 DEF UkFunding!Blind
  <2>2. ASSUME ill \cap {"unlisted", "unopened"} = {}
        PROVE  Known(new) /\ UkFunding!Amounts(new) - v5 = v7.cash
    <3>1. new = UkFunding!Insert(v4, Listing) \cup UkFunding!Opening(UkFunding!Insert(v4, Listing), TRUE)
      BY <1>3, <2>1, <2>2
    <3> HIDE DEF new, ill
    <3> QED BY <1>1, <1>8, <3>1, FirstListing
  <2>3. ill \cap {"unlisted", "unopened", "missed"} = {} => ill \cap {"unlisted", "unopened"} = {}
    OBVIOUS
  <2> HIDE DEF ill, new
  <2>4. Known(new) \/ ill \cap {"unlisted", "unopened"} # {}
    BY <2>2
  <2> QED BY <1>6, <2>2, <2>3 DEF ill, new, open, rows
<1> QED BY <1>7, <1>8

-----------------------------------------------------------------------------
(* One step at a time.                                                     *)

LEMMA FundingInit == UkFunding!Init => UkFunding!FundingInv
<1> SUFFICES ASSUME UkFunding!Init PROVE UkFunding!FundingInv
  OBVIOUS
<1>1. PICK old \in IF v1 = "t212" THEN 0 .. OldMoney ELSE {0} :
        v7 = [cash |-> old, shares |-> 0, old |-> old, paidIn |-> {}, ex |-> {}, paid |-> {}]
  BY DEF UkFunding!Init
<1>2. old \in Nat
  BY FundingAssumption
<1>3. IsFiniteSet({}) /\ Cardinality({}) = 0
  BY FS_EmptySet
<1>4. UkFunding!LedgerInOrder
  BY <1>3, RowsCounted DEF UkFunding!Init, UkFunding!LedgerInOrder
<1>5. UkFunding!BankAddsUp
  BY <1>1, <1>2, <1>3, RowsCounted DEF UkFunding!BankAddsUp
<1>6. UkFunding!CycleInOrder
  BY DEF UkFunding!Init, UkFunding!NoOrder, UkFunding!CycleInOrder
<1>7. UkFunding!FillsAreBooked
  BY <1>1 DEF UkFunding!Init, UkFunding!FillsAreBooked, UkFunding!Unbooked
<1>8. UkFunding!ReconciledLater /\ UkFunding!IdleUntilOpened /\ UkFunding!ListExplains
  BY <1>1 DEF UkFunding!Init, UkFunding!ReconciledLater, UkFunding!IdleUntilOpened,
              UkFunding!ListExplains
<1> QED BY <1>4, <1>5, <1>6, <1>7, <1>8 DEF UkFunding!FundingInv

\* What is explained stays so while rows and opening balance do.
LEMMA ListStaysExplained ==
  ASSUME UkFunding!ListExplains, v1' = v1, v4' = v4, "opened" \in v6' => "opened" \in v6,
         v12 \subseteq v12', v7'.old = v7.old,
         v7.paidIn \subseteq v7'.paidIn, v7.paid \subseteq v7'.paid
  PROVE  UkFunding!ListExplains'
<1> SUFFICES ASSUME v1 = "t212", "opened" \in v6, v12' \cap {"unlisted", "unopened"} = {}
             PROVE  /\ v4 \ UkFunding!Opened \subseteq
                         UkFunding!Deposits' \cup UkFunding!PaidDividends'
                    /\ UkFunding!Amounts(UkFunding!Opened) = v7.old
  BY DEF UkFunding!ListExplains, UkFunding!Opened
<1>1. /\ v4 \ UkFunding!Opened \subseteq UkFunding!Deposits \cup UkFunding!PaidDividends
      /\ UkFunding!Amounts(UkFunding!Opened) = v7.old
  BY DEF UkFunding!ListExplains
<1>2. /\ UkFunding!Deposits \subseteq UkFunding!Deposits'
      /\ UkFunding!PaidDividends \subseteq UkFunding!PaidDividends'
  BY DEF UkFunding!Deposits, UkFunding!PaidDividends
<1> QED BY <1>1, <1>2

LEMMA AccountAtRest ==
  ASSUME UkFunding!FundingInv, UNCHANGED <<v1, v2, v4, v5, v7>>,
         "opened" \in v6' => "opened" \in v6, v12 \subseteq v12'
  PROVE  UkFunding!LedgerInOrder' /\ UkFunding!BankAddsUp' /\ UkFunding!ListExplains'
<1>1. UkFunding!LedgerInOrder'
  BY DEF UkFunding!FundingInv, UkFunding!LedgerInOrder
<1>2. UkFunding!BankAddsUp'
  BY DEF UkFunding!FundingInv, UkFunding!BankAddsUp
<1>3. UkFunding!ListExplains'
  BY ListStaysExplained DEF UkFunding!FundingInv
<1> QED BY <1>1, <1>2, <1>3

Bank(d) ==
  [cash : Int, shares : Int, old : Nat, paidIn : SUBSET (0 .. d),
   ex : SUBSET (0 .. d), paid : SUBSET (0 .. d)]

CycleKept ==
  /\ UkFunding!CycleInOrder /\ UkFunding!FillsAreBooked
  /\ UkFunding!ReconciledLater /\ UkFunding!IdleUntilOpened

(* The steps in which neither ledger nor balance move.                     *)
LEMMA QuietFunds ==
  ASSUME UkFunding!FundingInv,
         \/ UkFunding!StartCycle \/ UkFunding!SkipCycle \/ UkFunding!MarkFunded
         \/ UkFunding!SendBuy \/ UkFunding!SendSell \/ UkFunding!Rejected
         \/ UkFunding!Unanswered \/ UkFunding!EndCycle \/ UkFunding!Dies
  PROVE  UkFunding!FundingInv'
<1>1. UkFunding!LedgerInOrder' /\ UkFunding!BankAddsUp' /\ UkFunding!ListExplains'
  BY AccountAtRest
     DEF UkFunding!StartCycle, UkFunding!SkipCycle, UkFunding!MarkFunded, UkFunding!SendBuy,
         UkFunding!SendSell, UkFunding!Rejected, UkFunding!Unanswered, UkFunding!EndCycle,
         UkFunding!Dies
<1>2. ASSUME UkFunding!StartCycle PROVE CycleKept'
  BY <1>2
  DEF UkFunding!StartCycle, CycleKept, UkFunding!FundingInv, UkFunding!CycleInOrder,
       UkFunding!FillsAreBooked, UkFunding!Unbooked, UkFunding!ReconciledLater,
       UkFunding!IdleUntilOpened
<1>3. ASSUME UkFunding!SkipCycle PROVE CycleKept'
  BY <1>3
  DEF UkFunding!SkipCycle, CycleKept, UkFunding!FundingInv, UkFunding!CycleInOrder,
       UkFunding!FillsAreBooked, UkFunding!Unbooked, UkFunding!ReconciledLater,
       UkFunding!IdleUntilOpened
<1>4. ASSUME UkFunding!SendBuy PROVE CycleKept'
  BY <1>4
  DEF UkFunding!SendBuy, UkFunding!NoOrder, CycleKept, UkFunding!FundingInv, UkFunding!CycleInOrder,
       UkFunding!FillsAreBooked, UkFunding!Unbooked, UkFunding!ReconciledLater,
       UkFunding!IdleUntilOpened
<1>5. ASSUME UkFunding!SendSell PROVE CycleKept'
  BY <1>5
  DEF UkFunding!SendSell, UkFunding!NoOrder, CycleKept, UkFunding!FundingInv, UkFunding!CycleInOrder,
       UkFunding!FillsAreBooked, UkFunding!Unbooked, UkFunding!ReconciledLater,
       UkFunding!IdleUntilOpened
<1>6. ASSUME UkFunding!Rejected PROVE CycleKept'
  BY <1>6
  DEF UkFunding!Rejected, UkFunding!NoOrder, CycleKept, UkFunding!FundingInv, UkFunding!CycleInOrder,
       UkFunding!FillsAreBooked, UkFunding!Unbooked, UkFunding!ReconciledLater,
       UkFunding!IdleUntilOpened
<1>7. ASSUME UkFunding!Unanswered PROVE CycleKept'
  <2>1. v8 = "sent" /\ v8' = "trade" /\ v1 # "sim" /\ UNCHANGED <<v1, v2, v3, v4, v5, v6, v7>>
    BY <1>7 DEF UkFunding!Unanswered
  <2>2. CASE v10.open
    BY <1>7, <2>2
    DEF UkFunding!Unanswered, CycleKept, UkFunding!FundingInv, UkFunding!CycleInOrder,
       UkFunding!FillsAreBooked, UkFunding!Unbooked, UkFunding!ReconciledLater,
       UkFunding!IdleUntilOpened
  <2>3. CASE ~v10.open
    <3>1. v10' = UkFunding!NoOrder /\ v12' = v12 \cup (IF v10.filled THEN {"missed"} ELSE {})
      BY <1>7, <2>3 DEF UkFunding!Unanswered
    <3>2. UkFunding!CycleInOrder' /\ UkFunding!ReconciledLater' /\ UkFunding!IdleUntilOpened'
      BY <2>1, <3>1
      DEF UkFunding!NoOrder, UkFunding!FundingInv, UkFunding!CycleInOrder,
          UkFunding!ReconciledLater, UkFunding!IdleUntilOpened
    <3>3. ASSUME "missed" \notin v12' PROVE v7.shares = v5 + 0
      <4>1. "missed" \notin v12 /\ ~v10.filled
        BY <3>1, <3>3
      <4> QED BY <2>1, <4>1
        DEF UkFunding!FundingInv, UkFunding!FillsAreBooked, UkFunding!Unbooked
    <3>4. UkFunding!Unbooked' = 0
      BY <2>1 DEF UkFunding!Unbooked
    <3>5. UkFunding!FillsAreBooked'
      BY <2>1, <3>3, <3>4 DEF UkFunding!FillsAreBooked
    <3> QED BY <3>2, <3>5 DEF CycleKept
  <2> QED BY <2>2, <2>3
<1>8. ASSUME UkFunding!EndCycle PROVE CycleKept'
  BY <1>8
  DEF UkFunding!EndCycle, CycleKept, UkFunding!FundingInv, UkFunding!CycleInOrder,
       UkFunding!FillsAreBooked, UkFunding!Unbooked, UkFunding!ReconciledLater,
       UkFunding!IdleUntilOpened
<1>9. ASSUME UkFunding!Dies PROVE CycleKept'
  BY <1>9
  DEF UkFunding!Dies, UkFunding!NoOrder, CycleKept, UkFunding!FundingInv, UkFunding!CycleInOrder,
       UkFunding!FillsAreBooked, UkFunding!Unbooked, UkFunding!ReconciledLater,
       UkFunding!IdleUntilOpened
<1>10. ASSUME UkFunding!MarkFunded PROVE CycleKept'
  BY <1>10
  DEF UkFunding!MarkFunded, CycleKept, UkFunding!FundingInv, UkFunding!CycleInOrder,
       UkFunding!FillsAreBooked, UkFunding!Unbooked, UkFunding!ReconciledLater,
       UkFunding!IdleUntilOpened
<1>11. CycleKept'
  BY <1>2, <1>3, <1>4, <1>5, <1>6, <1>7, <1>8, <1>9, <1>10
<1> QED BY <1>1, <1>11 DEF UkFunding!FundingInv, CycleKept

(* A fill or a refusal enters the ledger.                                  *)
LEMMA AnsweredFunds ==
  ASSUME UkFunding!FundingInv, UkFunding!Answered
  PROVE  UkFunding!FundingInv'
<1>1. UkFunding!LedgerInOrder'
  BY DEF UkFunding!Answered, UkFunding!FundingInv, UkFunding!LedgerInOrder
<1>2. UkFunding!BankAddsUp'
  BY DEF UkFunding!Answered, UkFunding!FundingInv, UkFunding!BankAddsUp
<1>3. UkFunding!ListExplains'
  BY ListStaysExplained DEF UkFunding!Answered, UkFunding!FundingInv
<1>4. UkFunding!CycleInOrder' /\ UkFunding!ReconciledLater' /\ UkFunding!IdleUntilOpened'
  BY DEF UkFunding!Answered, UkFunding!NoOrder, UkFunding!FundingInv, UkFunding!CycleInOrder,
         UkFunding!ReconciledLater, UkFunding!IdleUntilOpened
<1>5. UkFunding!FillsAreBooked'
  <2>1. v5 \in Int /\ (v1 # "sim" /\ "missed" \notin v12 => v7.shares = v5 + UkFunding!Unbooked)
    BY DEF UkFunding!FundingInv, UkFunding!LedgerInOrder, UkFunding!FillsAreBooked
  <2>2. v5' = v5 + UkFunding!Unbooked
    BY <2>1 DEF UkFunding!Answered, UkFunding!Unbooked
  <2>3. UkFunding!Unbooked' = 0
    BY DEF UkFunding!Answered, UkFunding!Unbooked
  <2>4. v5' \in Int
    BY <1>1 DEF UkFunding!LedgerInOrder
  <2> QED BY <2>1, <2>2, <2>3, <2>4 DEF UkFunding!Answered, UkFunding!FillsAreBooked
<1> QED BY <1>1, <1>2, <1>3, <1>4, <1>5 DEF UkFunding!FundingInv

LEMMA FilledFunds ==
  ASSUME UkFunding!FundingInv, UkFunding!Fills
  PROVE  UkFunding!FundingInv'
<1>0. /\ v7 \in Bank(v2) /\ v7.cash \in Int /\ v7.shares \in Int
      /\ v7.cash + v7.shares = v7.old + UkFunding!Cardinality(v7.paidIn) + UkFunding!Cardinality(v7.paid)
  BY DEF UkFunding!FundingInv, UkFunding!BankAddsUp, Bank
<1>1. /\ v7' \in Bank(v2)
      /\ v7'.cash + v7'.shares = v7.cash + v7.shares
      /\ v7'.old = v7.old /\ v7'.paidIn = v7.paidIn /\ v7'.ex = v7.ex /\ v7'.paid = v7.paid
      /\ v1 # "sim" => v7'.shares = IF v10.side = "BUY" THEN v7.shares + 1 ELSE v7.shares - 1
  <2>1. CASE v1 = "sim"
    BY <1>0, <2>1 DEF UkFunding!Fills
  <2>2. CASE v1 # "sim" /\ v10.side = "BUY"
    <3>1. v7' = [v7 EXCEPT !.cash = v7.cash - 1, !.shares = v7.shares + 1]
      BY <2>2 DEF UkFunding!Fills
    <3>2. v7.cash - 1 \in Int /\ v7.shares + 1 \in Int
      BY <1>0
    <3>3. /\ v7' \in Bank(v2) /\ v7'.cash = v7.cash - 1 /\ v7'.shares = v7.shares + 1
          /\ v7'.old = v7.old /\ v7'.paidIn = v7.paidIn /\ v7'.ex = v7.ex /\ v7'.paid = v7.paid
      BY <1>0, <3>1, <3>2 DEF Bank
    <3> QED BY <1>0, <2>2, <3>3
  <2>3. CASE v1 # "sim" /\ v10.side # "BUY"
    <3>1. v7' = [v7 EXCEPT !.cash = v7.cash + 1, !.shares = v7.shares - 1]
      BY <2>3 DEF UkFunding!Fills
    <3>2. v7.cash + 1 \in Int /\ v7.shares - 1 \in Int
      BY <1>0
    <3>3. /\ v7' \in Bank(v2) /\ v7'.cash = v7.cash + 1 /\ v7'.shares = v7.shares - 1
          /\ v7'.old = v7.old /\ v7'.paidIn = v7.paidIn /\ v7'.ex = v7.ex /\ v7'.paid = v7.paid
      BY <1>0, <3>1, <3>2 DEF Bank
    <3> QED BY <1>0, <2>3, <3>3
  <2> QED BY <2>1, <2>2, <2>3
<1>2. UkFunding!LedgerInOrder'
  BY DEF UkFunding!Fills, UkFunding!FundingInv, UkFunding!LedgerInOrder
<1>3. UkFunding!BankAddsUp'
  BY <1>0, <1>1 DEF UkFunding!Fills, UkFunding!BankAddsUp, Bank
<1>4. v12 \subseteq v12' /\ UNCHANGED <<v1, v2, v3, v4, v5, v6, v8>> /\ v10.open
  BY DEF UkFunding!Fills
<1>5. UkFunding!ListExplains'
  BY <1>1, <1>4, ListStaysExplained DEF UkFunding!FundingInv
<1>6. /\ v10 \in [side : {"none", "BUY", "SELL"}, open : BOOLEAN, filled : BOOLEAN]
      /\ ~v10.filled /\ (v8 # "idle" => v3)
  BY <1>4 DEF UkFunding!FundingInv, UkFunding!CycleInOrder
<1>7. v10' = IF v8 = "sent" THEN [v10 EXCEPT !.open = FALSE, !.filled = TRUE] ELSE UkFunding!NoOrder
  BY DEF UkFunding!Fills
<1>8. UkFunding!CycleInOrder'
  BY <1>4, <1>6, <1>7 DEF UkFunding!NoOrder, UkFunding!CycleInOrder
<1>9. UkFunding!ReconciledLater'
  BY <1>4 DEF UkFunding!FundingInv, UkFunding!ReconciledLater
<1>10. UkFunding!IdleUntilOpened'
  <2>1. ~(v1 = "t212" /\ "opened" \notin v6)
    BY <1>4 DEF UkFunding!FundingInv, UkFunding!IdleUntilOpened, UkFunding!NoOrder
  <2> QED BY <1>4, <2>1 DEF UkFunding!IdleUntilOpened
<1>11. UkFunding!FillsAreBooked'
  <2> SUFFICES ASSUME v1 # "sim", "missed" \notin v12'
               PROVE  v7'.shares = v5 + UkFunding!Unbooked'
    BY <1>4 DEF UkFunding!FillsAreBooked
  <2>1. v8 = "sent" /\ "missed" \notin v12
    BY <1>4 DEF UkFunding!Fills
  <2>2. v7.shares = v5 + 0 /\ v5 \in Int
    BY <1>6, <2>1
       DEF UkFunding!FundingInv, UkFunding!FillsAreBooked, UkFunding!Unbooked,
           UkFunding!LedgerInOrder
  <2>3. UkFunding!Unbooked' = IF v10.side = "BUY" THEN 1 ELSE -1
    BY <1>4, <1>6, <1>7, <2>1 DEF UkFunding!Unbooked
  <2> QED BY <1>1, <2>2, <2>3
<1> QED BY <1>2, <1>3, <1>5, <1>8, <1>9, <1>10, <1>11 DEF UkFunding!FundingInv

(* The account moves behind the ledger's back.                             *)
LEMMA BalanceStays ==
  ASSUME UkFunding!FundingInv, UNCHANGED <<v1, v2, v3, v4, v5, v6, v8, v10, v12>>,
         v7' \in Bank(v2), v7'.shares = v7.shares, v7'.old = v7.old,
         v7.paidIn \subseteq v7'.paidIn, v7.paid \subseteq v7'.paid,
         v7'.cash + v7'.shares =
           v7'.old + UkFunding!Cardinality(v7'.paidIn) + UkFunding!Cardinality(v7'.paid),
         v1 = "t212" /\ "opened" \notin v6 => v7'.ex = {} /\ v7'.paid = {}
  PROVE  UkFunding!FundingInv'
<1>1. UkFunding!LedgerInOrder'
  BY DEF UkFunding!FundingInv, UkFunding!LedgerInOrder
<1>2. UkFunding!BankAddsUp'
  BY DEF UkFunding!BankAddsUp, Bank
<1>3. UkFunding!ListExplains'
  BY ListStaysExplained DEF UkFunding!FundingInv
<1>4. UkFunding!CycleInOrder' /\ UkFunding!ReconciledLater'
  BY DEF UkFunding!FundingInv, UkFunding!CycleInOrder, UkFunding!ReconciledLater
<1>5. UkFunding!FillsAreBooked'
  BY DEF UkFunding!FundingInv, UkFunding!FillsAreBooked, UkFunding!Unbooked
<1>6. UkFunding!IdleUntilOpened'
  BY DEF UkFunding!FundingInv, UkFunding!IdleUntilOpened, UkFunding!NoOrder
<1> QED BY <1>1, <1>2, <1>3, <1>4, <1>5, <1>6 DEF UkFunding!FundingInv

LEMMA BankFields ==
  ASSUME UkFunding!FundingInv
  PROVE  /\ v7 \in Bank(v2) /\ v2 \in Nat /\ v7.cash \in Int /\ v7.shares \in Int /\ v7.old \in Nat
         /\ v7.cash + v7.shares =
              v7.old + UkFunding!Cardinality(v7.paidIn) + UkFunding!Cardinality(v7.paid)
         /\ UkFunding!Cardinality(v7.paidIn) \in Nat /\ UkFunding!Cardinality(v7.paid) \in Nat
         /\ IsFiniteSet(v7.paidIn)
         /\ v7.paidIn \in SUBSET (0 .. v2) /\ v7.paid \in SUBSET (0 .. v2)
         /\ v7.ex \in SUBSET (0 .. v2)
<1>1. UkFunding!BankAddsUp /\ v2 \in Nat
  BY DEF UkFunding!FundingInv, UkFunding!LedgerInOrder
<1>2. /\ v7 \in Bank(v2) /\ v7.cash \in Int /\ v7.shares \in Int /\ v7.old \in Nat
      /\ v7.cash + v7.shares =
           v7.old + UkFunding!Cardinality(v7.paidIn) + UkFunding!Cardinality(v7.paid)
      /\ v7.paidIn \in SUBSET (0 .. v2) /\ v7.paid \in SUBSET (0 .. v2)
      /\ v7.ex \in SUBSET (0 .. v2)
  BY <1>1 DEF UkFunding!BankAddsUp, Bank
<1>3. IsFiniteSet(0 .. v2)
  BY <1>1, FS_Interval
<1>4. IsFiniteSet(v7.paidIn) /\ IsFiniteSet(v7.paid)
  BY <1>2, <1>3, FS_Subset
<1>5. Cardinality(v7.paidIn) \in Nat /\ Cardinality(v7.paid) \in Nat
  BY <1>4, FS_CardinalityType
<1> QED BY <1>1, <1>2, <1>4, <1>5, RowsCounted

LEMMA DepositFunds ==
  ASSUME UkFunding!FundingInv, UkFunding!Deposit
  PROVE  UkFunding!FundingInv'
<1>1. v7' = [v7 EXCEPT !.paidIn = v7.paidIn \cup {v2}, !.cash = v7.cash + 1] /\ v2 \notin v7.paidIn
  BY DEF UkFunding!Deposit
<1>2. /\ v7 \in Bank(v2) /\ v2 \in Nat /\ v7.cash \in Int
      /\ v7.paidIn \in SUBSET (0 .. v2)
  BY BankFields
<1>3. v7.paidIn \cup {v2} \in SUBSET (0 .. v2) /\ v7.cash + 1 \in Int
  BY <1>2
<1>4. /\ v7' \in Bank(v2) /\ v7'.paidIn = v7.paidIn \cup {v2} /\ v7'.cash = v7.cash + 1
      /\ v7'.shares = v7.shares /\ v7'.old = v7.old /\ v7'.ex = v7.ex /\ v7'.paid = v7.paid
  BY <1>1, <1>2, <1>3 DEF Bank
<1>5. UkFunding!Cardinality(v7.paidIn \cup {v2}) = UkFunding!Cardinality(v7.paidIn) + 1
  <2>1. Cardinality(v7.paidIn \cup {v2}) = Cardinality(v7.paidIn) + 1
    BY <1>1, BankFields, FS_AddElement
  <2> QED BY <2>1, RowsCounted
<1>6. v7'.cash + v7'.shares =
        v7'.old + UkFunding!Cardinality(v7'.paidIn) + UkFunding!Cardinality(v7'.paid)
  BY <1>4, <1>5, BankFields
<1>7. v1 = "t212" /\ "opened" \notin v6 => v7.ex = {} /\ v7.paid = {}
  BY DEF UkFunding!FundingInv, UkFunding!IdleUntilOpened
<1> QED BY <1>4, <1>6, <1>7, BalanceStays DEF UkFunding!Deposit

LEMMA GoesExFunds ==
  ASSUME UkFunding!FundingInv, UkFunding!GoesEx
  PROVE  UkFunding!FundingInv'
<1>1. v7' = [v7 EXCEPT !.ex = {v2}] /\ v5 > 0
  BY DEF UkFunding!GoesEx
<1>2. v7 \in Bank(v2) /\ {v2} \in SUBSET (0 .. v2)
  BY BankFields
<1>3. /\ v7' \in Bank(v2) /\ v7'.paidIn = v7.paidIn /\ v7'.cash = v7.cash
      /\ v7'.shares = v7.shares /\ v7'.old = v7.old /\ v7'.paid = v7.paid
  BY <1>1, <1>2 DEF Bank
<1>4. ~(v1 = "t212" /\ "opened" \notin v6)
  BY <1>1 DEF UkFunding!FundingInv, UkFunding!IdleUntilOpened
<1> QED BY <1>3, <1>4, BankFields, BalanceStays DEF UkFunding!GoesEx

LEMMA DividendFunds ==
  ASSUME UkFunding!FundingInv, UkFunding!DividendPaid
  PROVE  UkFunding!FundingInv'
<1>1. /\ v7' = [v7 EXCEPT !.paid = {v2}, !.cash = v7.cash + 1]
      /\ v7.paid = {} /\ v7.ex # {}
  BY DEF UkFunding!DividendPaid
<1>2. v7 \in Bank(v2) /\ {v2} \in SUBSET (0 .. v2) /\ v7.cash + 1 \in Int
  BY BankFields
<1>3. /\ v7' \in Bank(v2) /\ v7'.paidIn = v7.paidIn /\ v7'.cash = v7.cash + 1
      /\ v7'.shares = v7.shares /\ v7'.old = v7.old /\ v7'.paid = {v2}
  BY <1>1, <1>2 DEF Bank
<1>4. UkFunding!Cardinality({v2}) = 1 /\ UkFunding!Cardinality(v7.paid) = 0
  BY <1>1, RowsCounted, FS_Singleton, FS_EmptySet
<1>5. v7'.cash + v7'.shares =
        v7'.old + UkFunding!Cardinality(v7'.paidIn) + UkFunding!Cardinality(v7'.paid)
  BY <1>3, <1>4, BankFields
<1>6. ~(v1 = "t212" /\ "opened" \notin v6)
  BY <1>1 DEF UkFunding!FundingInv, UkFunding!IdleUntilOpened
<1>7. v7.paid \subseteq v7'.paid
  BY <1>1
<1> QED BY <1>3, <1>5, <1>6, <1>7, BalanceStays DEF UkFunding!DividendPaid

(* Another day: nothing in the ledger is of that day yet.                  *)
LEMMA DayFunds ==
  ASSUME UkFunding!FundingInv, UkFunding!NextDay
  PROVE  UkFunding!FundingInv'
<1>1. /\ v2 \in Nat /\ v5 \in Int /\ Dated(v4) /\ v2' = v2 + 1
      /\ UNCHANGED <<v1, v4, v5, v6, v7, v8, v10, v12>>
  BY LedgerIsDated DEF UkFunding!FundingInv, UkFunding!NextDay
<1>2. 0 .. v2 \subseteq 0 .. v2' /\ v2' \in Nat
  BY <1>1
<1>3. UkFunding!LedgerInOrder'
  BY <1>1, <1>2 DEF UkFunding!FundingInv, UkFunding!LedgerInOrder
<1>4. UkFunding!BankAddsUp'
  <2>1. v7 \in Bank(v2')
    <3>1. v7 \in Bank(v2)
      BY BankFields
    <3> HIDE DEF UkFunding!FundingInv
    <3> QED BY <1>2, <3>1 DEF Bank
  <2> QED BY <1>1, <2>1, BankFields DEF UkFunding!BankAddsUp, Bank
<1>5. UkFunding!ListExplains'
  BY <1>1, ListStaysExplained DEF UkFunding!FundingInv
<1>6. UkFunding!CycleInOrder' /\ UkFunding!IdleUntilOpened'
  BY <1>1 DEF UkFunding!NextDay, UkFunding!NoOrder, UkFunding!FundingInv,
              UkFunding!CycleInOrder, UkFunding!IdleUntilOpened
<1>7. UkFunding!FillsAreBooked'
  BY <1>1 DEF UkFunding!FundingInv, UkFunding!FillsAreBooked, UkFunding!Unbooked
<1>8. UkFunding!ReconciledLater'
  <2>1. ASSUME NEW f \in v4 PROVE f.day # v2'
    BY <1>1 DEF Dated
  <2> QED BY <1>1, <2>1 DEF UkFunding!ReconciledLater
<1> QED BY <1>3, <1>4, <1>5, <1>6, <1>7, <1>8 DEF UkFunding!FundingInv

(* The three ways to record.                                               *)
LEMMA RecordedFunds ==
  ASSUME UkFunding!FundingInv, v8 = "record", v8' \in {"trade", "funded"}, Dated(v4'),
         UNCHANGED <<v1, v2, v3, v5, v7, v10>>, v12 \subseteq v12', UkFunding!ListExplains',
         v1 = "t212" => "opened" \in v6'
  PROVE  UkFunding!FundingInv'
<1>1. UkFunding!LedgerInOrder'
  BY RowsCounted DEF UkFunding!FundingInv, UkFunding!LedgerInOrder, Dated
<1>2. UkFunding!BankAddsUp'
  BY DEF UkFunding!FundingInv, UkFunding!BankAddsUp
<1>3. UkFunding!CycleInOrder' /\ UkFunding!ReconciledLater' /\ UkFunding!IdleUntilOpened'
  BY DEF UkFunding!FundingInv, UkFunding!CycleInOrder, UkFunding!ReconciledLater,
         UkFunding!IdleUntilOpened
<1>4. UkFunding!FillsAreBooked'
  <2>1. UkFunding!Unbooked = 0 /\ UkFunding!Unbooked' = 0
    BY DEF UkFunding!Unbooked
  <2> QED BY <2>1 DEF UkFunding!FundingInv, UkFunding!FillsAreBooked
<1> QED BY <1>1, <1>2, <1>3, <1>4 DEF UkFunding!FundingInv

LEMMA SimulatedFunds ==
  ASSUME UkFunding!FundingInv, UkFunding!RecordSimulated
  PROVE  UkFunding!FundingInv'
<1> DEFINE a == {UkFunding!Flow(v2, "contribution", "monthly", 1)}
           b == IF "funded" \in v6 THEN {} ELSE {UkFunding!Flow(v2, "contribution", "initial", 1)}
<1>1. v2 \in Nat /\ Dated(v4)
  BY LedgerIsDated DEF UkFunding!FundingInv
<1>2. Dated(a) /\ Dated(b)
  BY <1>1, OneRowDated
<1>3. v4' = UkFunding!Insert(v4, a \cup b)
  BY DEF UkFunding!RecordSimulated, UkFunding!Simulated
<1> HIDE DEF a, b
<1>4. Dated(v4')
  BY <1>1, <1>2, <1>3, RowsTogether
<1>5. UkFunding!ListExplains'
  BY DEF UkFunding!RecordSimulated, UkFunding!ListExplains
<1> QED BY <1>4, <1>5, RecordedFunds DEF UkFunding!RecordSimulated

LEMMA IbkrFunds ==
  ASSUME UkFunding!FundingInv, UkFunding!RecordIbkr
  PROVE  UkFunding!FundingInv' /\ (v11' /\ "twice" \notin v12' => UkFunding!CashOf(v4)' = v7.cash)
<1>1. PICK cashRead \in BOOLEAN : v4' = UkFunding!Reconciled(cashRead) /\ v11' = cashRead
  BY DEF UkFunding!RecordIbkr
<1>2. v8 = "record" /\ v8' = "trade" /\ v1 = "ibkr" /\ UNCHANGED <<v1, v2, v3, v5, v6, v7, v10, v12>>
  BY DEF UkFunding!RecordIbkr
<1>3. /\ Dated(UkFunding!Reconciled(cashRead))
      /\ cashRead /\ "twice" \notin v12 =>
           UkFunding!Amounts(UkFunding!Reconciled(cashRead)) - v5 = v7.cash
  BY <1>2, DifferenceIsBooked DEF UkFunding!FundingInv
<1>4. Dated(v4')
  BY <1>1, <1>3
<1>5. UkFunding!ListExplains'
  BY <1>2 DEF UkFunding!ListExplains
<1>6. v11' /\ "twice" \notin v12' => UkFunding!Amounts(v4') - v5' = v7.cash
  BY <1>1, <1>2, <1>3
<1> QED BY <1>2, <1>4, <1>5, <1>6, RecordedFunds DEF UkFunding!CashOf

LEMMA T212Funds ==
  ASSUME UkFunding!FundingInv, UkFunding!RecordT212
  PROVE  /\ UkFunding!FundingInv'
         /\ v11' /\ v12' \cap {"unlisted", "unopened", "missed"} = {} =>
              UkFunding!CashOf(v4)' = v7.cash
<1>1. PICK listRead \in BOOLEAN, cashRead \in BOOLEAN :
        /\ v4' = UkFunding!Listed(listRead)
                   \cup UkFunding!Opening(UkFunding!Listed(listRead), cashRead)
        /\ v12' = v12 \cup UkFunding!Blind(listRead, cashRead)
        /\ v11' = (listRead /\ cashRead)
  BY DEF UkFunding!RecordT212
<1>2. /\ v8 = "record" /\ v8' = "trade" /\ v1 = "t212" /\ v6' = v6 \cup {"opened"}
      /\ UNCHANGED <<v1, v2, v3, v5, v7, v10>>
  BY DEF UkFunding!RecordT212
<1>3. /\ Dated(v4')
      /\ v12' \cap {"unlisted", "unopened"} = {} => Known(v4')
      /\ listRead /\ cashRead /\ v12' \cap {"unlisted", "unopened", "missed"} = {} =>
           UkFunding!Amounts(v4') - v5 = v7.cash
  BY <1>1, <1>2, OpeningIsBooked
<1>4. UkFunding!ListExplains'
  BY <1>2, <1>3
     DEF UkFunding!ListExplains, Known, OpeningsOf, UkFunding!Opened, Listing,
         UkFunding!Deposits, UkFunding!PaidDividends
<1>5. v12 \subseteq v12' /\ "opened" \in v6'
  BY <1>1, <1>2
<1>6. v11' /\ v12' \cap {"unlisted", "unopened", "missed"} = {} =>
        UkFunding!Amounts(v4') - v5' = v7.cash
  BY <1>1, <1>2, <1>3
<1> QED BY <1>2, <1>3, <1>4, <1>5, <1>6, RecordedFunds DEF UkFunding!CashOf

LEMMA FundingStep == UkFunding!FundingInv /\ NextUkFunding => UkFunding!FundingInv'
  BY QuietFunds, AnsweredFunds, FilledFunds, DepositFunds, GoesExFunds, DividendFunds, DayFunds,
     SimulatedFunds, IbkrFunds, T212Funds DEF NextUkFunding

\* Only the two records with a broker inform a cycle.
LEMMA BooksStep == UkFunding!FundingInv /\ NextUkFunding => UkFunding!BooksExplain
<1> SUFFICES ASSUME UkFunding!FundingInv, NextUkFunding, v11', ~v11,
                    v12' \cap UkFunding!Excuses = {}
             PROVE  UkFunding!CashOf(v4)' = v7.cash
  BY DEF UkFunding!BooksExplain
<1>1. UkFunding!RecordT212 \/ UkFunding!RecordIbkr
  BY DEF NextUkFunding, UkFunding!StartCycle, UkFunding!SkipCycle, UkFunding!RecordSimulated,
         UkFunding!MarkFunded, UkFunding!SendBuy, UkFunding!SendSell, UkFunding!Fills,
         UkFunding!Rejected, UkFunding!Answered, UkFunding!Unanswered, UkFunding!EndCycle,
         UkFunding!Dies, UkFunding!NextDay, UkFunding!Deposit, UkFunding!GoesEx,
         UkFunding!DividendPaid
<1>2. CASE UkFunding!RecordT212
  <2>1. v12' \cap {"unlisted", "unopened", "missed"} = {}
    BY <1>2 DEF UkFunding!RecordT212, UkFunding!Excuses
  <2> QED BY <1>2, <2>1, T212Funds
<1>3. CASE UkFunding!RecordIbkr
  <2>1. "twice" \notin v12'
    BY <1>3 DEF UkFunding!RecordIbkr, UkFunding!Excuses
  <2> QED BY <1>3, <2>1, IbkrFunds
<1> QED BY <1>1, <1>2, <1>3

LEMMA FundingKept == Spec => [](focus = "funding_uk" => UkFunding!FundingInv)
<1> DEFINE Inv == focus = "funding_uk" => UkFunding!FundingInv
<1>1. Init => Inv
  BY WhoStarts, FundingInit DEF Init, InitUkFunding
<1>2. Inv /\ [Next]_vars => Inv'
  <2> SUFFICES ASSUME Inv, [Next]_vars, focus' = "funding_uk"
               PROVE  UkFunding!FundingInv'
    OBVIOUS
  <2>1. UkFunding!FundingInv
    BY FocusStays
  <2>2. CASE Next
    BY <2>1, <2>2, WhoSteps, FundingStep DEF Next
  <2>3. CASE UNCHANGED vars
    <3>1. UNCHANGED <<v1, v2, v3, v4, v5, v6, v7, v8, v10, v12>>
      BY <2>3 DEF vars
    <3>2. UkFunding!LedgerInOrder' /\ UkFunding!BankAddsUp' /\ UkFunding!ListExplains'
      BY <2>1, <3>1, AccountAtRest
    <3>3. CycleKept'
      BY <2>1, <3>1
      DEF CycleKept, UkFunding!FundingInv, UkFunding!CycleInOrder, UkFunding!FillsAreBooked,
          UkFunding!Unbooked, UkFunding!ReconciledLater, UkFunding!IdleUntilOpened,
          UkFunding!NoOrder
    <3> QED BY <3>2, <3>3 DEF UkFunding!FundingInv, CycleKept
  <2> QED BY <2>2, <2>3
<1> QED BY <1>1, <1>2, PTL DEF Spec

(* Once a cycle has the broker's figures the UK bot's ledger explains the  *)
(* whole balance: what it holds in cash is the sum of every row of the     *)
(* ledger less what its shares cost, for any number of days, deposits and  *)
(* orders, however many of them were refused or interrupted.  An order     *)
(* whose fill was missed and a first cycle without list or balance are     *)
(* Trading 212's exceptions, a second cycle of one day IBKR's.             *)
THEOREM LedgerExplainsBalance == Spec => BooksExplainTheBalance
<1> DEFINE Inv == focus = "funding_uk" => UkFunding!FundingInv
           Step == focus = "funding_uk" => UkFunding!BooksExplain
<1>1. Inv /\ [Next]_vars => [Step]_vars
  <2> SUFFICES ASSUME Inv, Next, focus = "funding_uk" PROVE UkFunding!BooksExplain
    OBVIOUS
  <2> QED BY WhoSteps, BooksStep DEF Next
<1>2. BooksExplainTheBalance <=> [][Step]_vars
  BY DEF BooksExplainTheBalance
<1> HIDE DEF Step
<1> QED BY <1>1, <1>2, FundingKept, PTL DEF Spec


-----------------------------------------------------------------------------
(* How large a purchase is (Sizing).  v1 is the market and mode, v2 the    *)
(* prices, v3 the snapshot of the last sync, v5 the adds, v8 what is held, *)
(* v10 the money, v11 the orders, v14 .. v17 the history.                  *)

LEMMA LeastIsBoth ==
  ASSUME NEW a \in Int, NEW b \in Int
  PROVE  Sizing!Least(a, b) \in Int /\ Sizing!Least(a, b) <= a /\ Sizing!Least(a, b) <= b
  BY DEF Sizing!Least

LEMMA GreatestIsOne ==
  ASSUME NEW a \in Int, NEW b \in Int
  PROVE  /\ Sizing!Greatest(a, b) \in {a, b}
         /\ Sizing!Greatest(a, b) >= a /\ Sizing!Greatest(a, b) >= b
  BY DEF Sizing!Greatest

LEMMA StopIsPositive ==
  ASSUME NEW p \in Quote, NEW atr \in Atr
  PROVE  Sizing!StopPct(p, atr) \in Nat \ {0}
<1>1. p \in Nat \ {0} /\ atr \in Nat /\ StopLoss \in Nat \ {0}
  BY SizingAssumption
<1> DEFINE b == IF atr > 0 THEN (20000 * atr) \div p ELSE StopLoss
<1>2. b \in Int
  BY <1>1
<1> HIDE DEF b
<1>3. Sizing!Least(500, b) \in Int
  BY <1>2, LeastIsBoth
<1>4. Sizing!Greatest(StopLoss, Sizing!Least(500, b)) \in Int
      /\ Sizing!Greatest(StopLoss, Sizing!Least(500, b)) >= StopLoss
  BY <1>1, <1>3, GreatestIsOne
<1> QED BY <1>1, <1>4 DEF Sizing!StopPct, b

LEMMA QuotesAreInt == \A p \in Quote : p \in Nat \ {0}
  BY SizingAssumption

LEMMA UnitIsPositive == Sizing!Unit \in Nat \ {0}
  BY SizingAssumption DEF Sizing!Unit

(* Rounding: down where shares are whole, by half a unit elsewhere.        *)
LEMMA RoundedIsClose ==
  ASSUME NEW num \in Int, NEW den \in Nat \ {0}
  PROVE  /\ Sizing!Rounded(num, den) \in Int
         /\ Sizing!market = "IN" => Sizing!Rounded(num, den) * den <= num
         /\ Sizing!market # "IN" => (2 * Sizing!Rounded(num, den) - 1) * den <= 2 * num
<1>1. CASE Sizing!market = "IN"
  <2>1. Sizing!Rounded(num, den) = num \div den
    BY <1>1 DEF Sizing!Rounded
  <2>2. num \div den \in Int /\ (num \div den) * den <= num
    OBVIOUS
  <2> QED BY <1>1, <2>1, <2>2
<1>2. CASE Sizing!market # "IN"
  <2> DEFINE r == (2 * num + den) \div (2 * den)
  <2>1. Sizing!Rounded(num, den) = r
    BY <1>2 DEF Sizing!Rounded
  <2>2. r \in Int /\ r * (2 * den) <= 2 * num + den
    OBVIOUS
  <2> HIDE DEF r
  <2>3. (2 * r - 1) * den = r * (2 * den) - den
    BY <2>2
  <2> QED BY <1>2, <2>1, <2>2, <2>3
<1> QED BY <1>1, <1>2

Nav == v3.nav
StopOf(p, atr) == p * Sizing!StopPct(p, atr)

LEMMA StopOfIsPositive ==
  ASSUME NEW p \in Quote, NEW atr \in Atr
  PROVE  StopOf(p, atr) \in Nat \ {0}
<1>1. p \in Nat \ {0} /\ Sizing!StopPct(p, atr) \in Nat \ {0}
  BY SizingAssumption, StopIsPositive
<1> QED BY <1>1 DEF StopOf

(* The risk of a size that fits a budget is within the budget.             *)
LEMMA RiskFits ==
  ASSUME NEW p \in Quote, NEW atr \in Atr, NEW risk \in Nat, Nav \in Nat \ {0},
         NEW q \in Nat \ {0}, q <= Sizing!RiskUnits(risk, p, atr)
  PROVE  Sizing!RiskOf(q, p, atr) <= risk
<1> DEFINE D == StopOf(p, atr)
           U == Sizing!Unit
           W == 2 * Nav * U
           budget == Nav * risk * U
           r == Sizing!Rounded(budget, D)
           loss == IF Sizing!market = "IN" THEN (2 * q) * D ELSE (2 * q - 1) * D
<1>1. D \in Nat \ {0} /\ U \in Nat \ {0} /\ budget \in Int /\ W \in Nat \ {0}
  BY StopOfIsPositive, UnitIsPositive
<1>2. q <= r
  BY DEF Sizing!RiskUnits, Nav, StopOf
<1>3. r \in Int /\ (Sizing!market = "IN" => r * D <= budget)
                /\ (Sizing!market # "IN" => (2 * r - 1) * D <= 2 * budget)
  <2> HIDE DEF D, budget
  <2> QED BY <1>1, RoundedIsClose
<1>4. 2 * budget = W * risk
  BY <1>1
<1>5. loss \in Int /\ loss <= 2 * budget
  <2> HIDE DEF r, D, budget
  <2>1. CASE Sizing!market = "IN"
    <3>1. q * D <= r * D
      BY <1>1, <1>2, <1>3
    <3> QED BY <1>1, <1>3, <2>1, <3>1
  <2>2. CASE Sizing!market # "IN"
    <3>1. (2 * q - 1) * D <= (2 * r - 1) * D
      BY <1>1, <1>2, <1>3
    <3> QED BY <1>1, <1>3, <2>2, <3>1
  <2> QED BY <2>1, <2>2
<1>6. Sizing!RiskOf(q, p, atr) = (loss + W - 1) \div W
  BY DEF Sizing!RiskOf, Nav, StopOf
<1> HIDE DEF D, U, W, budget, r, loss
<1>7. (loss + W - 1) \div W <= risk
  BY <1>1, <1>4, <1>5
<1> QED BY <1>6, <1>7

LEMMA RiskIsNatural ==
  ASSUME NEW p \in Quote, NEW atr \in Atr, Nav \in Nat \ {0}, NEW q \in Nat \ {0}
  PROVE  Sizing!RiskOf(q, p, atr) \in Nat
<1> DEFINE D == StopOf(p, atr)
           U == Sizing!Unit
           W == 2 * Nav * U
           loss == IF Sizing!market = "IN" THEN (2 * q) * D ELSE (2 * q - 1) * D
<1>1. D \in Nat \ {0} /\ U \in Nat \ {0}
  BY StopOfIsPositive, UnitIsPositive
<1>2. W \in Nat \ {0}
  BY <1>1
<1>3. loss \in Nat
  <2> HIDE DEF D
  <2> QED BY <1>1
<1>4. Sizing!RiskOf(q, p, atr) = (loss + W - 1) \div W
  BY DEF Sizing!RiskOf, Nav, StopOf
<1> HIDE DEF D, U, W, loss
<1>5. (loss + W - 1) \div W \in Nat
  BY <1>2, <1>3
<1> QED BY <1>4, <1>5

(* The budget: one trade's risk, less what the book has of the heat.       *)
LEMMA BookIsFinite ==
  /\ Sizing!Book \in SUBSET Symbols /\ IsFiniteSet(Sizing!Book)
  /\ Cardinality(Sizing!Book) \in Nat /\ Sizing!Cardinality(Sizing!Book) = Cardinality(Sizing!Book)
<1>1. Sizing!Book \in SUBSET Symbols /\ IsFiniteSet(Symbols)
  BY SizingAssumption DEF Sizing!Book
<1>2. Sizing!Cardinality(Sizing!Book) = Cardinality(Sizing!Book)
  BY Zenon DEF Sizing!Cardinality, Cardinality
<1> HIDE DEF Sizing!Book
<1> QED BY <1>1, <1>2, FS_Subset, FS_CardinalityType

LEMMA BudgetIsBounded ==
  /\ Sizing!AvailableRisk \in Nat /\ Sizing!AvailableRisk <= TradeRisk
  /\ HeatCap > 0 /\ Sizing!AvailableRisk > 0 =>
       Sizing!AvailableRisk + Cardinality(Sizing!Book) * TradeRisk <= HeatCap
<1> DEFINE n == Cardinality(Sizing!Book)
           rest == HeatCap - n * TradeRisk
<1>1. n \in Nat /\ Sizing!Cardinality(Sizing!Book) = n
  BY BookIsFinite
<1>2. TradeRisk \in Nat /\ HeatCap \in Nat /\ rest \in Int
  BY <1>1, SizingAssumption
<1>3. CASE TradeRisk = 0 \/ HeatCap = 0
  BY <1>2, <1>3 DEF Sizing!AvailableRisk
<1>4. CASE TradeRisk # 0 /\ HeatCap # 0
  <2>1. Sizing!AvailableRisk = Sizing!Greatest(0, Sizing!Least(TradeRisk, rest))
    BY <1>1, <1>4 DEF Sizing!AvailableRisk
  <2> HIDE DEF n, rest
  <2> DEFINE l == Sizing!Least(TradeRisk, rest)
  <2>2. l \in Int /\ l <= TradeRisk /\ l <= rest
    BY <1>2, LeastIsBoth
  <2> HIDE DEF l
  <2>3. Sizing!Greatest(0, l) \in {0, l} /\ Sizing!Greatest(0, l) >= 0
    BY <2>2, GreatestIsOne
  <2>4. /\ Sizing!AvailableRisk \in Nat /\ Sizing!AvailableRisk <= TradeRisk
        /\ Sizing!AvailableRisk > 0 => Sizing!AvailableRisk <= rest
    BY <1>2, <2>1, <2>2, <2>3 DEF l
  <2>5. Sizing!AvailableRisk > 0 => Sizing!AvailableRisk + n * TradeRisk <= HeatCap
    BY <1>1, <1>2, <2>4 DEF rest
  <2> QED BY <2>4, <2>5 DEF n
<1> QED BY <1>3, <1>4

LEMMA SizesAreInt ==
  ASSUME NEW p \in Quote, NEW atr \in Atr, Nav \in Int
  PROVE  /\ Sizing!MaxNotional \in Int /\ Sizing!Quantity(p, atr) \in Int
         /\ \A risk \in Nat : Sizing!RiskUnits(risk, p, atr) \in Int
<1>1. /\ p \in Nat \ {0} /\ atr \in Nat /\ Sizing!Unit \in Nat \ {0} /\ SizePct \in Nat /\ Leverage \in Nat
      /\ StopOf(p, atr) \in Nat \ {0}
  BY SizingAssumption, UnitIsPositive, StopOfIsPositive
<1>2. Sizing!MaxNotional \in Int
  <2>1. (Nav * SizePct * Leverage) \div 100 \in Int
    BY <1>1
  <2> QED BY <2>1 DEF Sizing!MaxNotional, Nav
<1> DEFINE num == Sizing!MaxNotional * Sizing!Unit * (IF v7 THEN 1 ELSE 2)
           den == 2 * Sizing!Greatest(p, 2 * atr)
           size == Sizing!Rounded(num, den)
<1>3. num \in Int /\ den \in Nat \ {0}
  <2>1. Sizing!Greatest(p, 2 * atr) \in {p, 2 * atr} /\ Sizing!Greatest(p, 2 * atr) >= p
    BY <1>1, GreatestIsOne
  <2> QED BY <1>1, <1>2, <2>1
<1>4. size \in Int
  <2> HIDE DEF num, den
  <2> QED BY <1>3, RoundedIsClose
<1>5. Sizing!Quantity(p, atr) \in {0, size, Sizing!Greatest(1, size)}
  BY DEF Sizing!Quantity
<1> HIDE DEF size
<1>6. Sizing!Greatest(1, size) \in Int
  BY <1>4, GreatestIsOne
<1>7. ASSUME NEW risk \in Nat PROVE Sizing!RiskUnits(risk, p, atr) \in Int
  <2>1. Nav * risk * Sizing!Unit \in Int
    BY <1>1
  <2>2. Sizing!Rounded(Nav * risk * Sizing!Unit, StopOf(p, atr)) \in Int
    BY <1>1, <2>1, RoundedIsClose
  <2> QED BY <2>2 DEF Sizing!RiskUnits, Nav, StopOf
<1> QED BY <1>2, <1>4, <1>5, <1>6, <1>7

(* What is bought at all: something, within the budget, of a positive nav. *)
LEMMA PurchaseFits ==
  ASSUME NEW p \in Quote, NEW atr \in Atr, Nav \in Int, Sizing!BuyQuantity(p, atr) > 0
  PROVE  /\ Nav \in Nat \ {0} /\ Sizing!BuyQuantity(p, atr) \in Nat \ {0}
         /\ TradeRisk > 0 =>
              /\ Sizing!AvailableRisk > 0
              /\ Sizing!BuyQuantity(p, atr) <= Sizing!RiskUnits(Sizing!AvailableRisk, p, atr)
<1> DEFINE q == Sizing!Quantity(p, atr)
           a == Sizing!AvailableRisk
           u == Sizing!RiskUnits(a, p, atr)
           b == Sizing!BuyQuantity(p, atr)
<1>1. q \in Int /\ a \in Nat /\ u \in Int
  BY SizesAreInt, BudgetIsBounded
<1>2. b = Sizing!Capped(q, p, atr)
  BY DEF Sizing!BuyQuantity
<1>3. b = IF TradeRisk = 0 THEN q ELSE IF a = 0 THEN 0 ELSE Sizing!Least(q, u)
  BY <1>2 DEF Sizing!Capped
<1>4. q = 0 \/ Sizing!MaxNotional >= 1
  <2>1. Sizing!MaxNotional \in Int
    BY SizesAreInt
  <2> QED BY <2>1 DEF Sizing!Quantity
<1>5. b > 0
  OBVIOUS
<1> HIDE DEF q, a, u, b
<1>6. Sizing!Least(q, u) \in Int /\ Sizing!Least(q, u) <= q /\ Sizing!Least(q, u) <= u
  BY <1>1, LeastIsBoth
<1>7. b \in Nat \ {0} /\ q > 0 /\ (TradeRisk # 0 => a > 0 /\ b <= u)
  BY <1>1, <1>3, <1>5, <1>6
<1>8. Nav > 0
  <2>1. Nav \in Int /\ SizePct \in Nat /\ Leverage \in Nat
    BY SizingAssumption
  <2>2. (Nav * SizePct * Leverage) \div 100 >= 1
    BY <1>1, <1>4, <1>7 DEF Sizing!MaxNotional, Nav
  <2>3. Nav * SizePct * Leverage > 0
    BY <2>1, <2>2
  <2>4. Nav * (SizePct * Leverage) > 0 /\ SizePct * Leverage \in Nat
    BY <2>1, <2>3
  <2> DEFINE m == SizePct * Leverage
  <2>5. Nav * m > 0 /\ m \in Nat
    BY <2>4
  <2> HIDE DEF m
  <2> QED BY <2>1, <2>5
<1>9. TradeRisk > 0 => TradeRisk # 0
  BY SizingAssumption
<1> QED BY <1>7, <1>8, <1>9 DEF a, b, u

(* Powers of two count subsets, and so double.                             *)
LEMMA PowersDouble ==
  ASSUME NEW n \in Nat
  PROVE  2 ^ n \in Nat \ {0} /\ 2 ^ (n + 1) = 2 * 2 ^ n
<1> DEFINE S == 1 .. n
           T == 1 .. n + 1
           A == SUBSET S
           B == {U \in SUBSET T : n + 1 \in U}
           f == [U \in A |-> U \cup {n + 1}]
<1>1. /\ IsFiniteSet(S) /\ IsFiniteSet(T) /\ Cardinality(S) = n /\ Cardinality(T) = n + 1
  BY FS_Interval
<1>2. S = T \ {n + 1} /\ n + 1 \in T /\ n + 1 \notin S
  OBVIOUS
<1>3. /\ IsFiniteSet(A) /\ Cardinality(A) = 2 ^ n
      /\ IsFiniteSet(SUBSET T) /\ Cardinality(SUBSET T) = 2 ^ (n + 1)
  <2> HIDE DEF S, T
  <2> QED BY <1>1, FS_SUBSET
<1> HIDE DEF S, T
<1>4. f \in Surjection(A, B)
  <2>1. f \in [A -> B]
    BY <1>2
  <2>2. ASSUME NEW U \in B PROVE U \ {n + 1} \in A /\ f[U \ {n + 1}] = U
    BY <1>2
  <2> HIDE DEF f, A, B
  <2>3. \A U \in B : \E V \in A : f[V] = U
    BY <2>2
  <2> QED BY <2>1, <2>3 DEF Surjection
<1>5. f \in Injection(A, B)
  <2>1. f \in [A -> B]
    BY <1>2
  <2>2. ASSUME NEW U \in A, NEW V \in A, f[U] = f[V] PROVE U = V
    <3>1. n + 1 \notin U /\ n + 1 \notin V
      BY <1>2
    <3>2. U \cup {n + 1} = V \cup {n + 1}
      BY <2>2
    <3> QED BY <3>1, <3>2
  <2> HIDE DEF f, A, B
  <2> QED BY <2>1, <2>2 DEF Injection, IsInjective
<1>6. A \cup B = SUBSET T /\ A \cap B = {}
  BY <1>2
<1> HIDE DEF f, A, B
<1>7. IsFiniteSet(B) /\ Cardinality(B) = Cardinality(A)
  BY <1>3, <1>4, <1>5, FS_Surjection
<1>8. Cardinality(SUBSET T) = Cardinality(A) + Cardinality(B) - Cardinality({})
  <2>1. Cardinality(A \cup B) = Cardinality(A) + Cardinality(B) - Cardinality(A \cap B)
    BY <1>3, <1>7, FS_Union
  <2> QED BY <1>6, <2>1, Zenon
<1>9. Cardinality({}) = 0 /\ Cardinality(A) \in Nat
  BY <1>3, FS_EmptySet, FS_CardinalityType
<1>10. {} \in A
  BY DEF A
<1>11. Cardinality(A) # 0
  BY <1>3, <1>10, FS_EmptySet
<1>12. Cardinality(SUBSET T) = 2 * Cardinality(A)
  BY <1>7, <1>8, <1>9
<1>13. Cardinality(A) \in Nat \ {0}
  BY <1>9, <1>11
<1> QED BY <1>3, <1>12, <1>13, Zenon

(* The sums of Sizing are sums of a weight.                                *)
LEMMA TotalIsSum == \A f : Sizing!Total(f) = Sum(f, Symbols)
  BY DEF Sizing!Total, Sizing!MapThenSumSet, Sizing!MapThenFoldSet,
         Sum, SumOf, SumsUp, FirstOf, Rest

UnseenUp(S, h) ==
  h = [s \in SUBSET S |-> IF s = {} THEN 0 ELSE Tally(v14, Sizing!Book, FirstOf(s)) + h[Rest(s)]]
UnseenOf(S) == CHOOSE h : UnseenUp(S, h)
Entered == Positive(v14, Symbols)

LEMMA UnseenIsChosen == Sizing!Unseen = UnseenOf(Entered)[Entered]
  BY DEF Sizing!Unseen, Sizing!MapThenSumSet, Sizing!MapThenFoldSet,
         UnseenOf, UnseenUp, FirstOf, Rest, Entered, Positive, Tally

LEMMA UnseenIsTallied == Sizing!Unseen = Tallied(v14, Sizing!Book, Entered)
<1> DEFINE S == Entered
           B == Sizing!Book
           w == [x \in S |-> Tally(v14, B, x)]
<1>0. IsFiniteSet(S)
  BY SizingAssumption, FS_Subset DEF Entered, Positive
<1>1. ASSUME NEW h PROVE UnseenUp(S, h) <=> SumsUp(w, S, h)
  <2>1. ASSUME NEW s \in SUBSET S, s # {} PROVE w[FirstOf(s)] = Tally(v14, B, FirstOf(s))
    BY <2>1, FirstAndRest
  <2> HIDE DEF w, S, B
  <2>2. [s \in SUBSET S |-> IF s = {} THEN 0 ELSE Tally(v14, B, FirstOf(s)) + h[Rest(s)]]
          = [s \in SUBSET S |-> IF s = {} THEN 0 ELSE w[FirstOf(s)] + h[Rest(s)]]
    BY <2>1
  <2> QED BY <2>2 DEF UnseenUp, SumsUp, B
<1>5. Tallied(v14, B, S) = Sum(w, S)
  BY DEF Tallied
<1> HIDE DEF w, S
<1>2. SumsUp(w, S, SumOf(w, S))
  BY <1>0, SumExists
<1>3. UnseenUp(S, UnseenOf(S))
  BY <1>1, <1>2 DEF UnseenOf
<1>4. SumsUp(w, S, UnseenOf(S))
  BY <1>1, <1>3
<1>6. UnseenOf(S)[S] = SumOf(w, S)[S]
  BY <1>0, <1>2, <1>4, SumIsUnique DEF Alike
<1> QED BY <1>5, <1>6, UnseenIsChosen DEF Sum, S

-----------------------------------------------------------------------------
(* One step of a scan at a time.  What has to be shown of each of them is  *)
(* the bound on the sum, the other parts are about one symbol.             *)
HeatBound == TradeRisk > 0 /\ HeatCap > 0 => Sum(v15, Symbols) <= HeatCap + v17 * TradeRisk

Parts == /\ Sizing!Figures /\ Sizing!OneTradeEach /\ Sizing!SimulatedIsSeen
         /\ Sizing!AddsShrink /\ HeatBound

LEMMA PartsSuffice == Sizing!HeatIsSpent <=> Parts
<1>1. HeatBound <=> (TradeRisk > 0 /\ HeatCap > 0 => Sizing!Total(v15) <= HeatCap + v17 * TradeRisk)
  BY TotalIsSum DEF HeatBound
<1>2. ASSUME Sizing!Figures, Sizing!AddsShrink PROVE \A s \in Symbols : v16[s] <= TradeRisk
  <2> SUFFICES ASSUME NEW s \in Symbols PROVE v16[s] <= TradeRisk
    OBVIOUS
  <2>1. v5[s] \in Nat /\ v16[s] \in Nat /\ TradeRisk \in Nat
    BY <1>2, SizingAssumption DEF Sizing!Figures
  <2> DEFINE k == 2 ^ v5[s]
  <2>2. k \in Nat \ {0}
    BY <2>1, PowersDouble
  <2>3. v16[s] + TradeRisk \div k <= TradeRisk
    BY <1>2 DEF Sizing!AddsShrink
  <2> HIDE DEF k
  <2>4. TradeRisk \div k \in Nat
    BY <2>1, <2>2
  <2> QED BY <2>1, <2>3, <2>4
<1> QED BY <1>1, <1>2 DEF Sizing!HeatIsSpent, Sizing!OvershootBounded, Sizing!SimulatedIsSeen, Parts

LEMMA PartsSufficeNext == Parts' => Sizing!HeatIsSpent'
  BY PartsSuffice, PTL

LEMMA HeatIsSummed == Sizing!Figures => Sums(v15, Symbols) /\ Sums(v14, Symbols)
  BY SizingAssumption DEF Sizing!Figures, Sums

LEMMA HeatFalls ==
  ASSUME HeatBound, Sums(v15, Symbols), Sums(v15', Symbols), v17 \in Nat, v17' = v17,
         \A s \in Symbols : v15'[s] <= v15[s]
  PROVE  HeatBound'
<1>1. \A s \in Symbols : v15'[s] <= v15[s] * 1
  BY DEF Sums
<1> DEFINE a == Sum(v15, Symbols)
           b == Sum(v15', Symbols)
<1>2. a \in Int /\ b \in Int
  BY SumIsInt
<1>3. b <= a * 1
  BY <1>1, SumWithin
<1>4. HeatCap \in Nat /\ TradeRisk \in Nat
  BY SizingAssumption
<1> HIDE DEF a, b
<1>5. b <= a
  BY <1>2, <1>3
<1>6. TradeRisk > 0 /\ HeatCap > 0 => a <= HeatCap + v17 * TradeRisk
  BY DEF HeatBound, a
<1>7. TradeRisk > 0 /\ HeatCap > 0 => b <= HeatCap + v17 * TradeRisk
  BY <1>2, <1>4, <1>5, <1>6
<1> QED BY <1>7 DEF HeatBound, b

\* What an add may still bring is never negative and at most a trade's risk.
LEMMA ShrunkIsWithin ==
  ASSUME NEW n \in Nat
  PROVE  TradeRisk \div 2 ^ n \in Nat /\ TradeRisk \div 2 ^ n <= TradeRisk
<1> DEFINE k == 2 ^ n
<1>1. k \in Nat \ {0} /\ TradeRisk \in Nat
  BY PowersDouble, SizingAssumption
<1> HIDE DEF k
<1>2. TradeRisk \div k \in Nat /\ TradeRisk \div k <= TradeRisk
  BY <1>1
<1> QED BY <1>2 DEF k

LEMMA SizingInit ==
  ASSUME Sizing!Init
  PROVE  Sizing!HeatIsSpent
<1>1. /\ v1 \in Setups /\ v10 = Cash /\ v17 = 0 /\ v3.units = Sizing!Zero /\ v3.value = Sizing!Zero
      /\ v3.funds = Cash /\ v3.nav = Cash /\ DOMAIN v3 = {"units", "cost", "value", "funds", "nav"}
      /\ v5 = Sizing!Zero /\ v8 = Sizing!Zero /\ v11 = Sizing!Zero
      /\ v14 = Sizing!Zero /\ v15 = Sizing!Zero /\ v16 = Sizing!Zero
  BY DEF Sizing!Init
<1>2. v2 \in [Symbols -> Quote]
  BY DEF Sizing!Init
<1>3. Sizing!Zero \in [Symbols -> Nat] /\ \A s \in Symbols : Sizing!Zero[s] = 0
  BY DEF Sizing!Zero
<1>4. Sizing!Figures
  BY <1>1, <1>2, <1>3, SizingAssumption DEF Sizing!Figures
<1>5. Sizing!OneTradeEach
  BY <1>1, <1>3, SizingAssumption DEF Sizing!OneTradeEach
<1>6. Sizing!SimulatedIsSeen
  BY <1>1, <1>3 DEF Sizing!SimulatedIsSeen
<1>7. Sizing!AddsShrink
  <2> SUFFICES ASSUME NEW s \in Symbols
               PROVE  v16[s] + TradeRisk \div 2 ^ v5[s] <= TradeRisk /\ ~(v16[s] > 0)
    BY DEF Sizing!AddsShrink
  <2>1. v16[s] = 0 /\ v5[s] = 0
    BY <1>1, <1>3
  <2> DEFINE d == TradeRisk \div 2 ^ v5[s]
  <2>2. d \in Nat /\ d <= TradeRisk
    BY <2>1, ShrunkIsWithin
  <2> HIDE DEF d
  <2>3. v16[s] + d <= TradeRisk
    BY <2>1, <2>2, SizingAssumption
  <2> QED BY <2>1, <2>3 DEF d
<1>8. HeatBound
  <2>1. Sum(v15, Symbols) = 0
    BY <1>1, <1>3, SizingAssumption, SumOfZeros
  <2> QED BY <1>1, <2>1, SizingAssumption DEF HeatBound
<1> QED BY <1>4, <1>5, <1>6, <1>7, <1>8, PartsSuffice DEF Parts

LEMMA QuietParts ==
  ASSUME Parts, UNCHANGED <<v1, v3, v5, v8, v10, v11, v14, v15, v16, v17>>,
         v2' \in [Symbols -> Quote]
  PROVE  Parts'
<1>1. Sizing!Figures'
  BY DEF Parts, Sizing!Figures
<1>2. Sizing!OneTradeEach' /\ Sizing!SimulatedIsSeen' /\ Sizing!AddsShrink' /\ HeatBound'
  BY DEF Parts, Sizing!OneTradeEach, Sizing!SimulatedIsSeen, Sizing!isSimulated,
         Sizing!AddsShrink, Sizing!Book, HeatBound
<1> QED BY <1>1, <1>2 DEF Parts

LEMMA PriceIsQuote ==
  ASSUME Sizing!Figures, Sizing!PriceMoves
  PROVE  v2' \in [Symbols -> Quote]
  BY DEF Sizing!Figures, Sizing!PriceMoves

(* A position ends.                                                        *)
LEMMA GoneParts ==
  ASSUME Parts, NEW s \in Symbols, Sizing!Gone(s), UNCHANGED <<v1, v2, v5, v11, v17>>
  PROVE  Parts'
<1>1. /\ v1 \in Setups /\ v2 \in [Symbols -> Quote] /\ v10 \in Int /\ v17 \in Nat
      /\ DOMAIN v3 = {"units", "cost", "value", "funds", "nav"}
      /\ v3.units \in [Symbols -> Int] /\ v3.value \in [Symbols -> Int]
      /\ v3.funds \in Int /\ v3.nav \in Int /\ v8 \in [Symbols -> Int] /\ v11 \in [Symbols -> Int]
      /\ v14 \in [Symbols -> Nat] /\ v15 \in [Symbols -> Nat] /\ v16 \in [Symbols -> Nat]
      /\ v5 \in [Symbols -> Nat]
  BY DEF Parts, Sizing!Figures
<1>2. /\ v8' = [v8 EXCEPT ![s] = 0] /\ v14' = [v14 EXCEPT ![s] = 0]
      /\ v15' = [v15 EXCEPT ![s] = 0] /\ v16' = [v16 EXCEPT ![s] = 0]
      /\ v10' = v10 + (v8[s] * v2[s]) \div Sizing!Unit
      /\ v3' = Sizing!Removed(s)
  BY DEF Sizing!Gone
<1>3. v2[s] \in Int /\ Sizing!Unit \in Nat \ {0}
  <2>1. v2[s] \in Quote
    BY <1>1
  <2> QED BY <2>1, QuotesAreInt, UnitIsPositive
<1>4. v10' \in Int
  <2> DEFINE u == Sizing!Unit
             m == v8[s] * v2[s]
  <2>1. m \in Int /\ u \in Nat \ {0}
    BY <1>1, <1>3
  <2> HIDE DEF m, u
  <2>2. m \div u \in Int
    BY <2>1
  <2> QED BY <1>1, <1>2, <2>2 DEF m, u
<1>5. /\ DOMAIN v3' = {"units", "cost", "value", "funds", "nav"}
      /\ v3'.units \in [Symbols -> Int] /\ v3'.value \in [Symbols -> Int]
      /\ v3'.funds \in Int /\ v3'.nav \in Int
      /\ \A t \in Symbols \ {s} : v3'.units[t] = v3.units[t]
      /\ Sizing!isSimulated => v3'.units[s] = 0
  <2>1. CASE ~Sizing!isSimulated
    BY <1>1, <1>2, <2>1 DEF Sizing!Removed
  <2>2. CASE Sizing!isSimulated
    <3>1. v3' = [v3 EXCEPT !.units[s] = 0, !.cost[s] = 0, !.value[s] = 0,
                           !.funds = @ + v3.units[s] * v2[s]]
      BY <1>2, <2>2 DEF Sizing!Removed
    <3>2. v3.units[s] * v2[s] \in Int
      BY <1>1, <1>3
    <3>3. /\ DOMAIN v3' = DOMAIN v3 /\ v3'.units = [v3.units EXCEPT ![s] = 0]
          /\ v3'.value = [v3.value EXCEPT ![s] = 0]
          /\ v3'.funds = v3.funds + v3.units[s] * v2[s] /\ v3'.nav = v3.nav
      BY <1>1, <3>1
    <3> QED BY <1>1, <3>2, <3>3
  <2> QED BY <2>1, <2>2
<1>6. Sizing!Figures'
  BY <1>1, <1>2, <1>4, <1>5 DEF Sizing!Figures
<1>7. Sizing!OneTradeEach'
  BY <1>1, <1>2, SizingAssumption DEF Parts, Sizing!OneTradeEach
<1>8. Sizing!SimulatedIsSeen'
  BY <1>1, <1>2, <1>5 DEF Parts, Sizing!SimulatedIsSeen, Sizing!isSimulated, Sizing!Book
<1>9. Sizing!AddsShrink'
  <2> SUFFICES ASSUME NEW t \in Symbols
               PROVE  /\ v16'[t] + TradeRisk \div 2 ^ v5[t] <= TradeRisk
                      /\ v16'[t] > 0 => v8'[t] > 0 /\ v3'.units[t] > 0
    BY DEF Sizing!AddsShrink, Sizing!Book
  <2>1. CASE t # s
    BY <1>1, <1>2, <1>5, <2>1 DEF Parts, Sizing!AddsShrink, Sizing!Book
  <2>2. CASE t = s
    <3> DEFINE d == TradeRisk \div 2 ^ v5[t]
    <3>1. d \in Nat /\ d <= TradeRisk /\ v16'[t] = 0
      BY <1>1, <1>2, <2>2, ShrunkIsWithin
    <3> HIDE DEF d
    <3>2. v16'[t] + d <= TradeRisk
      BY <3>1, SizingAssumption
    <3> QED BY <3>1, <3>2 DEF d
  <2> QED BY <2>1, <2>2
<1>10. HeatBound'
  <2>1. Sums(v15, Symbols) /\ Sums(v15', Symbols)
    BY <1>1, <1>2, SizingAssumption DEF Sums
  <2>2. \A t \in Symbols : v15'[t] <= v15[t]
    BY <1>1, <1>2
  <2> QED BY <1>1, <2>1, <2>2, HeatFalls DEF Parts
<1> QED BY <1>6, <1>7, <1>8, <1>9, <1>10 DEF Parts

LEMMA SellParts ==
  ASSUME Parts, NEW s \in Symbols, Sizing!Sell(s)
  PROVE  Parts'
<1>1. CASE v8[s] > 0 /\ v11[s] = 0
  BY <1>1, GoneParts DEF Sizing!Sell
<1>2. CASE ~(v8[s] > 0 /\ v11[s] = 0)
  BY <1>2, QuietParts DEF Sizing!Sell, Parts, Sizing!Figures
<1> QED BY <1>1, <1>2

LEMMA StopExitParts ==
  ASSUME Parts, NEW s \in Symbols, Sizing!StopExit(s)
  PROVE  Parts'
  BY GoneParts DEF Sizing!StopExit

LEMMA IdleParts ==
  ASSUME Parts, NEW s \in Symbols,
         Sizing!SellRefused(s) \/ Sizing!Hold(s) \/ Sizing!CooldownEnds(s)
  PROVE  Parts'
<1>1. v2 \in [Symbols -> Quote]
  BY DEF Parts, Sizing!Figures
<1>2. UNCHANGED <<v1, v2, v3, v5, v8, v10, v11, v14, v15, v16, v17>>
  BY DEF Sizing!SellRefused, Sizing!Hold, Sizing!CooldownEnds
<1> QED BY <1>1, <1>2, QuietParts

LEMMA PriceParts ==
  ASSUME Parts, Sizing!PriceMoves
  PROVE  Parts'
<1>1. UNCHANGED <<v1, v3, v5, v8, v10, v11, v14, v15, v16, v17>>
  BY DEF Sizing!PriceMoves
<1> QED BY <1>1, PriceIsQuote, QuietParts DEF Parts

(* The next scan sees what there is.                                       *)
LEMMA SyncParts ==
  ASSUME Parts, Sizing!Sync
  PROVE  Parts'
<1>1. /\ v1 \in Setups /\ v2 \in [Symbols -> Quote] /\ v10 \in Int
      /\ DOMAIN v3 = {"units", "cost", "value", "funds", "nav"}
      /\ v3.units \in [Symbols -> Int] /\ v3.value \in [Symbols -> Int]
      /\ v3.funds \in Int /\ v8 \in [Symbols -> Int] /\ v11 \in [Symbols -> Int]
      /\ v14 \in [Symbols -> Nat] /\ v15 \in [Symbols -> Nat] /\ v16 \in [Symbols -> Nat]
      /\ v5 \in [Symbols -> Nat] /\ v17 \in Nat
  BY DEF Parts, Sizing!Figures
<1> DEFINE synced == [s \in Symbols |-> (v8[s] * v2[s]) \div Sizing!Unit]
           value == IF Sizing!isSimulated THEN v3.value ELSE synced
           funds == IF Sizing!isSimulated THEN v3.funds ELSE v10
<1>2. /\ UNCHANGED <<v1, v2, v5, v8, v10, v11, v14, v15, v16, v17>>
      /\ v3' = [v3 EXCEPT !.units = IF Sizing!isSimulated THEN @ ELSE v8,
                          !.cost = IF Sizing!isSimulated THEN @ ELSE v9,
                          !.value = value, !.funds = funds,
                          !.nav = funds + Sizing!Total(value)]
  BY DEF Sizing!Sync
<1>3. value \in [Symbols -> Int]
  <2>1. ASSUME NEW s \in Symbols PROVE (v8[s] * v2[s]) \div Sizing!Unit \in Int
    <3> DEFINE u == Sizing!Unit
               m == v8[s] * v2[s]
    <3>1. v2[s] \in Quote /\ v8[s] \in Int
      BY <1>1
    <3>3. m \in Int /\ u \in Nat \ {0}
      BY <3>1, QuotesAreInt, UnitIsPositive
    <3> HIDE DEF m, u
    <3>4. m \div u \in Int
      BY <3>3
    <3> QED BY <3>4 DEF m, u
  <2>2. synced \in [Symbols -> Int]
    BY <2>1
  <2> HIDE DEF synced
  <2> QED BY <1>1, <2>2
<1>4. funds \in Int
  BY <1>1
<1> HIDE DEF value, funds
<1>5. Sizing!Total(value) \in Int
  <2>1. Sums(value, Symbols)
    BY <1>3, SizingAssumption DEF Sums
  <2> QED BY <2>1, SumIsInt, TotalIsSum
<1>6. /\ DOMAIN v3' = DOMAIN v3 /\ v3'.value = value /\ v3'.funds = funds
      /\ v3'.nav = funds + Sizing!Total(value)
      /\ v3'.units = IF Sizing!isSimulated THEN v3.units ELSE v8
  BY <1>1, <1>2
<1>7. Sizing!Figures'
  BY <1>1, <1>2, <1>3, <1>4, <1>5, <1>6 DEF Sizing!Figures
<1>8. Sizing!OneTradeEach' /\ HeatBound'
  BY <1>2 DEF Parts, Sizing!OneTradeEach, HeatBound
<1>9. Sizing!SimulatedIsSeen'
  BY <1>2, <1>6 DEF Parts, Sizing!SimulatedIsSeen, Sizing!isSimulated, Sizing!Book
<1>10. Sizing!AddsShrink'
  BY <1>2, <1>6 DEF Parts, Sizing!AddsShrink, Sizing!Book
<1> QED BY <1>7, <1>8, <1>9, <1>10 DEF Parts

(* An order fills, or lapses.                                              *)
LEMMA BuyFillsParts ==
  ASSUME Parts, NEW s \in Symbols, Sizing!BuyFills(s)
  PROVE  Parts'
<1>1. /\ v2 \in [Symbols -> Quote] /\ v10 \in Int
      /\ v8 \in [Symbols -> Int] /\ v11 \in [Symbols -> Int]
  BY DEF Parts, Sizing!Figures
<1>2. /\ v11[s] > 0 /\ v8' = [v8 EXCEPT ![s] = @ + v11[s]] /\ v11' = [v11 EXCEPT ![s] = 0]
      /\ v10' = v10 - (v11[s] * v2[s]) \div Sizing!Unit
      /\ UNCHANGED <<v1, v2, v3, v5, v14, v15, v16, v17>>
  BY DEF Sizing!BuyFills
<1>3. v10' \in Int
  <2> DEFINE u == Sizing!Unit
             m == v11[s] * v2[s]
  <2>1. v2[s] \in Quote /\ v11[s] \in Int
    BY <1>1
  <2>3. m \in Int /\ u \in Nat \ {0}
    BY <2>1, QuotesAreInt, UnitIsPositive
  <2> HIDE DEF m, u
  <2>4. m \div u \in Int
    BY <2>3
  <2> QED BY <1>1, <1>2, <2>4 DEF m, u
<1>4. v8' \in [Symbols -> Int] /\ v11' \in [Symbols -> Int] /\ \A t \in Symbols : v8'[t] >= v8[t]
  BY <1>1, <1>2
<1>5. Sizing!Figures'
  BY <1>2, <1>3, <1>4 DEF Parts, Sizing!Figures
<1>6. Sizing!OneTradeEach' /\ HeatBound'
  BY <1>2 DEF Parts, Sizing!OneTradeEach, HeatBound
<1>7. Sizing!SimulatedIsSeen'
  BY <1>1, <1>2 DEF Parts, Sizing!SimulatedIsSeen, Sizing!isSimulated, Sizing!Book
<1>8. Sizing!AddsShrink'
  <2>1. \A t \in Symbols : v8[t] > 0 => v8'[t] > 0
    BY <1>1, <1>4
  <2> QED BY <1>2, <2>1 DEF Parts, Sizing!AddsShrink, Sizing!Book
<1> QED BY <1>5, <1>6, <1>7, <1>8 DEF Parts

LEMMA BuyLapsesParts ==
  ASSUME Parts, NEW s \in Symbols, Sizing!BuyLapses(s)
  PROVE  Parts'
<1>1. /\ v11 \in [Symbols -> Int] /\ v14 \in [Symbols -> Nat] /\ v15 \in [Symbols -> Nat] /\ v17 \in Nat
  BY DEF Parts, Sizing!Figures
<1>2. /\ v11[s] > 0 /\ v11' = [v11 EXCEPT ![s] = 0]
      /\ UNCHANGED <<v1, v2, v3, v5, v8, v10, v16, v17>>
      /\ \/ UNCHANGED <<v14, v15>>
         \/ v14' = [v14 EXCEPT ![s] = 0] /\ v15' = [v15 EXCEPT ![s] = 0]
  BY DEF Sizing!BuyLapses
<1>3. /\ v11' \in [Symbols -> Int] /\ v14' \in [Symbols -> Nat] /\ v15' \in [Symbols -> Nat]
      /\ \A t \in Symbols : v15'[t] <= v15[t]
  BY <1>1, <1>2
<1>4. Sizing!Figures'
  BY <1>2, <1>3 DEF Parts, Sizing!Figures
<1>5. Sizing!OneTradeEach'
  BY <1>1, <1>2, SizingAssumption DEF Parts, Sizing!OneTradeEach
<1>6. ~Sizing!isSimulated
  BY <1>1, <1>2 DEF Parts, Sizing!SimulatedIsSeen
<1>7. Sizing!SimulatedIsSeen' /\ Sizing!AddsShrink'
  BY <1>2, <1>6 DEF Parts, Sizing!SimulatedIsSeen, Sizing!isSimulated, Sizing!AddsShrink, Sizing!Book
<1>8. HeatBound'
  <2>1. Sums(v15, Symbols) /\ Sums(v15', Symbols)
    BY <1>1, <1>3, SizingAssumption DEF Sums
  <2> QED BY <1>1, <1>2, <1>3, <2>1, HeatFalls DEF Parts
<1> QED BY <1>4, <1>5, <1>7, <1>8 DEF Parts

(* An accepted order leaves figures of the same kind: in the book and paid *)
(* for where it is simulated, with the broker where it is not.             *)
LEMMA OrderedFigures ==
  ASSUME Sizing!Figures, NEW s \in Symbols, NEW q \in Nat \ {0}, Sizing!Ordered(s, q),
         UNCHANGED <<v1, v2>>
  PROVE  /\ DOMAIN v3' = {"units", "cost", "value", "funds", "nav"}
         /\ v3'.units \in [Symbols -> Int] /\ v3'.value \in [Symbols -> Int]
         /\ v3'.funds \in Int /\ v3'.nav \in Int /\ v10' \in Int
         /\ v8' \in [Symbols -> Int] /\ v11' \in [Symbols -> Int]
         /\ \A t \in Symbols : v8'[t] >= v8[t] /\ v3'.units[t] >= v3.units[t]
         /\ Sizing!isSimulated => v11' = v11 /\ v3'.units = [v3.units EXCEPT ![s] = @ + q]
<1>1. /\ v2[s] \in Quote /\ v10 \in Int
      /\ DOMAIN v3 = {"units", "cost", "value", "funds", "nav"}
      /\ v3.units \in [Symbols -> Int] /\ v3.value \in [Symbols -> Int]
      /\ v3.funds \in Int /\ v3.nav \in Int /\ v8 \in [Symbols -> Int] /\ v11 \in [Symbols -> Int]
  BY DEF Sizing!Figures
<1>2. v2[s] \in Int /\ Sizing!Unit \in Nat \ {0}
  BY <1>1, QuotesAreInt, UnitIsPositive
<1>3. CASE ~Sizing!isSimulated
  <2>1. v3' = v3 /\ v11' = [v11 EXCEPT ![s] = @ + q] /\ UNCHANGED <<v8, v10>>
    BY <1>3 DEF Sizing!Ordered, Sizing!Entered
  <2>2. v11' \in [Symbols -> Int]
    BY <1>1, <2>1
  <2> QED BY <1>1, <1>3, <2>1, <2>2
<1>4. CASE Sizing!isSimulated
  <2> DEFINE units == v3.units[s] + q
             m == q * v2[s]
             u == Sizing!Unit
             c == (v3.units[s] * v3.cost[s] + m) \div units
  <2>1. /\ v3' = [v3 EXCEPT !.units[s] = units, !.cost[s] = c, !.value[s] = units * v2[s],
                            !.funds = @ - m]
        /\ v8' = [v8 EXCEPT ![s] = @ + q] /\ v10' = v10 - m \div u /\ v11' = v11
    BY <1>1, <1>4 DEF Sizing!Ordered, Sizing!Entered
  <2>2. units \in Int /\ units >= v3.units[s] /\ m \in Int /\ u \in Nat \ {0} /\ units * v2[s] \in Int
    BY <1>1, <1>2
  <2> HIDE DEF c, m, u
  <2>3. /\ DOMAIN v3' = DOMAIN v3 /\ v3'.units = [v3.units EXCEPT ![s] = units]
        /\ v3'.value = [v3.value EXCEPT ![s] = units * v2[s]]
        /\ v3'.funds = v3.funds - m /\ v3'.nav = v3.nav
    BY <1>1, <2>1
  <2>4. m \div u \in Int
    BY <2>2
  <2>5. v10' \in Int /\ v8' \in [Symbols -> Int] /\ \A t \in Symbols : v8'[t] >= v8[t]
    BY <1>1, <2>1, <2>4
  <2>6. /\ v3'.units \in [Symbols -> Int] /\ v3'.value \in [Symbols -> Int]
        /\ \A t \in Symbols : v3'.units[t] >= v3.units[t]
    BY <1>1, <2>2, <2>3
  <2> QED BY <1>1, <2>1, <2>2, <2>3, <2>5, <2>6
<1> QED BY <1>3, <1>4

LEMMA ProductGrows ==
  ASSUME NEW x \in Int, NEW y \in Int, x <= y, NEW k \in Nat
  PROVE  x * k <= y * k
  OBVIOUS

(* A purchase: its own budget leaves room for the positions of the book,   *)
(* the other purchases are those it was decided without seeing.            *)
LEMMA BuyParts ==
  ASSUME Parts, NEW s \in Symbols, Sizing!Buy(s)
  PROVE  Parts'
<1> DEFINE n == Cardinality(Sizing!Book)
           a == Sizing!AvailableRisk
           unseenNow == Sizing!Unseen
<1>1. PICK atr \in Atr :
        /\ s \notin Sizing!Book
        /\ Sizing!BuyQuantity(v2[s], atr) > 0
        /\ Sizing!Ordered(s, Sizing!BuyQuantity(v2[s], atr))
        /\ v5' = [v5 EXCEPT ![s] = 0]
        /\ v15' = [v15 EXCEPT ![s] = @ + Sizing!RiskOf(Sizing!BuyQuantity(v2[s], atr), v2[s], atr)]
        /\ v14' = [v14 EXCEPT ![s] = @ + 1]
        /\ v17' = Sizing!Greatest(v17, unseenNow)
        /\ UNCHANGED <<v1, v2, v16>>
  BY DEF Sizing!Buy, Sizing!MayBuy
<1> DEFINE q == Sizing!BuyQuantity(v2[s], atr)
           R == Sizing!RiskOf(q, v2[s], atr)
<1>2. /\ v1 \in Setups /\ v2 \in [Symbols -> Quote] /\ v2[s] \in Quote /\ v3.nav \in Int
      /\ v3.units \in [Symbols -> Int]
      /\ v5 \in [Symbols -> Nat] /\ v14 \in [Symbols -> Nat]
      /\ v15 \in [Symbols -> Nat] /\ v16 \in [Symbols -> Nat] /\ v17 \in Nat
  BY DEF Parts, Sizing!Figures
<1>3. /\ Nav \in Nat \ {0} /\ q \in Nat \ {0}
      /\ TradeRisk > 0 => a > 0 /\ q <= Sizing!RiskUnits(a, v2[s], atr)
  BY <1>1, <1>2, PurchaseFits DEF Nav
<1>4. a \in Nat /\ a <= TradeRisk /\ TradeRisk \in Nat /\ HeatCap \in Nat
  BY BudgetIsBounded, SizingAssumption
<1>5. R \in Nat /\ (TradeRisk > 0 => R <= a)
  <2> HIDE DEF q, a
  <2>1. R \in Nat
    BY <1>2, <1>3, RiskIsNatural
  <2>2. ASSUME TradeRisk > 0 PROVE R <= a
    BY <1>2, <1>3, <1>4, <2>2, RiskFits
  <2> QED BY <2>1, <2>2
<1>6. unseenNow \in Int /\ Sum(v14, Symbols) <= unseenNow + n
  <2>1. Sizing!Book \in SUBSET Symbols /\ IsFiniteSet(Symbols)
    BY BookIsFinite, SizingAssumption
  <2>2. unseenNow = Tallied(v14, Sizing!Book, Positive(v14, Symbols))
    BY UnseenIsTallied DEF Entered
  <2> DEFINE P == Positive(v14, Symbols)
             w == [x \in P |-> Tally(v14, Sizing!Book, x)]
  <2>3. IsFiniteSet(P) /\ \A x \in P : w[x] \in Int
    BY <1>2, <2>1, FS_Subset DEF Positive, Tally
  <2> HIDE DEF w, P
  <2>4. Sum(w, P) \in Int
    BY <2>3, SumIsInt DEF Sums
  <2>5. unseenNow \in Int
    BY <2>2, <2>4 DEF Tallied, w, P
  <2>6. Sum(v14, Symbols) <= Tallied(v14, Sizing!Book, Positive(v14, Symbols)) + Cardinality(Sizing!Book)
    BY <1>2, <2>1, TallyFallsShort
  <2> QED BY <2>2, <2>5, <2>6
<1>7. v17' \in Nat /\ v17' >= v17 /\ v17' >= unseenNow /\ v17' \in {v17, unseenNow}
  BY <1>1, <1>2, <1>6, GreatestIsOne
<1> HIDE DEF q, R, a, n, unseenNow
<1>8. v15' = [v15 EXCEPT ![s] = @ + R]
  BY <1>1 DEF q, R
<1>9. /\ v5' \in [Symbols -> Nat] /\ v14' \in [Symbols -> Nat] /\ v15' \in [Symbols -> Nat]
  BY <1>1, <1>2, <1>5, <1>8
<1>10. Sizing!Ordered(s, q)
  BY <1>1 DEF q
<1>11. /\ DOMAIN v3' = {"units", "cost", "value", "funds", "nav"}
       /\ v3'.units \in [Symbols -> Int] /\ v3'.value \in [Symbols -> Int]
       /\ v3'.funds \in Int /\ v3'.nav \in Int /\ v10' \in Int
       /\ v8' \in [Symbols -> Int] /\ v11' \in [Symbols -> Int]
       /\ \A t \in Symbols : v8'[t] >= v8[t] /\ v3'.units[t] >= v3.units[t]
       /\ Sizing!isSimulated => v11' = v11 /\ v3'.units = [v3.units EXCEPT ![s] = @ + q]
  BY <1>1, <1>3, <1>10, OrderedFigures DEF Parts
<1>12. Sizing!Figures'
  BY <1>1, <1>2, <1>7, <1>9, <1>11 DEF Sizing!Figures
<1>13. Sizing!OneTradeEach'
  <2> SUFFICES ASSUME TradeRisk > 0, NEW t \in Symbols PROVE v15'[t] <= v14'[t] * TradeRisk
    BY DEF Sizing!OneTradeEach
  <2>1. v15[t] <= v14[t] * TradeRisk /\ v15[t] \in Nat /\ v14[t] \in Nat
    BY <1>2 DEF Parts, Sizing!OneTradeEach
  <2>2. CASE t # s
    BY <1>1, <1>2, <1>8, <2>1, <2>2
  <2>3. CASE t = s
    <3>1. v15'[t] = v15[t] + R /\ v14'[t] = v14[t] + 1
      BY <1>1, <1>2, <1>8, <2>3
    <3>2. (v14[t] + 1) * TradeRisk = v14[t] * TradeRisk + TradeRisk
      BY <1>4, <2>1
    <3>3. R <= TradeRisk
      BY <1>4, <1>5
    <3> DEFINE m == v14[t] * TradeRisk
    <3>4. m \in Int
      BY <1>4, <2>1
    <3> HIDE DEF m
    <3>5. v15[t] + R <= m + TradeRisk
      BY <1>4, <1>5, <2>1, <3>3, <3>4 DEF m
    <3> QED BY <3>1, <3>2, <3>5 DEF m
  <2> QED BY <2>2, <2>3
<1>14. Sizing!AddsShrink'
  <2> SUFFICES ASSUME NEW t \in Symbols
               PROVE  /\ v16[t] + TradeRisk \div 2 ^ v5'[t] <= TradeRisk
                      /\ v16[t] > 0 => v8'[t] > 0 /\ v3'.units[t] > 0
    BY <1>1 DEF Sizing!AddsShrink, Sizing!Book
  <2>1. /\ v16[t] + TradeRisk \div 2 ^ v5[t] <= TradeRisk
        /\ v16[t] > 0 => v8[t] > 0 /\ v3.units[t] > 0
    BY DEF Parts, Sizing!AddsShrink, Sizing!Book
  <2>2. v16[t] > 0 => v8'[t] > 0 /\ v3'.units[t] > 0
    <3>1. DOMAIN v3 = {"units", "cost", "value", "funds", "nav"} /\ v8 \in [Symbols -> Int]
      BY DEF Parts, Sizing!Figures
    <3> QED BY <1>2, <1>11, <2>1, <3>1
  <2>3. CASE t # s
    <3>1. v5'[t] = v5[t]
      BY <1>1, <1>2, <2>3
    <3> QED BY <2>1, <2>2, <3>1
  <2>4. CASE t = s
    <3>1. v5'[t] = 0 /\ v16[t] = 0
      BY <1>1, <1>2, <2>1, <2>4 DEF Sizing!Book
    <3> DEFINE d == TradeRisk \div 2 ^ v5'[t]
    <3>2. d \in Nat /\ d <= TradeRisk
      BY <3>1, ShrunkIsWithin
    <3> HIDE DEF d
    <3>3. v16[t] + d <= TradeRisk
      BY <3>1, <3>2
    <3> QED BY <2>2, <3>3 DEF d
  <2> QED BY <2>3, <2>4
<1>15. Sizing!SimulatedIsSeen'
  <2> SUFFICES ASSUME Sizing!isSimulated
               PROVE  /\ v17' = 0 /\ \A t \in Symbols : v11'[t] = 0 /\ v14'[t] <= 1
                      /\ \A t \in Symbols : v3'.units[t] >= 0 /\ (v14'[t] = 1 => v3'.units[t] > 0)
    BY <1>1 DEF Sizing!SimulatedIsSeen, Sizing!isSimulated, Sizing!Book
  <2>1. /\ v17 = 0 /\ \A t \in Symbols : v11[t] = 0 /\ v14[t] <= 1
        /\ \A t \in Symbols : v3.units[t] >= 0 /\ (v14[t] = 1 => t \in Sizing!Book)
    BY DEF Parts, Sizing!SimulatedIsSeen
  <2>2. unseenNow = 0
    <3> DEFINE P == Positive(v14, Symbols)
               w == [x \in P |-> Tally(v14, Sizing!Book, x)]
    <3>1. unseenNow = Sum(w, P)
      BY UnseenIsTallied DEF Tallied, unseenNow, Entered
    <3>2. IsFiniteSet(P)
      BY SizingAssumption, FS_Subset DEF Positive
    <3>3. ASSUME NEW x \in P PROVE w[x] = 0
      <4>1. v14[x] = 1 /\ x \in Sizing!Book
        BY <1>2, <2>1 DEF Positive
      <4> QED BY <4>1 DEF Tally
    <3> HIDE DEF w, P
    <3> QED BY <3>1, <3>2, <3>3, SumOfZeros
  <2>3. v17' = 0
    BY <1>7, <2>1, <2>2
  <2>4. v14[s] = 0
    BY <1>1, <1>2, <2>1
  <2> QED BY <1>1, <1>2, <1>3, <1>11, <2>1, <2>3, <2>4 DEF Sizing!Book
<1>16. HeatBound'
  <2> DEFINE h == Sum(v15, Symbols)
             e == Sum(v14, Symbols)
  <2>1. Sums(v15, Symbols) /\ Sums(v14, Symbols)
    BY HeatIsSummed DEF Parts
  <2>2. h \in Int /\ e \in Int
    BY <2>1, SumIsInt
  <2>3. v15'[s] = v15[s] + R /\ v15'[s] \in Int /\ v15[s] \in Int
    BY <1>2, <1>8, <1>9
  <2>4. Alike(v15, v15', Symbols \ {s})
    BY <1>2, <1>8 DEF Alike
  <2>5. Sum(v15', Symbols) = h - v15[s] + v15'[s]
    BY <2>1, <2>3, <2>4, SumChanged
  <2>6. Sum(v15', Symbols) = h + R
    <3> HIDE DEF h
    <3> QED BY <1>5, <2>2, <2>3, <2>5
  <2>7. SUFFICES ASSUME TradeRisk > 0, HeatCap > 0
                 PROVE  Sum(v15', Symbols) <= HeatCap + v17' * TradeRisk
    BY DEF HeatBound
  <2>8. h <= e * TradeRisk
    BY <1>4, <2>1, <2>7, SumWithin DEF Parts, Sizing!OneTradeEach
  <2>9. e <= unseenNow + n /\ n \in Nat
    BY <1>6, BookIsFinite DEF n
  <2>10. a + n * TradeRisk <= HeatCap
    BY <1>3, <2>7, BudgetIsBounded DEF a, n
  <2> DEFINE k == v17'
  <2>11. k \in Nat /\ unseenNow <= k /\ unseenNow \in Int
    BY <1>6, <1>7
  <2> HIDE DEF h, e, k
  <2>12. e * TradeRisk <= (k + n) * TradeRisk
    <3>1. e <= k + n /\ k + n \in Int
      BY <2>2, <2>9, <2>11
    <3> QED BY <1>4, <2>2, <3>1, ProductGrows
  <2>13. (k + n) * TradeRisk = k * TradeRisk + n * TradeRisk
    BY <1>4, <2>9, <2>11
  <2> DEFINE x == e * TradeRisk
             y == n * TradeRisk
             z == k * TradeRisk
  <2>14. x \in Int /\ y \in Int /\ z \in Int
    BY <1>4, <2>2, <2>9, <2>11
  <2> HIDE DEF x, y, z
  <2>15. h + R <= HeatCap + z
    BY <1>4, <1>5, <2>2, <2>7, <2>8, <2>10, <2>12, <2>13, <2>14 DEF x, y, z
  <2> QED BY <2>6, <2>15 DEF z, k
<1> QED BY <1>12, <1>13, <1>14, <1>15, <1>16 DEF Parts

(* Half of what an add could bring is left for the next.                   *)
LEMMA HalfIsLeft ==
  ASSUME NEW n \in Nat, NEW r \in Nat, r <= TradeRisk
  PROVE  /\ r \div 2 ^ (n + 1) \in Nat /\ r \div 2 ^ (n + 1) <= TradeRisk \div 2 ^ (n + 1)
         /\ 2 * (TradeRisk \div 2 ^ (n + 1)) <= TradeRisk \div 2 ^ n
<1> DEFINE k == 2 ^ n
           l == 2 ^ (n + 1)
<1>1. k \in Nat \ {0} /\ l = 2 * k /\ TradeRisk \in Nat
  BY PowersDouble, SizingAssumption
<1>2. l \in Nat \ {0}
  BY <1>1
<1> HIDE DEF k, l
<1>3. r \div l \in Nat /\ TradeRisk \div l \in Nat /\ TradeRisk \div k \in Nat
  BY <1>1, <1>2
<1>4. r \div l <= TradeRisk \div l
  BY <1>1, <1>2
<1> DEFINE d == TradeRisk \div l
<1>5. d * l <= TradeRisk /\ d \in Nat
  BY <1>1, <1>2
<1> HIDE DEF d
<1>6. (2 * d) * k <= TradeRisk
  <2>1. d * l = (2 * d) * k
    BY <1>1, <1>5
  <2> QED BY <1>5, <2>1
<1> DEFINE f == 2 * d
<1>7. f \in Nat /\ f * k <= TradeRisk
  BY <1>5, <1>6
<1> HIDE DEF f
<1>8. f <= TradeRisk \div k
  BY <1>1, <1>7
<1> QED BY <1>3, <1>4, <1>8 DEF d, f, k, l

LEMMA AddFits ==
  ASSUME NEW s \in Symbols, NEW p \in Quote, NEW atr \in Atr, Nav \in Int, v8[s] \in Int,
         v5[s] \in Nat, Sizing!AddQuantity(s, p, atr) > 0
  PROVE  /\ Nav \in Nat \ {0} /\ Sizing!AddQuantity(s, p, atr) \in Nat \ {0}
         /\ Sizing!AddQuantity(s, p, atr)
              <= Sizing!RiskUnits(Sizing!AvailableRisk \div 2 ^ (v5[s] + 1), p, atr)
<1> DEFINE r == Sizing!AvailableRisk \div 2 ^ (v5[s] + 1)
           u == Sizing!RiskUnits(r, p, atr)
           room == Sizing!MaxNotional * Sizing!Unit - v8[s] * p
           headroom == Sizing!Greatest(0, room)
           rest == Sizing!Rounded(headroom, p)
           b == Sizing!AddQuantity(s, p, atr)
<1>1. p \in Nat \ {0} /\ Sizing!Unit \in Nat \ {0} /\ Sizing!MaxNotional \in Int
  BY QuotesAreInt, UnitIsPositive, SizesAreInt
<1>2. r \in Nat
  <2>1. Sizing!AvailableRisk \in Nat /\ Sizing!AvailableRisk <= TradeRisk
    BY BudgetIsBounded
  <2> QED BY <2>1, HalfIsLeft
<1>3. room \in Int
  BY <1>1
<1> HIDE DEF r, room
<1>4. headroom \in Int
  BY <1>3, GreatestIsOne
<1> HIDE DEF headroom
<1>5. rest \in Int
  BY <1>1, <1>4, RoundedIsClose
<1>6. u \in Int
  BY <1>2, SizesAreInt
<1>7. b \in {0, Sizing!Least(u, rest)}
  BY DEF Sizing!AddQuantity, r, headroom, room
<1>8. b > 0
  OBVIOUS
<1> HIDE DEF u, rest, b
<1>9. Sizing!Least(u, rest) \in Int /\ Sizing!Least(u, rest) <= u
  BY <1>5, <1>6, LeastIsBoth
<1>10. b \in Nat \ {0} /\ b <= u
  BY <1>7, <1>8, <1>9
<1>11. Nav > 0
  <2> DEFINE D == StopOf(p, atr)
             num == Nav * r * Sizing!Unit
             x == Sizing!Rounded(num, D)
  <2>1. D \in Nat \ {0} /\ num \in Int
    BY <1>1, <1>2, StopOfIsPositive
  <2>2. u = x
    BY DEF u, Sizing!RiskUnits, Nav, StopOf
  <2> HIDE DEF D
  <2>3. SUFFICES ASSUME Nav <= 0 PROVE FALSE
    OBVIOUS
  <2>4. num <= 0
    <3> DEFINE m == r * Sizing!Unit
    <3>1. m \in Nat /\ num = Nav * m
      BY <1>1, <1>2
    <3> HIDE DEF m, num
    <3>2. Nav * m <= 0
      BY <2>3, <3>1
    <3> QED BY <3>1, <3>2
  <2> HIDE DEF num
  <2>5. /\ x \in Int /\ (Sizing!market = "IN" => x * D <= num)
        /\ (Sizing!market # "IN" => (2 * x - 1) * D <= 2 * num)
    BY <2>1, RoundedIsClose
  <2>6. x >= 1
    BY <1>6, <1>10, <2>2
  <2> HIDE DEF x
  <2>7. x * D >= D /\ (2 * x - 1) * D >= D
    <3>1. 1 * D <= x * D
      BY <2>1, <2>5, <2>6, ProductGrows
    <3>2. 2 * x - 1 \in Int /\ 1 <= 2 * x - 1
      BY <2>5, <2>6
    <3>3. 1 * D <= (2 * x - 1) * D
      BY <2>1, <3>2, ProductGrows
    <3> QED BY <2>1, <3>1, <3>3
  <2>8. x * D \in Int /\ (2 * x - 1) * D \in Int
    BY <2>1, <2>5
  <2> QED BY <2>1, <2>4, <2>5, <2>7, <2>8
<1> QED BY <1>10, <1>11 DEF b, u, r

(* An add: at most half of what was left of one trade's risk.              *)
LEMMA PyramidAddParts ==
  ASSUME Parts, NEW s \in Symbols, Sizing!PyramidAdd(s)
  PROVE  Parts'
<1>1. PICK atr \in Atr :
        /\ s \in Sizing!Book /\ v8[s] > 0
        /\ Sizing!AddQuantity(s, v2[s], atr) > 0
        /\ Sizing!Ordered(s, Sizing!AddQuantity(s, v2[s], atr))
        /\ v5' = [v5 EXCEPT ![s] = @ + 1]
        /\ v16' = [v16 EXCEPT ![s] = @ + Sizing!RiskOf(Sizing!AddQuantity(s, v2[s], atr), v2[s], atr)]
        /\ UNCHANGED <<v1, v2, v14, v15, v17>>
  BY DEF Sizing!PyramidAdd
<1> DEFINE q == Sizing!AddQuantity(s, v2[s], atr)
           R == Sizing!RiskOf(q, v2[s], atr)
           shrunk == Sizing!AvailableRisk \div 2 ^ (v5[s] + 1)
<1>2. /\ v1 \in Setups /\ v2 \in [Symbols -> Quote] /\ v2[s] \in Quote /\ v3.nav \in Int
      /\ v3.units \in [Symbols -> Int] /\ v8 \in [Symbols -> Int] /\ v11 \in [Symbols -> Int]
      /\ v5 \in [Symbols -> Nat] /\ v14 \in [Symbols -> Nat]
      /\ v15 \in [Symbols -> Nat] /\ v16 \in [Symbols -> Nat] /\ v17 \in Nat
  BY DEF Parts, Sizing!Figures
<1>3. v5[s] \in Nat /\ v8[s] \in Int /\ v16[s] \in Nat /\ TradeRisk \in Nat
  BY <1>2, SizingAssumption
<1>4. Nav \in Nat \ {0} /\ q \in Nat \ {0} /\ q <= Sizing!RiskUnits(shrunk, v2[s], atr)
  BY <1>1, <1>2, <1>3, AddFits DEF Nav
<1>5. /\ shrunk \in Nat /\ shrunk <= TradeRisk \div 2 ^ (v5[s] + 1)
      /\ 2 * (TradeRisk \div 2 ^ (v5[s] + 1)) <= TradeRisk \div 2 ^ v5[s]
  <2>1. Sizing!AvailableRisk \in Nat /\ Sizing!AvailableRisk <= TradeRisk
    BY BudgetIsBounded
  <2> QED BY <1>3, <2>1, HalfIsLeft
<1> HIDE DEF q, shrunk
<1>6. R \in Nat /\ R <= shrunk
  BY <1>2, <1>4, <1>5, RiskIsNatural, RiskFits
<1> HIDE DEF R
<1>7. v16' = [v16 EXCEPT ![s] = @ + R] /\ Sizing!Ordered(s, q)
  BY <1>1 DEF R, q
<1>8. v5' \in [Symbols -> Nat] /\ v16' \in [Symbols -> Nat]
  BY <1>1, <1>2, <1>6, <1>7
<1>9. /\ DOMAIN v3' = {"units", "cost", "value", "funds", "nav"}
      /\ v3'.units \in [Symbols -> Int] /\ v3'.value \in [Symbols -> Int]
      /\ v3'.funds \in Int /\ v3'.nav \in Int /\ v10' \in Int
      /\ v8' \in [Symbols -> Int] /\ v11' \in [Symbols -> Int]
      /\ \A t \in Symbols : v8'[t] >= v8[t] /\ v3'.units[t] >= v3.units[t]
      /\ Sizing!isSimulated => v11' = v11 /\ v3'.units = [v3.units EXCEPT ![s] = @ + q]
  BY <1>1, <1>4, <1>7, OrderedFigures DEF Parts
<1>10. Sizing!Figures'
  BY <1>1, <1>2, <1>8, <1>9 DEF Sizing!Figures
<1>11. Sizing!OneTradeEach' /\ HeatBound'
  BY <1>1 DEF Parts, Sizing!OneTradeEach, HeatBound
<1>12. \A t \in Symbols : v3.units[t] > 0 => v3'.units[t] > 0
  BY <1>2, <1>9
<1>13. Sizing!SimulatedIsSeen'
  <2> SUFFICES ASSUME Sizing!isSimulated
               PROVE  /\ v17 = 0 /\ \A t \in Symbols : v11'[t] = 0 /\ v14[t] <= 1
                      /\ \A t \in Symbols : v3'.units[t] >= 0 /\ (v14[t] = 1 => v3'.units[t] > 0)
    BY <1>1 DEF Sizing!SimulatedIsSeen, Sizing!isSimulated, Sizing!Book
  <2>1. /\ v17 = 0 /\ \A t \in Symbols : v11[t] = 0 /\ v14[t] <= 1
        /\ \A t \in Symbols : v3.units[t] >= 0 /\ (v14[t] = 1 => t \in Sizing!Book)
    BY DEF Parts, Sizing!SimulatedIsSeen
  <2> QED BY <1>2, <1>9, <1>12, <2>1 DEF Sizing!Book
<1>14. Sizing!AddsShrink'
  <2> SUFFICES ASSUME NEW t \in Symbols
               PROVE  /\ v16'[t] + TradeRisk \div 2 ^ v5'[t] <= TradeRisk
                      /\ v16'[t] > 0 => v8'[t] > 0 /\ v3'.units[t] > 0
    BY DEF Sizing!AddsShrink, Sizing!Book
  <2>1. /\ v16[t] + TradeRisk \div 2 ^ v5[t] <= TradeRisk
        /\ v16[t] > 0 => v8[t] > 0 /\ v3.units[t] > 0
    BY DEF Parts, Sizing!AddsShrink, Sizing!Book
  <2>2. v8[t] > 0 => v8'[t] > 0
    BY <1>2, <1>9
  <2>3. CASE t # s
    <3>1. v5'[t] = v5[t] /\ v16'[t] = v16[t]
      BY <1>1, <1>2, <1>7, <2>3
    <3> QED BY <1>12, <2>1, <2>2, <3>1
  <2>4. CASE t = s
    <3>1. v5'[t] = v5[s] + 1 /\ v16'[t] = v16[s] + R
      BY <1>1, <1>2, <1>7, <2>4
    <3>2. v8[t] > 0 /\ v3.units[t] > 0
      BY <1>1, <2>4 DEF Sizing!Book
    <3> DEFINE c == TradeRisk \div 2 ^ v5[s]
               d == TradeRisk \div 2 ^ (v5[s] + 1)
    <3>3. c \in Nat /\ d \in Nat
      BY <1>3, ShrunkIsWithin
    <3>4. shrunk <= d /\ 2 * d <= c /\ v16[s] + c <= TradeRisk
      BY <1>5, <2>1, <2>4
    <3>5. TradeRisk \div 2 ^ v5'[t] = d
      BY <3>1
    <3> HIDE DEF c, d
    <3>6. v16[s] + R + d <= TradeRisk
      BY <1>3, <1>5, <1>6, <3>3, <3>4
    <3> QED BY <1>12, <2>2, <3>1, <3>2, <3>5, <3>6
  <2> QED BY <2>3, <2>4
<1> QED BY <1>10, <1>11, <1>13, <1>14 DEF Parts

LEMMA SizingStep == Parts /\ NextSizing => Parts'
  BY SyncParts, PriceParts, BuyParts, PyramidAddParts, SellParts, IdleParts, StopExitParts,
     BuyFillsParts, BuyLapsesParts DEF NextSizing

LEMMA HeatKept == Spec => [](focus = "sizing" => Sizing!HeatIsSpent)
<1> DEFINE Inv == focus = "sizing" => Sizing!HeatIsSpent
<1>1. Init => Inv
  BY WhoStarts, SizingInit DEF Init, InitSizing
<1>2. Inv /\ [Next]_vars => Inv'
  <2> SUFFICES ASSUME Inv, [Next]_vars, focus' = "sizing" PROVE Sizing!HeatIsSpent'
    OBVIOUS
  <2>1. Parts
    BY FocusStays, PartsSuffice
  <2>2. CASE Next
    <3>1. NextSizing
      BY <2>2, WhoSteps DEF Next
    <3> QED BY <2>1, <3>1, SizingStep, PartsSufficeNext
  <2>3. CASE UNCHANGED vars
    <3>1. UNCHANGED <<v1, v2, v3, v5, v8, v10, v11, v14, v15, v16, v17>>
      BY <2>3 DEF vars
    <3>2. v2' \in [Symbols -> Quote]
      BY <2>1, <3>1 DEF Parts, Sizing!Figures
    <3>3. Parts'
      BY <2>1, <3>1, <3>2, QuietParts
    <3> QED BY <3>3, PartsSufficeNext
  <2> QED BY <2>2, <2>3
<1> QED BY <1>1, <1>2, PTL DEF Spec

(* The losses at the stops of everything the engine bought stay within the *)
(* heat cap and one trade for each earlier purchase a BUY was decided      *)
(* without seeing, whatever the account, the prices, the symbols and the   *)
(* settings; a simulated book sees all of them, and the adds of a position *)
(* bring less than one trade more.                                         *)
THEOREM HeatStaysBounded == Spec => []OvershootBounded
<1> DEFINE Inv == focus = "sizing" => Sizing!HeatIsSpent
<1>1. Inv => OvershootBounded
  BY DEF Sizing!HeatIsSpent, OvershootBounded
<1> QED BY <1>1, HeatKept, PTL


-----------------------------------------------------------------------------
(* The types of the parts with a plan or a purse.  The planners' plans are *)
(* those of the invariants above.                                          *)

LEMMA InPlannerTypes ==
  ASSUME InPlanner!SectorsPlanned
  PROVE  InPlanner!TypeOK
<1>1. InPlanner!StepsInOrder
  BY DEF InPlanner!SectorsPlanned
<1> QED BY <1>1 DEF InPlanner!StepsInOrder, InPlanner!SharesChosen, InPlanner!NoPlan, InPlanner!TypeOK

LEMMA NextCycle ==
  ASSUME NEW bound \in Nat, NEW n \in 0..bound + 1
  PROVE  UkPlanner!Min({n + 1, bound + 1}) \in 0..bound + 1
<1> DEFINE S == {n + 1, bound + 1}
           x == CHOOSE x \in S : \A y \in S : x <= y
<1>1. \E k \in S : \A y \in S : k <= y
  <2>1. CASE n = bound + 1
    BY <2>1
  <2>2. CASE n <= bound
    BY <2>2
  <2> QED BY <2>1, <2>2
<1>2. x \in S /\ \A y \in S : x <= y
  BY <1>1
<1>3. x <= bound + 1 /\ x \in {n + 1, bound + 1}
  BY <1>2
<1> HIDE DEF x
<1>4. x \in 0..bound + 1
  BY <1>3
<1> QED BY <1>4 DEF UkPlanner!Min, x

(* How long ago a line was sold, and how long a pause lasts, stop counting *)
(* at their bounds.                                                        *)
CyclesTyped ==
  v3 \in [UkPlanner!Line -> 0..ThirtyDaysOff + 1] /\ v4 \in 0..MaxPause + 1

LEMMA UkPlannerTypesInit == UkPlanner!Init => CyclesTyped
  BY BoundsAssumption DEF UkPlanner!Init, CyclesTyped

LEMMA UkPlannerTypes ==
  ASSUME CyclesTyped, NextUkPlanner
  PROVE  CyclesTyped'
<1>1. CASE UkPlanner!PlanSatellite
  <2>1. v3' = v3 /\ \E bear \in BOOLEAN : v4' = UkPlanner!PauseAfter(bear)
    BY <1>1 DEF UkPlanner!PlanSatellite
  <2>2. v4 \in 0..MaxPause + 1 /\ MaxPause \in Nat
    BY BoundsAssumption DEF CyclesTyped
  <2>3. v4' = 0 \/ v4' = UkPlanner!Min({v4 + 1, MaxPause + 1})
    BY <2>1 DEF UkPlanner!PauseAfter
  <2>4. v4' \in 0..MaxPause + 1
    BY <2>2, <2>3, NextCycle
  <2> QED BY <2>1, <2>4 DEF CyclesTyped
<1>2. CASE UkPlanner!Invest
  <2>1. v4' = v4
    BY <1>2 DEF UkPlanner!Invest
  <2>2. PICK gone \in SUBSET v6.sold, cut \in SUBSET v6.sold :
          v3' = [t \in UkPlanner!Line |->
                   IF t \in gone \cup cut THEN 0 ELSE UkPlanner!Min({v3[t] + 1, ThirtyDaysOff + 1})]
    <3>1. PICK gone \in SUBSET v6.sold : \E cut \in SUBSET (v6.sold \ gone) :
            v3' = [t \in UkPlanner!Line |->
                     IF t \in gone \cup cut THEN 0 ELSE UkPlanner!Min({v3[t] + 1, ThirtyDaysOff + 1})]
      BY <1>2 DEF UkPlanner!Invest
    <3> QED BY <3>1
  <2>3. v3 \in [UkPlanner!Line -> 0..ThirtyDaysOff + 1] /\ ThirtyDaysOff \in Nat
    BY BoundsAssumption DEF CyclesTyped
  <2>4. ASSUME NEW t \in UkPlanner!Line
        PROVE  (IF t \in gone \cup cut THEN 0 ELSE UkPlanner!Min({v3[t] + 1, ThirtyDaysOff + 1}))
                  \in 0..ThirtyDaysOff + 1
    <3>1. v3[t] \in 0..ThirtyDaysOff + 1
      BY <2>3
    <3>2. UkPlanner!Min({v3[t] + 1, ThirtyDaysOff + 1}) \in 0..ThirtyDaysOff + 1
      BY <2>3, <3>1, NextCycle
    <3> QED BY <2>3, <3>2
  <2>5. v3' \in [UkPlanner!Line -> 0..ThirtyDaysOff + 1]
    BY <2>2, <2>4
  <2> QED BY <2>1, <2>5 DEF CyclesTyped
<1>3. CASE UkPlanner!PlanCore \/ UkPlanner!Rebalance \/ UkPlanner!Harvest
  BY <1>3 DEF UkPlanner!PlanCore, UkPlanner!Rebalance, UkPlanner!Harvest, CyclesTyped
<1> QED BY <1>1, <1>2, <1>3 DEF NextUkPlanner

LEMMA UkPlannerTyped ==
  ASSUME UkPlanner!OneFundPlanned, CyclesTyped
  PROVE  UkPlanner!TypeOK
<1>1. UkPlanner!StepsInOrder
  BY DEF UkPlanner!OneFundPlanned
<1>2. v6.sold \subseteq v2 /\ v6.atLoss \subseteq v2
  BY <1>1 DEF UkPlanner!StepsInOrder, UkPlanner!LinesChosen
<1> QED BY <1>1, <1>2 DEF UkPlanner!StepsInOrder, CyclesTyped, UkPlanner!TypeOK

-----------------------------------------------------------------------------
(* The account and the ledger of the India growth bot.                     *)

LEMMA NotBelowZero ==
  ASSUME NEW x \in Int
  PROVE  GrowthCycle!Max({0, x}) = IF x > 0 THEN x ELSE 0
<1> DEFINE S == {0, x}
           m == CHOOSE y \in S : \A z \in S : y >= z
<1>1. \E y \in S : \A z \in S : y >= z
  <2>1. CASE x > 0
    BY <2>1
  <2>2. CASE x <= 0
    BY <2>2
  <2> QED BY <2>1, <2>2
<1>2. m \in S /\ \A z \in S : m >= z
  BY <1>1
<1>3. m \in {0, x} /\ m >= 0 /\ m >= x
  BY <1>2
<1> HIDE DEF m
<1>4. m = IF x > 0 THEN x ELSE 0
  BY <1>3
<1> QED BY <1>4 DEF GrowthCycle!Max, m

(* What the books of the India bot hold: no share is owned less than       *)
(* never, for every sale under way is of shares in the ledger, and of each *)
(* ticker there is one.                                                    *)
GrowthLedger == [cash : Int, qty : [Ticker -> Nat], booked : BOOLEAN, rebuy : [Ticker -> Nat]]
GrowthFence == [cash : Nat, qty : [Ticker -> Nat]]
GrowthAccount == [cash : Nat, mine : [Ticker -> Nat], theirs : [Ticker -> Nat]]

SalesCovered ==
  /\ \A o \in GrowthCycle!Ongoing : o.side = "SELL" => o.q <= v2.qty[o.t]
  /\ \A o, u \in GrowthCycle!Ongoing : o.side = "SELL" /\ u.side = "SELL" /\ o.t = u.t => o = u

OrderIsOut == v6.at \in {"idle", "orders", "sent"} /\ (v6.at = "sent" <=> v6.order # {})

GrowthTyped ==
  /\ v1 \in BOOLEAN /\ v2 \in GrowthLedger /\ v3 \in GrowthFence /\ v4 \in GrowthAccount
  /\ OrderIsOut /\ SalesCovered

LEMMA ReservationTyped ==
  ASSUME NEW l \in GrowthLedger
  PROVE  GrowthCycle!Reservation(l) \in GrowthFence
<1>1. GrowthCycle!Max({0, l.cash}) \in Nat
  <2>1. l.cash \in Int
    BY DEF GrowthLedger
  <2>2. GrowthCycle!Max({0, l.cash}) = IF l.cash > 0 THEN l.cash ELSE 0
    BY <2>1, NotBelowZero
  <2> QED BY <2>1, <2>2
<1> QED BY <1>1 DEF GrowthCycle!Reservation, GrowthLedger, GrowthFence

LEMMA GrowthTypesInit == GrowthCycle!Init => GrowthTyped
<1> SUFFICES ASSUME GrowthCycle!Init PROVE GrowthTyped
  OBVIOUS
<1>1. GrowthCycle!Nothing \in [Ticker -> Nat]
  BY DEF GrowthCycle!Nothing
<1>2. v2 \in GrowthLedger /\ v3 = GrowthCycle!Reservation(v2) /\ v1 = FALSE
  BY <1>1 DEF GrowthCycle!Init, GrowthLedger
<1>3. v4 \in GrowthAccount
  BY <1>1, GrowthAssumption DEF GrowthCycle!Init, GrowthAccount
<1>4. v6.at = "idle" /\ v6.order = {} /\ v6.todo = {}
  BY DEF GrowthCycle!Init, GrowthCycle!Idle
<1> QED BY <1>2, <1>3, <1>4, ReservationTyped DEF GrowthTyped, OrderIsOut, SalesCovered, GrowthCycle!Ongoing

(* A step that starts or ends a run, or does not touch one.                *)
LEMMA NothingUnderWay ==
  ASSUME v6' = GrowthCycle!Idle
  PROVE  OrderIsOut' /\ SalesCovered'
  BY DEF GrowthCycle!Idle, OrderIsOut, SalesCovered, GrowthCycle!Ongoing

LEMMA SameRun ==
  ASSUME GrowthTyped, v6' = v6, v2'.qty = v2.qty
  PROVE  OrderIsOut' /\ SalesCovered'
  BY DEF GrowthTyped, OrderIsOut, SalesCovered, GrowthCycle!Ongoing

LEMMA AfterStart ==
  ASSUME GrowthTyped, GrowthCycle!CycleIsOrderly, GrowthCycle!StartCycle
  PROVE  GrowthTyped'
<1>1. v1' = TRUE /\ v4' = v4 /\ v2' = GrowthCycle!Booked(v2) /\ v3' = GrowthCycle!Reservation(v2')
  BY DEF GrowthCycle!StartCycle
<1>2. PICK readable \in BOOLEAN, priced \in {Ticker, {}} :
         \E p \in GrowthCycle!Plans(v2', GrowthCycle!CashFor(v2', readable), priced) :
            v6' = [at |-> "orders", todo |-> GrowthCycle!OrdersOf(p), pending |-> GrowthCycle!Carried(v2', p),
                   order |-> {}]
  BY DEF GrowthCycle!StartCycle
<1>3. PICK p \in GrowthCycle!Plans(v2', GrowthCycle!CashFor(v2', readable), priced) :
         v6' = [at |-> "orders", todo |-> GrowthCycle!OrdersOf(p), pending |-> GrowthCycle!Carried(v2', p),
                order |-> {}]
  BY <1>2
<1>4. v2' \in GrowthLedger
  <2>1. v2 \in GrowthLedger
    BY DEF GrowthTyped
  <2>2. CASE v2.booked
    BY <1>1, <2>1, <2>2 DEF GrowthCycle!Booked
  <2>3. CASE ~v2.booked
    <3>1. v2' = [[v2 EXCEPT !.cash = v2.cash + Contribution] EXCEPT !.booked = TRUE]
      BY <1>1, <2>3 DEF GrowthCycle!Booked
    <3>2. v2.cash + Contribution \in Int
      BY <2>1, GrowthAssumption DEF GrowthLedger
    <3> QED BY <2>1, <3>1, <3>2 DEF GrowthLedger
  <2> QED BY <2>2, <2>3
<1>5. v3' \in GrowthFence
  BY <1>1, <1>4, ReservationTyped
<1>6. v6'.at = "orders" /\ v6'.order = {} /\ GrowthCycle!Ongoing' = GrowthCycle!OrdersOf(p)
  BY <1>3 DEF GrowthCycle!Ongoing
<1>7. \A t \in Ticker : /\ p.sale[t] \in Nat /\ p.harvest[t] \in Nat /\ p.back[t] \in Nat /\ p.invest[t] \in Nat
                        /\ p.harvest[t] = 0 \/ p.sale[t] = 0
                        /\ p.sale[t] <= v2'.qty[t] /\ p.harvest[t] <= v2'.qty[t]
  BY PlanByTicker
<1>8. /\ \A o \in GrowthCycle!OrdersOf(p) :
            /\ o \in GrowthCycle!OrderType
            /\ o.side = "BUY" <=> o.why \in {"buyback", "invest"}
            /\ o.q > 0
            /\ \/ o.why = "sale" /\ o.q = p.sale[o.t]
               \/ o.why = "harvest" /\ o.q = p.harvest[o.t]
               \/ o.why = "buyback" /\ o.q = p.back[o.t]
               \/ o.why = "invest" /\ o.q = p.invest[o.t]
      /\ \A o, u \in GrowthCycle!OrdersOf(p) : o.t = u.t /\ o.why = u.why => o = u
  BY <1>7, OrdersOfAPlan
<1>9. \A o \in GrowthCycle!OrdersOf(p) : /\ o.side = "SELL" => o.why \in {"sale", "harvest"}
                                         /\ o.t \in Ticker
  BY <1>8 DEF GrowthCycle!OrderType
<1>10. SalesCovered'
  <2>1. \A o \in GrowthCycle!OrdersOf(p) : o.side = "SELL" => o.q <= v2'.qty[o.t]
    BY <1>7, <1>8, <1>9
  <2>2. ASSUME NEW o \in GrowthCycle!OrdersOf(p), NEW u \in GrowthCycle!OrdersOf(p),
               o.side = "SELL", u.side = "SELL", o.t = u.t
        PROVE  o = u
    <3>1. o.why = u.why
      BY <1>7, <1>8, <1>9, <2>2
    <3> QED BY <1>8, <2>2, <3>1
  <2> QED BY <1>6, <2>1, <2>2 DEF SalesCovered
<1> QED BY <1>1, <1>4, <1>5, <1>6, <1>10 DEF GrowthTyped, OrderIsOut

LEMMA AccountMoves ==
  ASSUME NEW a \in GrowthAccount, NEW t \in Ticker, NEW c \in Nat, NEW n \in Nat
  PROVE  /\ [a EXCEPT !.cash = c, !.mine[t] = n] \in GrowthAccount
         /\ [a EXCEPT !.cash = c, !.theirs[t] = n] \in GrowthAccount
<1>1. [a.mine EXCEPT ![t] = n] \in [Ticker -> Nat] /\ [a.theirs EXCEPT ![t] = n] \in [Ticker -> Nat]
  BY DEF GrowthAccount
<1>2. DOMAIN a = {"cash", "mine", "theirs"} /\ a.mine \in [Ticker -> Nat] /\ a.theirs \in [Ticker -> Nat]
  BY DEF GrowthAccount
<1> DEFINE b == [a EXCEPT !.cash = c]
<1>3. b = [cash |-> c, mine |-> a.mine, theirs |-> a.theirs]
  BY <1>2 DEF GrowthAccount
<1>4. b.mine = a.mine /\ b.theirs = a.theirs
  BY <1>3
<1> HIDE DEF b
<1>5. /\ [b EXCEPT !.mine = [b.mine EXCEPT ![t] = n]] \in GrowthAccount
      /\ [b EXCEPT !.theirs = [b.theirs EXCEPT ![t] = n]] \in GrowthAccount
  BY <1>1, <1>2, <1>3, <1>4 DEF GrowthAccount
<1> QED BY <1>5 DEF b

LEMMA LedgerMoves ==
  ASSUME NEW l \in GrowthLedger, NEW t \in Ticker, NEW c \in Int, NEW n \in Nat
  PROVE  [l EXCEPT !.cash = c, !.qty[t] = n] \in GrowthLedger
<1>1. [l.qty EXCEPT ![t] = n] \in [Ticker -> Nat]
  BY DEF GrowthLedger
<1> DEFINE b == [l EXCEPT !.cash = c]
<1>2. b \in GrowthLedger /\ b.qty = l.qty
  BY DEF GrowthLedger
<1> HIDE DEF b
<1>3. [b EXCEPT !.qty = [b.qty EXCEPT ![t] = n]] \in GrowthLedger
  BY <1>1, <1>2 DEF GrowthLedger
<1> QED BY <1>3 DEF b

LEMMA FillKeepsTheAccount ==
  ASSUME GrowthTyped, NEW o \in GrowthCycle!OrderType, GrowthCycle!Fill(o)
  PROVE  v4' \in GrowthAccount
<1>1. v4 \in GrowthAccount
  BY DEF GrowthTyped
<1>2. o.t \in Ticker
  BY DEF GrowthCycle!OrderType
<1>3. v4.cash \in Nat /\ v4.mine[o.t] \in Nat /\ v4.theirs[o.t] \in Nat
  BY <1>1, <1>2 DEF GrowthAccount
<1>4. CASE o.side = "BUY"
  <2>1. v4.cash > 0 /\ v4' = [v4 EXCEPT !.cash = @ - 1, !.mine[o.t] = @ + 1]
    BY <1>4 DEF GrowthCycle!Fill
  <2>2. v4.cash - 1 \in Nat /\ v4.mine[o.t] + 1 \in Nat
    BY <1>3, <2>1
  <2> QED BY <1>1, <1>2, <2>1, <2>2, AccountMoves
<1>5. CASE o.side # "BUY"
  <2>1. v4.theirs[o.t] + v4.mine[o.t] > 0
    BY <1>5 DEF GrowthCycle!Fill, GrowthCycle!Holding
  <2>2. v4' = IF v4.mine[o.t] > 0 THEN [v4 EXCEPT !.cash = @ + 1, !.mine[o.t] = @ - 1]
                                  ELSE [v4 EXCEPT !.cash = @ + 1, !.theirs[o.t] = @ - 1]
    BY <1>5 DEF GrowthCycle!Fill
  <2>3. CASE v4.mine[o.t] > 0
    <3>1. v4' = [v4 EXCEPT !.cash = @ + 1, !.mine[o.t] = @ - 1]
      BY <2>2, <2>3
    <3>2. v4.cash + 1 \in Nat /\ v4.mine[o.t] - 1 \in Nat
      BY <1>3, <2>3
    <3> QED BY <1>1, <1>2, <3>1, <3>2, AccountMoves
  <2>4. CASE v4.mine[o.t] = 0
    <3>1. v4' = [v4 EXCEPT !.cash = @ + 1, !.theirs[o.t] = @ - 1]
      BY <2>2, <2>4
    <3>2. v4.cash + 1 \in Nat /\ v4.theirs[o.t] - 1 \in Nat
      BY <1>3, <2>1, <2>4
    <3> QED BY <1>1, <1>2, <3>1, <3>2, AccountMoves
  <2> QED BY <1>3, <2>3, <2>4
<1> QED BY <1>4, <1>5

LEMMA AfterSending ==
  ASSUME GrowthTyped, GrowthCycle!CycleIsOrderly, NEW o \in v6.todo,
         GrowthCycle!SendOrder(o) \/ GrowthCycle!RefuseOrder(o) \/ GrowthCycle!LoseOrder(o)
  PROVE  GrowthTyped'
<1>1. UNCHANGED <<v1, v2, v3, v4>> /\ v6.at = "orders"
  BY DEF GrowthCycle!SendOrder, GrowthCycle!RefuseOrder, GrowthCycle!LoseOrder, GrowthCycle!NextOrder
<1>2. DOMAIN v6 = {"at", "todo", "pending", "order"} /\ v6.order = {}
  BY <1>1 DEF GrowthCycle!CycleIsOrderly
<1>3. CASE GrowthCycle!SendOrder(o)
  <2>1. v6' = [v6 EXCEPT !.at = "sent", !.todo = @ \ {o}, !.order = {o}]
    BY <1>3 DEF GrowthCycle!SendOrder
  <2>2. v6'.at = "sent" /\ v6'.order = {o} /\ v6'.todo = v6.todo \ {o}
    BY <1>2, <2>1
  <2>3. GrowthCycle!Ongoing' = GrowthCycle!Ongoing
    BY <1>2, <2>2 DEF GrowthCycle!Ongoing
  <2>4. SalesCovered'
    BY <1>1, <2>3 DEF SalesCovered, GrowthTyped
  <2> QED BY <1>1, <2>2, <2>4 DEF GrowthTyped, OrderIsOut
<1>4. CASE GrowthCycle!RefuseOrder(o) \/ GrowthCycle!LoseOrder(o)
  <2>1. v6' = [v6 EXCEPT !.todo = @ \ {o}, !.pending = GrowthCycle!PendingAfterFailure(o)]
    BY <1>4 DEF GrowthCycle!RefuseOrder, GrowthCycle!LoseOrder
  <2>2. v6'.at = "orders" /\ v6'.order = {} /\ v6'.todo = v6.todo \ {o}
    BY <1>1, <1>2, <2>1
  <2>3. GrowthCycle!Ongoing' \subseteq GrowthCycle!Ongoing
    BY <1>2, <2>2 DEF GrowthCycle!Ongoing
  <2>4. SalesCovered'
    BY <1>1, <2>3 DEF SalesCovered, GrowthTyped
  <2> QED BY <1>1, <2>2, <2>4 DEF GrowthTyped, OrderIsOut
<1> QED BY <1>3, <1>4

LEMMA AfterAFill ==
  ASSUME GrowthTyped, GrowthCycle!CycleIsOrderly, GrowthCycle!OrderFills
  PROVE  GrowthTyped'
<1>1. PICK o \in v6.order : GrowthCycle!Fill(o) /\ v6' = [v6 EXCEPT !.order = {[o EXCEPT !.left = @ - 1]}]
  BY DEF GrowthCycle!OrderFills
<1>2. UNCHANGED <<v1, v2, v3>>
  BY DEF GrowthCycle!OrderFills
<1> DEFINE n == [o EXCEPT !.left = @ - 1]
<1>3. /\ o \in GrowthCycle!OrderType /\ v6.order = {o} /\ DOMAIN v6 = {"at", "todo", "pending", "order"}
      /\ o \in GrowthCycle!Ongoing
  BY DEF GrowthCycle!CycleIsOrderly, GrowthCycle!Ongoing
<1>4. n.t = o.t /\ n.side = o.side /\ n.q = o.q
  BY <1>3 DEF GrowthCycle!OrderType
<1>5. v6'.at = v6.at /\ v6'.todo = v6.todo /\ v6'.order = {n}
  BY <1>1, <1>3
<1> HIDE DEF n
<1>6. v4' \in GrowthAccount
  BY <1>1, <1>3, FillKeepsTheAccount
<1>7. GrowthCycle!Ongoing' = v6.todo \cup {n} /\ GrowthCycle!Ongoing = v6.todo \cup {o}
  BY <1>3, <1>5 DEF GrowthCycle!Ongoing
<1>8. o \notin v6.todo
  BY <1>3 DEF GrowthCycle!CycleIsOrderly
<1>9. SalesCovered'
  <2>1. \A u \in v6.todo \cup {n} : u.side = "SELL" => u.q <= v2'.qty[u.t]
    BY <1>2, <1>4, <1>7 DEF SalesCovered, GrowthTyped
  <2>2. \A u \in v6.todo : ~(u.side = "SELL" /\ o.side = "SELL" /\ u.t = o.t)
    BY <1>7, <1>8 DEF SalesCovered, GrowthTyped
  <2>3. \A u, w \in v6.todo : u.side = "SELL" /\ w.side = "SELL" /\ u.t = w.t => u = w
    BY <1>7 DEF SalesCovered, GrowthTyped
  <2> QED BY <1>4, <1>7, <2>1, <2>2, <2>3 DEF SalesCovered
<1>10. OrderIsOut'
  BY <1>3, <1>5 DEF OrderIsOut, GrowthTyped
<1> QED BY <1>2, <1>6, <1>9, <1>10 DEF GrowthTyped

LEMMA AfterSettling ==
  ASSUME GrowthTyped, GrowthCycle!CycleIsOrderly, GrowthCycle!SettleOrder
  PROVE  GrowthTyped'
<1>1. UNCHANGED <<v1, v3, v4>>
  BY DEF GrowthCycle!SettleOrder
<1>2. PICK o \in v6.order :
        /\ v6' = [v6 EXCEPT !.at = "orders", !.order = {},
                     !.pending = IF o.q - o.left = 0 THEN GrowthCycle!PendingAfterFailure(o)
                                                     ELSE GrowthCycle!PendingAfterFill(o, o.q - o.left)]
        /\ v2' = GrowthCycle!Recorded(o, o.q - o.left)
  BY DEF GrowthCycle!SettleOrder
<1>3. /\ o \in GrowthCycle!OrderType /\ v6.order = {o} /\ DOMAIN v6 = {"at", "todo", "pending", "order"}
      /\ o \in GrowthCycle!Ongoing /\ o.left <= o.q /\ o \notin v6.todo
  BY DEF GrowthCycle!CycleIsOrderly, GrowthCycle!Ongoing
<1>4. o.t \in Ticker /\ o.side \in {"BUY", "SELL"} /\ o.q \in Nat /\ o.left \in Nat /\ o.q - o.left \in Nat
      /\ o.q - o.left <= o.q
  BY <1>3 DEF GrowthCycle!OrderType
<1>5. v6'.at = "orders" /\ v6'.order = {} /\ v6'.todo = v6.todo
  BY <1>2, <1>3
<1> DEFINE n == IF o.side = "BUY" THEN o.q - o.left ELSE -(o.q - o.left)
<1>6. v2 \in GrowthLedger /\ v2.qty[o.t] \in Nat /\ v2.cash \in Int
  BY <1>4 DEF GrowthTyped, GrowthLedger
<1>7. o.side = "SELL" => o.q <= v2.qty[o.t]
  BY <1>3 DEF GrowthTyped, SalesCovered
<1>8. n \in Int /\ v2.qty[o.t] + n \in Nat /\ (o.side = "BUY" => n \in Nat)
  BY <1>4, <1>6, <1>7
<1>9. v2' = [v2 EXCEPT !.cash = @ - n, !.qty[o.t] = @ + n]
  BY <1>2 DEF GrowthCycle!Recorded
<1> HIDE DEF n
<1>10. v2' \in GrowthLedger
  <2>1. v2.cash - n \in Int
    BY <1>6, <1>8
  <2> QED BY <1>4, <1>6, <1>8, <1>9, <2>1, LedgerMoves
<1>11. \A t \in Ticker : v2'.qty[t] = IF t = o.t THEN v2.qty[t] + n ELSE v2.qty[t]
  BY <1>4, <1>6, <1>9 DEF GrowthLedger
<1>12. GrowthCycle!Ongoing' = v6.todo /\ GrowthCycle!Ongoing = v6.todo \cup {o}
  BY <1>3, <1>5 DEF GrowthCycle!Ongoing
<1>13. SalesCovered'
  <2>1. ASSUME NEW u \in v6.todo, u.side = "SELL"
        PROVE  u.q <= v2'.qty[u.t]
    <3>1. u \in GrowthCycle!OrderType
      BY <1>12 DEF GrowthCycle!CycleIsOrderly
    <3>2. u.t \in Ticker /\ u.q \in Nat
      BY <3>1 DEF GrowthCycle!OrderType
    <3>3. u.q <= v2.qty[u.t] /\ (u.t = o.t => o.side # "SELL")
      BY <1>3, <1>12, <2>1 DEF GrowthTyped, SalesCovered
    <3>4. v2.qty[u.t] \in Nat
      BY <3>2, <1>6 DEF GrowthLedger
    <3> QED BY <1>4, <1>8, <1>11, <3>2, <3>3, <3>4
  <2>2. \A u, w \in v6.todo : u.side = "SELL" /\ w.side = "SELL" /\ u.t = w.t => u = w
    BY <1>12 DEF GrowthTyped, SalesCovered
  <2> QED BY <1>12, <2>1, <2>2 DEF SalesCovered
<1> QED BY <1>1, <1>5, <1>10, <1>13 DEF GrowthTyped, OrderIsOut

LEMMA AfterFinishing ==
  ASSUME GrowthTyped, GrowthCycle!CycleIsOrderly, GrowthCycle!FinishCycle
  PROVE  GrowthTyped'
<1>1. UNCHANGED <<v1, v4>> /\ v2' = [v2 EXCEPT !.rebuy = v6.pending] /\ v3' = GrowthCycle!Reservation(v2')
      /\ v6' = GrowthCycle!Idle
  BY DEF GrowthCycle!FinishCycle
<1>2. v6.pending \in [Ticker -> Nat]
  BY DEF GrowthCycle!CycleIsOrderly
<1>3. v2' \in GrowthLedger
  BY <1>1, <1>2 DEF GrowthTyped, GrowthLedger
<1> QED BY <1>1, <1>3, ReservationTyped, NothingUnderWay DEF GrowthTyped

LEMMA AfterABreak ==
  ASSUME GrowthTyped, GrowthCycle!CycleIsOrderly,
         \/ GrowthCycle!CycleFails \/ GrowthCycle!Restart \/ GrowthCycle!Reconcile \/ GrowthCycle!StrayFills
  PROVE  GrowthTyped'
<1>1. CASE GrowthCycle!CycleFails
  <2>1. UNCHANGED <<v1, v2, v3, v4>> /\ v6' = GrowthCycle!Idle
    BY <1>1 DEF GrowthCycle!CycleFails
  <2> QED BY <2>1, NothingUnderWay DEF GrowthTyped
<1>2. CASE GrowthCycle!Restart
  <2>1. UNCHANGED <<v1, v2, v4>> /\ v3' = GrowthCycle!Reservation(v2) /\ v6' = GrowthCycle!Idle
    BY <1>2 DEF GrowthCycle!Restart
  <2> QED BY <2>1, NothingUnderWay, ReservationTyped DEF GrowthTyped
<1>3. CASE GrowthCycle!Reconcile
  <2>1. GrowthCycle!Nothing \in [Ticker -> Nat]
    BY DEF GrowthCycle!Nothing
  <2>2. v1' = FALSE /\ v3' = GrowthCycle!Reservation(v2') /\ v6' = GrowthCycle!Idle
    BY <1>3 DEF GrowthCycle!Reconcile
  <2>3. v2' \in GrowthLedger /\ v4' \in GrowthAccount
    BY <1>3, <2>1, GrowthAssumption DEF GrowthCycle!Reconcile, GrowthLedger, GrowthAccount
  <2> QED BY <2>2, <2>3, NothingUnderWay, ReservationTyped DEF GrowthTyped
<1>4. CASE GrowthCycle!StrayFills
  <2>1. UNCHANGED <<v1, v2, v3, v6>>
    BY <1>4 DEF GrowthCycle!StrayFills
  <2>2. PICK o \in v7 : GrowthCycle!Fill(o)
    BY <1>4 DEF GrowthCycle!StrayFills
  <2>3. v4' \in GrowthAccount
    BY <2>2, FillKeepsTheAccount DEF GrowthCycle!CycleIsOrderly
  <2> QED BY <2>1, <2>3, SameRun DEF GrowthTyped
<1> QED BY <1>1, <1>2, <1>3, <1>4

LEMMA SaleOfTheAgent ==
  ASSUME NEW t \in Ticker, GrowthCycle!AgentSells(t)
  PROVE  /\ v4' = IF v4.theirs[t] > 0 THEN [v4 EXCEPT !.cash = @ + 1, !.theirs[t] = @ - 1]
                                      ELSE [v4 EXCEPT !.cash = @ + 1, !.mine[t] = @ - 1]
         /\ GrowthCycle!Max({0, (v4.theirs[t] + v4.mine[t]) - v3.qty[t]}) > 0
         /\ UNCHANGED <<v1, v2, v3, v6>>
  BY Zenon DEF GrowthCycle!AgentSells, GrowthCycle!Visible, GrowthCycle!Holding

LEMMA AfterTheWorld ==
  ASSUME GrowthTyped,
         \/ GrowthCycle!SkipCycle \/ GrowthCycle!NextDay \/ GrowthCycle!MoneyLands
         \/ \E t \in Ticker : GrowthCycle!AgentBuys(t) \/ GrowthCycle!AgentSells(t)
  PROVE  GrowthTyped'
<1>0. v4 \in GrowthAccount /\ v4.cash \in Nat
  BY DEF GrowthTyped, GrowthAccount
<1>1. CASE GrowthCycle!SkipCycle
  <2>1. v1' = TRUE /\ UNCHANGED <<v2, v3, v4, v6>>
    BY <1>1 DEF GrowthCycle!SkipCycle
  <2> QED BY <2>1, SameRun DEF GrowthTyped
<1>2. CASE GrowthCycle!NextDay
  <2>1. v1' = FALSE /\ UNCHANGED <<v3, v4, v6>>
    BY <1>2 DEF GrowthCycle!NextDay
  <2>2. PICK newMonth \in BOOLEAN : v2' = [v2 EXCEPT !.booked = @ /\ ~newMonth]
    BY <1>2 DEF GrowthCycle!NextDay
  <2>3. v2' \in GrowthLedger /\ v2'.qty = v2.qty
    <3>1. v2 \in GrowthLedger
      BY DEF GrowthTyped
    <3>2. (v2.booked /\ ~newMonth) \in BOOLEAN
      OBVIOUS
    <3> DEFINE b == v2.booked /\ ~newMonth
    <3> HIDE DEF b
    <3>3. v2' = [v2 EXCEPT !.booked = b] /\ b \in BOOLEAN
      BY <2>2, <3>2 DEF b
    <3> QED BY <3>1, <3>3 DEF GrowthLedger
  <2> QED BY <2>1, <2>3, SameRun DEF GrowthTyped
<1>3. CASE GrowthCycle!MoneyLands
  <2>1. v4' = [v4 EXCEPT !.cash = @ + Contribution] /\ UNCHANGED <<v1, v2, v3, v6>>
    BY <1>3 DEF GrowthCycle!MoneyLands
  <2>2. v4' \in GrowthAccount
    BY <1>0, <2>1, GrowthAssumption DEF GrowthAccount
  <2> QED BY <2>1, <2>2, SameRun DEF GrowthTyped
<1>4. ASSUME NEW t \in Ticker, GrowthCycle!AgentBuys(t) PROVE GrowthTyped'
  <2>1. v4' = [v4 EXCEPT !.cash = @ - 1, !.theirs[t] = @ + 1] /\ UNCHANGED <<v1, v2, v3, v6>>
        /\ GrowthCycle!Max({0, v4.cash - v3.cash}) > 0
    BY <1>4 DEF GrowthCycle!AgentBuys, GrowthCycle!Spendable
  <2>2. v3.cash \in Nat
    BY DEF GrowthTyped, GrowthFence
  <2>3. v4.cash - v3.cash > 0
    <3>1. v4.cash - v3.cash \in Int
      BY <1>0, <2>2
    <3> QED BY <2>1, <3>1, NotBelowZero
  <2>4. v4.cash - 1 \in Nat /\ v4.theirs[t] + 1 \in Nat
    BY <1>0, <2>2, <2>3 DEF GrowthAccount
  <2>5. v4' \in GrowthAccount
    BY <1>0, <2>1, <2>4, AccountMoves
  <2> QED BY <2>1, <2>5, SameRun DEF GrowthTyped
<1>5. ASSUME NEW t \in Ticker, GrowthCycle!AgentSells(t) PROVE GrowthTyped'
  <2>1. /\ v4' = IF v4.theirs[t] > 0 THEN [v4 EXCEPT !.cash = @ + 1, !.theirs[t] = @ - 1]
                                     ELSE [v4 EXCEPT !.cash = @ + 1, !.mine[t] = @ - 1]
        /\ GrowthCycle!Max({0, (v4.theirs[t] + v4.mine[t]) - v3.qty[t]}) > 0
        /\ UNCHANGED <<v1, v2, v3, v6>>
    BY <1>5, SaleOfTheAgent
  <2>2. UNCHANGED <<v1, v2, v3, v6>>
    BY <2>1
  <2>3. v3.qty[t] \in Nat /\ v4.theirs[t] \in Nat /\ v4.mine[t] \in Nat
    BY <1>0 DEF GrowthTyped, GrowthFence, GrowthAccount
  <2>4. (v4.theirs[t] + v4.mine[t]) - v3.qty[t] > 0
    <3>1. (v4.theirs[t] + v4.mine[t]) - v3.qty[t] \in Int
      BY <2>3
    <3> QED BY <2>1, <3>1, NotBelowZero
  <2>5. CASE v4.theirs[t] > 0
    <3>1. v4' = [v4 EXCEPT !.cash = @ + 1, !.theirs[t] = @ - 1]
      BY <2>1, <2>5
    <3>2. v4.cash + 1 \in Nat /\ v4.theirs[t] - 1 \in Nat
      BY <1>0, <2>3, <2>5
    <3>3. v4' \in GrowthAccount
      BY <1>0, <3>1, <3>2, AccountMoves
    <3> QED BY <2>2, <3>3, SameRun DEF GrowthTyped
  <2>6. CASE v4.theirs[t] = 0
    <3>1. v4' = [v4 EXCEPT !.cash = @ + 1, !.mine[t] = @ - 1]
      BY <2>1, <2>6
    <3>2. v4.cash + 1 \in Nat /\ v4.mine[t] - 1 \in Nat
      BY <1>0, <2>3, <2>4, <2>6
    <3>3. v4' \in GrowthAccount
      BY <1>0, <3>1, <3>2, AccountMoves
    <3> QED BY <2>2, <3>3, SameRun DEF GrowthTyped
  <2> QED BY <2>3, <2>5, <2>6
<1> QED BY <1>1, <1>2, <1>3, <1>4, <1>5

LEMMA GrowthTypes ==
  ASSUME GrowthTyped, GrowthCycle!OwedIsPending, NextGrowthCycle
  PROVE  GrowthTyped'
<1>1. GrowthCycle!CycleIsOrderly
  BY DEF GrowthCycle!OwedIsPending
<1> QED BY <1>1, AfterStart, AfterSending, AfterAFill, AfterSettling, AfterFinishing, AfterABreak, AfterTheWorld
     DEF NextGrowthCycle

LEMMA GrowthIsTyped ==
  ASSUME GrowthTyped
  PROVE  GrowthCycle!TypeOK
<1>1. v2 \in [cash : Int, qty : [Ticker -> Nat], booked : BOOLEAN, rebuy : [Ticker -> Nat]]
  BY DEF GrowthTyped, GrowthLedger
<1>2. v3 \in [cash : Nat, qty : [Ticker -> Nat]]
  BY DEF GrowthTyped, GrowthFence
<1>3. v4 \in [cash : Nat, mine : [Ticker -> Nat], theirs : [Ticker -> Nat]]
  BY DEF GrowthTyped, GrowthAccount
<1>4. v1 \in BOOLEAN
  BY DEF GrowthTyped
<1>5. v6.at \in {"idle", "orders", "sent"} /\ (v6.at = "sent") = (v6.order # {})
  BY DEF GrowthTyped, OrderIsOut
<1> QED BY <1>1, <1>2, <1>3, <1>4, <1>5 DEF GrowthCycle!TypeOK

-----------------------------------------------------------------------------
(* The books of the UK growth bot.                                         *)

(* Rows of days that were, no two of one day, kind and note.               *)
Told(rows) ==
  /\ \A f \in rows : f.day \in 1..v2 /\ f.amount \in Int
  /\ \A f, g \in rows : f.day = g.day /\ f.kind = g.kind /\ f.note = g.note => f = g

(* The money is typed because a sale, while it is out, is of shares that   *)
(* the broker and the ledger still have.                                   *)
SaleIsHeld ==
  /\ v8 = "sent" => v10.side \in {"BUY", "SELL"}
  /\ v10.open => v10.side \in {"BUY", "SELL"}
  /\ v8 = "sent" /\ v10.side = "SELL" => v5 > 0
  /\ v10.open /\ v10.side = "SELL" => v7.shares > 0

FundingTyped ==
  /\ v1 \in {"sim", "t212", "ibkr"} /\ v2 \in 1..MaxDays /\ v3 \in BOOLEAN
  /\ Told(v4) /\ v5 \in Nat /\ v6 \subseteq {"opened", "funded"} /\ v9 \in Int
  /\ v7.cash \in Nat /\ v7.shares \in Nat
  /\ v7.paidIn \subseteq 1..v2 /\ v7.ex \subseteq 1..v2 /\ v7.paid \subseteq 1..v2
  /\ v8 \in {"idle", "record", "funded", "trade", "sent"}
  /\ SaleIsHeld

LEMMA FundingIsTyped == FundingTyped => UkFunding!TypeOK
<1> SUFFICES ASSUME FundingTyped PROVE UkFunding!TypeOK
  OBVIOUS
<1>1. v2 \in Nat /\ MaxDays \in Nat /\ v2 <= MaxDays
  BY BoundsAssumption DEF FundingTyped
<1>2. \A f \in v4 : f.day \in 1..MaxDays /\ f.amount \in Int
  BY <1>1 DEF FundingTyped, Told
<1>3. v8 = "sent" => v10 # UkFunding!NoOrder
  BY DEF FundingTyped, SaleIsHeld, UkFunding!NoOrder
<1> QED BY <1>2, <1>3 DEF FundingTyped, Told, UkFunding!TypeOK

LEMMA FundingTypesInit == UkFunding!Init => FundingTyped
<1> SUFFICES ASSUME UkFunding!Init PROVE FundingTyped
  OBVIOUS
<1>1. v10.side = "none" /\ v10.open = FALSE
  BY DEF UkFunding!Init, UkFunding!NoOrder
<1>2. PICK n \in Nat :
        v7 = [cash |-> n, shares |-> 0, old |-> n, paidIn |-> {}, ex |-> {}, paid |-> {}]
  <2>1. (IF v1 = "t212" THEN 0..OldMoney ELSE {0}) \subseteq Nat
    BY FundingAssumption
  <2>2. PICK old \in IF v1 = "t212" THEN 0..OldMoney ELSE {0} :
          v7 = [cash |-> old, shares |-> 0, old |-> old, paidIn |-> {}, ex |-> {}, paid |-> {}]
    BY DEF UkFunding!Init
  <2> QED BY <2>1, <2>2
<1>3. v8 = "idle" /\ v4 = {} /\ v2 = 1 /\ v3 = FALSE /\ v5 = 0 /\ v6 = {} /\ v9 = 0
  BY DEF UkFunding!Init
<1>4. v1 \in {"sim", "t212", "ibkr"}
  BY FundingAssumption DEF UkFunding!Init
<1>5. SaleIsHeld
  BY <1>1, <1>3 DEF SaleIsHeld
<1>6. Told(v4)
  BY <1>3 DEF Told
<1>7. v2 \in 1..MaxDays
  BY <1>3, BoundsAssumption
<1>8. /\ v7.cash \in Nat /\ v7.shares \in Nat
      /\ v7.paidIn \subseteq 1..v2 /\ v7.ex \subseteq 1..v2 /\ v7.paid \subseteq 1..v2
  BY <1>2
<1>9. v3 \in BOOLEAN
  BY <1>3
<1> QED BY <1>3, <1>4, <1>5, <1>6, <1>7, <1>8, <1>9 DEF FundingTyped

LEMMA InsertedTold ==
  ASSUME NEW rows, NEW new, Told(rows), Told(new)
  PROVE  Told(UkFunding!Insert(rows, new))
<1> DEFINE all == UkFunding!Insert(rows, new)
<1>1. \A f \in all : f \in rows \/ (f \in new /\ ~\E g \in rows : g.day = f.day /\ g.kind = f.kind /\ g.note = f.note)
  BY DEF UkFunding!Insert
<1> HIDE DEF all
<1>2. \A f \in all : f.day \in 1..v2 /\ f.amount \in Int
  BY <1>1 DEF Told
<1>3. ASSUME NEW f \in all, NEW g \in all, f.day = g.day, f.kind = g.kind, f.note = g.note
      PROVE  f = g
  BY <1>1, <1>3 DEF Told
<1>4. Told(all)
  BY <1>2, <1>3 DEF Told
<1> QED BY <1>4 DEF all

LEMMA UnitsTold ==
  ASSUME NEW D \in SUBSET (1..v2), NEW kind, NEW note
  PROVE  Told(UnitRows(D, kind, note)) /\ \A f \in UnitRows(D, kind, note) : f.note = note
<1>1. \A f \in UnitRows(D, kind, note) :
        \E d \in D : f = [day |-> d, kind |-> kind, note |-> note, amount |-> 1]
  BY DEF UnitRows, UkFunding!Flow
<1>2. \A f \in UnitRows(D, kind, note) :
        f.day \in D /\ f.kind = kind /\ f.note = note /\ f.amount = 1
        /\ f = [day |-> f.day, kind |-> kind, note |-> note, amount |-> 1]
  BY <1>1
<1> HIDE DEF UnitRows
<1>3. \A f \in UnitRows(D, kind, note) : f.day \in 1..v2 /\ f.amount \in Int
  BY <1>2
<1>4. ASSUME NEW f \in UnitRows(D, kind, note), NEW g \in UnitRows(D, kind, note), f.day = g.day
      PROVE  f = g
  BY <1>2, <1>4
<1> QED BY <1>2, <1>3, <1>4 DEF Told

LEMMA RowTold ==
  ASSUME NEW kind, NEW note, NEW n \in Int, v2 \in Nat \ {0}
  PROVE  Told({UkFunding!Flow(v2, kind, note, n)}) /\ Told({})
         /\ \A f \in {UkFunding!Flow(v2, kind, note, n)} : f.note = note
  BY DEF Told, UkFunding!Flow

LEMMA BothTold ==
  ASSUME NEW R, NEW S, Told(R), Told(S), \A f \in R, g \in S : f.note # g.note
  PROVE  Told(R \cup S)
  BY DEF Told

LEMMA DividendsTold ==
  ASSUME FundingTyped
  PROVE  /\ Told(UkFunding!ExDividends) /\ \A f \in UkFunding!ExDividends : f.note = "ex"
         /\ Told(UkFunding!Deposits) /\ \A f \in UkFunding!Deposits : f.note = "ref"
         /\ Told(UkFunding!PaidDividends) /\ \A f \in UkFunding!PaidDividends : f.note = "paid"
<1>1. v7.ex \in SUBSET (1..v2) /\ v7.paidIn \in SUBSET (1..v2) /\ v7.paid \in SUBSET (1..v2)
  BY DEF FundingTyped
<1>2. Told({})
  BY DEF Told
<1>3. /\ Told(UnitRows(v7.ex, "dividend", "ex"))
      /\ \A f \in UnitRows(v7.ex, "dividend", "ex") : f.note = "ex"
  BY <1>1, UnitsTold
<1>4. /\ Told(UnitRows(v7.paidIn, "contribution", "ref"))
      /\ \A f \in UnitRows(v7.paidIn, "contribution", "ref") : f.note = "ref"
  BY <1>1, UnitsTold
<1>5. /\ Told(UnitRows(v7.paid, "dividend", "paid"))
      /\ \A f \in UnitRows(v7.paid, "dividend", "paid") : f.note = "paid"
  BY <1>1, UnitsTold
<1>6. UkFunding!ExDividends = IF v5 > 0 THEN UnitRows(v7.ex, "dividend", "ex") ELSE {}
  BY DEF UkFunding!ExDividends, UnitRows
<1>7. /\ UkFunding!Deposits = UnitRows(v7.paidIn, "contribution", "ref")
      /\ UkFunding!PaidDividends = UnitRows(v7.paid, "dividend", "paid")
  BY DEF UkFunding!Deposits, UkFunding!PaidDividends, UnitRows
<1>8. Told(UkFunding!ExDividends) /\ \A f \in UkFunding!ExDividends : f.note = "ex"
  BY <1>2, <1>3, <1>6
<1> QED BY <1>4, <1>5, <1>7, <1>8

(* Recording leaves all but the rows, the marks and the purse.             *)
LEMMA RecordTyped ==
  ASSUME FundingTyped, v8 = "record", v8' \in {"trade", "funded"}, Told(v4'), v9' \in Int,
         UNCHANGED <<v1, v2, v3, v5, v7, v10>>, v6' \subseteq {"opened", "funded"}
  PROVE  FundingTyped'
  BY DEF FundingTyped, SaleIsHeld, Told
LEMMA SimulatedTyped ==
  ASSUME FundingTyped, UkFunding!RecordSimulated
  PROVE  FundingTyped'
<1> DEFINE a == {UkFunding!Flow(v2, "contribution", "monthly", 1)}
           b == IF "funded" \in v6 THEN {} ELSE {UkFunding!Flow(v2, "contribution", "initial", 1)}
<1>1. v2 \in Nat \ {0} /\ Told(v4)
  BY DEF FundingTyped
<1>2. /\ Told(a) /\ Told(b)
      /\ \A f \in a : f.note = "monthly"
      /\ \A f \in b : f.note = "initial"
  BY <1>1, RowTold
<1>3. v4' = UkFunding!Insert(v4, a \cup b)
  BY DEF UkFunding!RecordSimulated, UkFunding!Simulated
<1> HIDE DEF a, b
<1>4. Told(a \cup b)
  BY <1>2, BothTold
<1>5. Told(v4')
  BY <1>1, <1>3, <1>4, InsertedTold
<1>6. /\ v8 = "record" /\ v8' = "funded" /\ UNCHANGED <<v1, v2, v3, v5, v6, v7, v9, v10>>
  BY DEF UkFunding!RecordSimulated
<1>7. v9' \in Int /\ v6' \subseteq {"opened", "funded"}
  BY <1>6 DEF FundingTyped
<1> QED BY <1>5, <1>6, <1>7, RecordTyped

LEMMA SmallerIsInt ==
  ASSUME NEW a \in Int, NEW b \in Int
  PROVE  UkFunding!Min({a, b}) \in Int
<1>1. \E x \in {a, b} : \A y \in {a, b} : x <= y
  <2>1. CASE a <= b
    BY <2>1
  <2>2. CASE b <= a
    BY <2>2
  <2> QED BY <2>1, <2>2
<1>2. UkFunding!Min({a, b}) \in {a, b}
  BY <1>1 DEF UkFunding!Min
<1> QED BY <1>2

LEMMA CashIsCounted ==
  ASSUME FundingTyped, NEW rows, Dated(rows)
  PROVE  UkFunding!CashOf(rows) \in Int
<1>1. UkFunding!Amounts(rows) \in Int
  BY AmountsOfDated
<1> QED BY <1>1 DEF UkFunding!CashOf, FundingTyped

LEMMA PurseTyped ==
  ASSUME FundingTyped, NEW rows, Dated(rows), NEW readable \in BOOLEAN
  PROVE  UkFunding!Purse(rows, readable) \in Int
<1>1. UkFunding!CashOf(rows) \in Int /\ v7.cash \in Int
  BY CashIsCounted DEF FundingTyped
<1>2. UkFunding!Min({UkFunding!CashOf(rows), v7.cash}) \in Int
  BY <1>1, SmallerIsInt
<1> QED BY <1>2 DEF UkFunding!Purse

LEMMA IbkrTyped ==
  ASSUME FundingTyped, UkFunding!FundingInv, UkFunding!RecordIbkr
  PROVE  FundingTyped'
<1>1. PICK cashRead \in BOOLEAN, again \in BOOLEAN :
        /\ v4' = UkFunding!Reconciled(cashRead)
        /\ v9' = UkFunding!Purse(UkFunding!Reconciled(cashRead), again)
  BY DEF UkFunding!RecordIbkr
<1>2. v8 = "record" /\ v8' = "trade" /\ v1 = "ibkr" /\ UNCHANGED <<v1, v2, v3, v5, v6, v7, v10>>
  BY DEF UkFunding!RecordIbkr
<1>3. Dated(UkFunding!Reconciled(cashRead))
  BY <1>2, DifferenceIsBooked DEF UkFunding!FundingInv
<1>4. v9' \in Int
  BY <1>1, <1>3, PurseTyped
<1> DEFINE rows == UkFunding!Insert(v4, UkFunding!ExDividends)
           diff == v7.cash - UkFunding!CashOf(rows)
           kind == IF diff > 0 THEN "contribution" ELSE "withdrawal"
           row == UkFunding!Flow(v2, kind, "reconciled", diff)
<1>5. Told(rows)
  BY DividendsTold, InsertedTold DEF FundingTyped
<1>6. Dated(rows)
  BY LedgerIsDated, ExDated, RowsTogether DEF UkFunding!FundingInv
<1>7. diff \in Int
  <2>1. UkFunding!CashOf(rows) \in Int /\ v7.cash \in Int
    BY <1>6, CashIsCounted DEF FundingTyped
  <2> QED BY <2>1
<1>8. UkFunding!Reconciled(cashRead) =
        UkFunding!Insert(rows, IF cashRead /\ diff # 0 THEN {row} ELSE {})
  BY DEF UkFunding!Reconciled
<1>9. Told({row}) /\ Told({})
  <2>1. v2 \in Nat \ {0}
    BY DEF FundingTyped
  <2> HIDE DEF diff, kind
  <2> QED BY <1>7, <2>1, RowTold
<1> HIDE DEF rows, diff, row
<1>10. Told(v4')
  BY <1>1, <1>5, <1>8, <1>9, InsertedTold
<1>11. v6' \subseteq {"opened", "funded"}
  BY <1>2 DEF FundingTyped
<1> QED BY <1>2, <1>4, <1>10, <1>11, RecordTyped

LEMMA T212Typed ==
  ASSUME FundingTyped, UkFunding!FundingInv, UkFunding!RecordT212
  PROVE  FundingTyped'
<1>1. PICK listRead \in BOOLEAN, cashRead \in BOOLEAN, again \in BOOLEAN :
        /\ v4' = UkFunding!Listed(listRead)
                   \cup UkFunding!Opening(UkFunding!Listed(listRead), cashRead)
        /\ v9' = UkFunding!Purse(UkFunding!Listed(listRead)
                   \cup UkFunding!Opening(UkFunding!Listed(listRead), cashRead), again)
  BY DEF UkFunding!RecordT212
<1>2. /\ v8 = "record" /\ v8' = "trade" /\ v1 = "t212" /\ v6' = v6 \cup {"opened"}
      /\ UNCHANGED <<v1, v2, v3, v5, v7, v10>>
  BY DEF UkFunding!RecordT212
<1>3. Dated(v4')
  <2>1. UkFunding!FundingInv'
    BY T212Funds
  <2>2. UkFunding!LedgerInOrder'
    BY <2>1 DEF UkFunding!FundingInv
  <2>3. UkFunding!IsFiniteSet(v4') /\ \A f \in v4' : f.amount \in Int /\ f.day \in 0..v2'
    BY <2>2 DEF UkFunding!LedgerInOrder
  <2> QED BY <1>2, <2>3, RowsCounted DEF Dated
<1> DEFINE rows == UkFunding!Listed(listRead)
           first == UkFunding!Opening(rows, cashRead)
           left == v7.cash - UkFunding!CashOf(rows)
           row == UkFunding!Flow(v2, "contribution", "opening", left)
<1>4. v9' \in Int
  <2>1. v9' = UkFunding!Purse(v4', again)
    BY <1>1
  <2>2. Dated(rows \cup first)
    BY <1>1, <1>3
  <2>3. UkFunding!Purse(rows \cup first, again) \in Int
    BY <2>2, PurseTyped
  <2> QED BY <1>1, <2>3
<1>5. Told(UkFunding!Deposits \cup UkFunding!PaidDividends)
  BY DividendsTold, BothTold
<1>6. Told(rows)
  BY <1>5, InsertedTold DEF UkFunding!Listed, FundingTyped
<1>7. Told(v4')
  <2>1. CASE "opened" \in v6
    BY <1>1, <1>6, <2>1 DEF UkFunding!Opening
  <2>2. CASE "opened" \notin v6
    <3>1. v4 = {}
      BY <1>2, <2>2 DEF UkFunding!FundingInv, UkFunding!IdleUntilOpened
    <3>2. \A f \in rows : f.note # "opening"
      <4>1. \A f \in UkFunding!Deposits \cup UkFunding!PaidDividends : f.note # "opening"
        BY DividendsTold
      <4> QED BY <3>1, <4>1 DEF UkFunding!Listed, UkFunding!Insert
    <3>3. left \in Int
      <4>1. Dated(rows)
        <5>1. \A S : S \subseteq v4' /\ Dated(v4') => Dated(S)
          BY FS_Subset DEF Dated
        <5> QED BY <1>1, <1>3, <5>1
      <4>2. UkFunding!CashOf(rows) \in Int /\ v7.cash \in Int
        BY <4>1, CashIsCounted DEF FundingTyped
      <4> QED BY <4>2
    <3>4. first = IF "opened" \notin v6 /\ cashRead /\ v5 = 0 /\ v7.cash > UkFunding!CashOf(rows)
                  THEN {row} ELSE {}
      BY DEF UkFunding!Opening
    <3>5. Told({row}) /\ Told({}) /\ row.note = "opening"
      <4>1. v2 \in Nat \ {0}
        BY DEF FundingTyped
      <4> HIDE DEF left
      <4> QED BY <3>3, <4>1, RowTold DEF UkFunding!Flow
    <3> HIDE DEF rows, first, left, row
    <3>6. Told(first) /\ \A f \in first : f.note = "opening"
      BY <3>4, <3>5
    <3>7. Told(rows \cup first)
      BY <1>6, <3>2, <3>6, BothTold
    <3> QED BY <1>1, <3>7 DEF rows, first
  <2> QED BY <2>1, <2>2
<1>8. v6' \subseteq {"opened", "funded"}
  BY <1>2 DEF FundingTyped
<1> QED BY <1>2, <1>4, <1>7, <1>8, RecordTyped

LEMMA BooksRead ==
  ASSUME FundingTyped, UkFunding!FundingInv, UkFunding!MarkFunded
  PROVE  FundingTyped'
<1>1. v9' \in Int
  <2>1. Dated(v4)
    BY LedgerIsDated DEF UkFunding!FundingInv
  <2>2. UkFunding!CashOf(v4) \in Int
    BY <2>1, CashIsCounted
  <2> QED BY <2>2 DEF UkFunding!MarkFunded, UkFunding!LedgerCash
<1>2. /\ v8' = "trade" /\ v6' = v6 \cup {"funded"} /\ v8 = "funded"
      /\ UNCHANGED <<v1, v2, v3, v4, v5, v7, v10>>
  BY DEF UkFunding!MarkFunded
<1> QED BY <1>1, <1>2 DEF FundingTyped, SaleIsHeld, Told

LEMMA OrdersTyped ==
  ASSUME FundingTyped, UkFunding!FundingInv,
         \/ UkFunding!SendBuy \/ UkFunding!SendSell \/ UkFunding!Rejected
         \/ UkFunding!Answered \/ UkFunding!Unanswered
  PROVE  FundingTyped'
<1>1. v10 \in [side : {"none", "BUY", "SELL"}, open : BOOLEAN, filled : BOOLEAN]
  BY DEF UkFunding!FundingInv, UkFunding!CycleInOrder
<1>2. UNCHANGED <<v1, v2, v3, v4, v6, v7>> /\ v8' \in {"trade", "sent", v8}
  BY DEF UkFunding!SendBuy, UkFunding!SendSell, UkFunding!Rejected, UkFunding!Answered, UkFunding!Unanswered
<1>3. v9' \in Int
  BY DEF UkFunding!SendBuy, UkFunding!SendSell, UkFunding!Rejected, UkFunding!Answered,
         UkFunding!Unanswered, FundingTyped
<1>4. v5' \in Nat
  BY DEF UkFunding!SendBuy, UkFunding!SendSell, UkFunding!Rejected, UkFunding!Answered,
         UkFunding!Unanswered, FundingTyped, SaleIsHeld
<1>5. SaleIsHeld'
  <2> USE <1>1, <1>2 DEF FundingTyped, SaleIsHeld, UkFunding!NoOrder
  <2>1. CASE UkFunding!SendBuy
    BY <2>1 DEF UkFunding!SendBuy
  <2>2. CASE UkFunding!SendSell
    BY <2>2 DEF UkFunding!SendSell
  <2>3. CASE UkFunding!Rejected
    BY <2>3 DEF UkFunding!Rejected
  <2>4. CASE UkFunding!Answered
    BY <2>4 DEF UkFunding!Answered
  <2>5. CASE UkFunding!Unanswered
    BY <2>5 DEF UkFunding!Unanswered
  <2> QED BY <2>1, <2>2, <2>3, <2>4, <2>5
<1> QED BY <1>2, <1>3, <1>4, <1>5 DEF FundingTyped, Told

LEMMA FillTyped ==
  ASSUME FundingTyped, UkFunding!FundingInv, UkFunding!Fills
  PROVE  FundingTyped'
<1>1. /\ v10 \in [side : {"none", "BUY", "SELL"}, open : BOOLEAN, filled : BOOLEAN]
      /\ v7 \in Bank(v2)
  BY DEF UkFunding!FundingInv, UkFunding!CycleInOrder, UkFunding!BankAddsUp, Bank
<1>2. v10.open /\ UNCHANGED <<v1, v2, v3, v4, v5, v6, v8, v9>>
  BY DEF UkFunding!Fills
<1>3. v10.side \in {"BUY", "SELL"} /\ (v10.side = "SELL" => v7.shares > 0)
      /\ v7.cash \in Nat /\ v7.shares \in Nat
  BY <1>2 DEF FundingTyped, SaleIsHeld
<1>4. ~v10'.open /\ (v8 = "sent" => v10'.side = v10.side)
  <2>1. v10' \in {[v10 EXCEPT !.open = FALSE, !.filled = TRUE], UkFunding!NoOrder}
        /\ (v8 = "sent" => v10' = [v10 EXCEPT !.open = FALSE, !.filled = TRUE])
    BY DEF UkFunding!Fills
  <2>2. v10'.open = FALSE
    <3>1. CASE v10' = UkFunding!NoOrder
      BY <3>1 DEF UkFunding!NoOrder
    <3>2. CASE v10' = [v10 EXCEPT !.open = FALSE, !.filled = TRUE]
      <4>1. "open" \in DOMAIN v10 /\ "open" # "filled"
        BY <1>1
      <4> QED BY <3>2, <4>1, Zenon
    <3> QED BY <2>1, <3>1, <3>2
  <2>3. v8 = "sent" => v10'.side = v10.side
    BY <1>1, <2>1
  <2> QED BY <2>2, <2>3
<1>5. /\ v7'.cash \in Nat /\ v7'.shares \in Nat
      /\ v7'.paidIn = v7.paidIn /\ v7'.ex = v7.ex /\ v7'.paid = v7.paid
  <2> USE <1>1, <1>3 DEF Bank
  <2>1. CASE v1 = "sim"
    BY <2>1 DEF UkFunding!Fills
  <2>2. CASE v1 # "sim" /\ v10.side = "BUY"
    <3>1. v7.cash > 0 /\ v7' = [v7 EXCEPT !.cash = @ - 1, !.shares = @ + 1]
      BY <2>2 DEF UkFunding!Fills
    <3> QED BY <3>1
  <2>3. CASE v1 # "sim" /\ v10.side # "BUY"
    <3>1. v7' = [v7 EXCEPT !.cash = @ + 1, !.shares = @ - 1]
      BY <2>3 DEF UkFunding!Fills
    <3> QED BY <2>3, <3>1
  <2> QED BY <2>1, <2>2, <2>3
<1>6. SaleIsHeld'
  BY <1>2, <1>4 DEF FundingTyped, SaleIsHeld
<1> QED BY <1>2, <1>5, <1>6 DEF FundingTyped, Told

LEMMA CycleTyped ==
  ASSUME FundingTyped, UkFunding!FundingInv,
         UkFunding!StartCycle \/ UkFunding!SkipCycle \/ UkFunding!EndCycle \/ UkFunding!Dies
  PROVE  FundingTyped'
<1>1. /\ UNCHANGED <<v1, v2, v4, v5, v6, v7>> /\ v3' \in BOOLEAN
      /\ v9' \in Int /\ v8' \in {"idle", "record"}
  <2> USE DEF UkFunding!StartCycle, UkFunding!SkipCycle, UkFunding!EndCycle, UkFunding!Dies
  <2>1. UNCHANGED <<v1, v2, v4, v5, v6, v7>> /\ v8' \in {"idle", "record"}
    OBVIOUS
  <2>2. v3' = v3 \/ v3' = TRUE
    OBVIOUS
  <2>3. v9' = v9 \/ v9' = 0
    OBVIOUS
  <2>4. v3 \in BOOLEAN /\ v9 \in Int
    BY DEF FundingTyped
  <2>5. v3' \in BOOLEAN
    BY <2>2, <2>4
  <2>6. v9' \in Int
    BY <2>3, <2>4
  <2> QED BY <2>1, <2>5, <2>6
<1>2. v10' = v10 \/ v10' = UkFunding!NoOrder
  BY DEF UkFunding!StartCycle, UkFunding!SkipCycle, UkFunding!EndCycle, UkFunding!Dies
<1>3. SaleIsHeld'
  BY <1>1, <1>2 DEF FundingTyped, SaleIsHeld, UkFunding!NoOrder
<1> QED BY <1>1, <1>3 DEF FundingTyped, Told

LEMMA WorldTyped ==
  ASSUME FundingTyped, UkFunding!FundingInv,
         UkFunding!NextDay \/ UkFunding!Deposit \/ UkFunding!GoesEx \/ UkFunding!DividendPaid
  PROVE  FundingTyped'
<1>1. /\ UNCHANGED <<v1, v4, v5, v6, v8, v9, v10>> /\ v3' \in BOOLEAN
      /\ v2 \in Nat /\ v2' \in {v2, v2 + 1} /\ v2' \in 1..MaxDays
  <2> USE DEF UkFunding!NextDay, UkFunding!Deposit, UkFunding!GoesEx, UkFunding!DividendPaid
  <2>1. UNCHANGED <<v1, v4, v5, v6, v8, v9, v10>>
    OBVIOUS
  <2>2. v3' = v3 \/ v3' = FALSE
    OBVIOUS
  <2>3. v2' = v2 \/ (v2' = v2 + 1 /\ v2 < MaxDays)
    OBVIOUS
  <2>4. v3 \in BOOLEAN /\ v2 \in 1..MaxDays
    BY DEF FundingTyped
  <2>5. v3' \in BOOLEAN
    BY <2>2, <2>4
  <2>6. v2 \in Nat /\ v2' \in {v2, v2 + 1} /\ v2' \in 1..MaxDays
    BY <2>3, <2>4, BoundsAssumption
  <2> QED BY <2>1, <2>5, <2>6
<1>2. v7 \in Bank(v2) /\ v2 \in 1..v2 /\ v7.cash \in Nat /\ v7.shares \in Nat
  BY DEF UkFunding!FundingInv, UkFunding!BankAddsUp, Bank, FundingTyped
<1>3. /\ v7'.cash \in Nat /\ v7'.shares = v7.shares
      /\ v7'.paidIn \subseteq 1..v2 /\ v7'.ex \subseteq 1..v2 /\ v7'.paid \subseteq 1..v2
  <2> USE <1>2 DEF Bank, FundingTyped
  <2>1. CASE UkFunding!NextDay
    BY <2>1 DEF UkFunding!NextDay
  <2>2. CASE UkFunding!Deposit
    <3>1. v7' = [v7 EXCEPT !.paidIn = @ \cup {v2}, !.cash = @ + 1]
      BY <2>2 DEF UkFunding!Deposit
    <3> QED BY <3>1
  <2>3. CASE UkFunding!GoesEx
    <3>1. v7' = [v7 EXCEPT !.ex = {v2}]
      BY <2>3 DEF UkFunding!GoesEx
    <3> QED BY <3>1
  <2>4. CASE UkFunding!DividendPaid
    <3>1. v7' = [v7 EXCEPT !.paid = {v2}, !.cash = @ + 1]
      BY <2>4 DEF UkFunding!DividendPaid
    <3> QED BY <3>1
  <2> QED BY <2>1, <2>2, <2>3, <2>4
<1>4. 1..v2 \subseteq 1..v2'
  BY <1>1
<1>5. Told(v4)'
  BY <1>1, <1>4 DEF FundingTyped, Told
<1>6. SaleIsHeld'
  BY <1>1, <1>3 DEF FundingTyped, SaleIsHeld
<1> QED BY <1>1, <1>2, <1>3, <1>4, <1>5, <1>6 DEF FundingTyped

LEMMA FundingTypes ==
  ASSUME FundingTyped, UkFunding!FundingInv, NextUkFunding
  PROVE  FundingTyped'
  BY SimulatedTyped, IbkrTyped, T212Typed, BooksRead, OrdersTyped, FillTyped, CycleTyped,
     WorldTyped DEF NextUkFunding

-----------------------------------------------------------------------------
(* The decision engine: a balance may fall below zero, holdings cannot.    *)

SyncedBook == [units : [Symbols -> Nat], cost : [Symbols -> Nat], value : [Symbols -> Nat],
               funds : Int, nav : Int]

SizesTyped ==
  /\ v3 \in SyncedBook
  /\ v8 \in [Symbols -> Nat] /\ v9 \in [Symbols -> Nat] /\ v11 \in [Symbols -> Nat]
  /\ v4 \subseteq Symbols /\ v6 \subseteq Symbols /\ v7 \in BOOLEAN
  /\ v12 \in 0..MaxDecisions /\ v13 \in 0..MaxSyncs

LEMMA SizesAreTyped == SizesTyped /\ Sizing!Figures => Sizing!TypeOK
  BY DEF SizesTyped, SyncedBook, Sizing!Figures, Sizing!TypeOK

LEMMA SizesTypedInit == Sizing!Init => SizesTyped
<1> SUFFICES ASSUME Sizing!Init PROVE SizesTyped
  OBVIOUS
<1>1. Sizing!Zero \in [Symbols -> Nat]
  BY DEF Sizing!Zero
<1>2. v3 \in SyncedBook
  BY <1>1, SizingAssumption DEF Sizing!Init, SyncedBook
<1>3. v12 \in 0..MaxDecisions /\ v13 \in 0..MaxSyncs
  BY BoundsAssumption DEF Sizing!Init
<1> QED BY <1>1, <1>2, <1>3 DEF Sizing!Init, SizesTyped

LEMMA ProductIsNatural ==
  ASSUME NEW m \in Nat, NEW n \in Nat
  PROVE  m * n \in Nat
  OBVIOUS

LEMMA QuotientIsNatural ==
  ASSUME NEW m \in Nat, NEW d \in Nat \ {0}
  PROVE  m \div d \in Nat
  OBVIOUS

LEMMA AverageIsNatural ==
  ASSUME NEW n \in Nat, NEW c \in Nat, NEW q \in Nat \ {0}, NEW p \in Nat
  PROVE  (n * c + q * p) \div (n + q) \in Nat
<1> DEFINE m == n * c + q * p
           d == n + q
<1>1. m \in Nat /\ d \in Nat \ {0}
  OBVIOUS
<1> HIDE DEF m, d
<1>2. m \div d \in Nat
  BY <1>1
<1> QED BY <1>2 DEF m, d

LEMMA QuoteIsNatural ==
  ASSUME Sizing!Figures, NEW s \in Symbols
  PROVE  v2[s] \in Nat
  BY SizingAssumption DEF Sizing!Figures

(* An accepted purchase, simulated or live.                                *)
LEMMA OrderedTyped ==
  ASSUME SizesTyped, Sizing!Figures, NEW s \in Symbols, NEW q \in Nat \ {0}, Sizing!Ordered(s, q),
         UNCHANGED <<v1, v6, v7, v13>>, v4' \subseteq v4
  PROVE  SizesTyped'
<1>1. v12' \in 0..MaxDecisions
  BY BoundsAssumption DEF Sizing!Ordered, SizesTyped
<1>2. v2[s] \in Nat
  BY QuoteIsNatural
<1>3. CASE ~Sizing!isSimulated
  <2>1. UNCHANGED <<v3, v8, v9>> /\ v11' = [v11 EXCEPT ![s] = @ + q]
    BY <1>3 DEF Sizing!Ordered, Sizing!Entered
  <2>2. v11' \in [Symbols -> Nat]
    BY <2>1 DEF SizesTyped
  <2> QED BY <1>1, <2>1, <2>2 DEF SizesTyped
<1>4. CASE Sizing!isSimulated
  <2> DEFINE units == v3.units[s] + q
             c == (v3.units[s] * v3.cost[s] + q * v2[s]) \div units
             w == units * v2[s]
             f == v3.funds - q * v2[s]
  <2>1. v3' = [v3 EXCEPT !.units[s] = units, !.cost[s] = c, !.value[s] = w, !.funds = f]
    BY <1>4 DEF Sizing!Ordered, Sizing!Entered
  <2>2. v8' = [v8 EXCEPT ![s] = @ + q] /\ v9' = v3'.cost /\ v11' = v11
    BY <1>4 DEF Sizing!Ordered
  <2>3. v3.units[s] \in Nat /\ v3.cost[s] \in Nat /\ v3.funds \in Int
    BY DEF SizesTyped, SyncedBook
  <2>4. units \in Nat
    BY <2>3
  <2>a. c \in Nat
    BY <1>2, <2>3, AverageIsNatural
  <2>b. w \in Nat
    BY <1>2, <2>4, ProductIsNatural
  <2>c. q * v2[s] \in Nat
    BY <1>2, ProductIsNatural
  <2>d. f \in Int
    BY <2>3, <2>c
  <2> HIDE DEF units, c, w, f
  <2>5. v3' \in SyncedBook
    <3>1. v3 \in SyncedBook
      BY DEF SizesTyped
    <3> QED BY <2>1, <2>4, <2>a, <2>b, <2>d, <3>1 DEF SyncedBook
  <2>6. v9' \in [Symbols -> Nat]
    BY <2>2, <2>5 DEF SyncedBook
  <2>7. v8' \in [Symbols -> Nat]
    BY <2>2 DEF SizesTyped
  <2> QED BY <1>1, <2>2, <2>5, <2>6, <2>7 DEF SizesTyped
<1> QED BY <1>3, <1>4

LEMMA BuysTyped ==
  ASSUME SizesTyped, Sizing!Figures, NEW s \in Symbols, Sizing!Buy(s)
  PROVE  SizesTyped'
<1>1. PICK atr \in Atr :
        /\ Sizing!Visits(s) /\ Sizing!MayBuy(s, atr)
        /\ Sizing!Ordered(s, Sizing!BuyQuantity(v2[s], atr))
        /\ UNCHANGED <<v1, v13, v2, v6, v7, v16>>
  BY DEF Sizing!Buy
<1>2. v2[s] \in Quote /\ Nav \in Int /\ Sizing!BuyQuantity(v2[s], atr) > 0
  BY <1>1 DEF Sizing!Figures, Sizing!MayBuy, Nav
<1>3. Sizing!BuyQuantity(v2[s], atr) \in Nat \ {0}
  BY <1>2, PurchaseFits
<1>4. v4' \subseteq v4 /\ UNCHANGED <<v1, v6, v7, v13>>
  BY <1>1 DEF Sizing!Visits
<1> HIDE DEF Sizing!BuyQuantity
<1> QED BY <1>1, <1>3, <1>4, OrderedTyped

LEMMA AddsTyped ==
  ASSUME SizesTyped, Sizing!Figures, NEW s \in Symbols, Sizing!PyramidAdd(s)
  PROVE  SizesTyped'
<1>1. PICK atr \in Atr :
        /\ Sizing!Visits(s) /\ Sizing!AddQuantity(s, v2[s], atr) > 0
        /\ Sizing!Ordered(s, Sizing!AddQuantity(s, v2[s], atr))
        /\ v8[s] > 0
        /\ UNCHANGED <<v1, v13, v2, v6, v7, v14, v15, v17>>
  BY DEF Sizing!PyramidAdd
<1>2. v2[s] \in Quote /\ Nav \in Int /\ v8[s] \in Int /\ v5[s] \in Nat
  BY <1>1 DEF Sizing!Figures, Nav
<1>3. Sizing!AddQuantity(s, v2[s], atr) \in Nat \ {0}
  BY <1>1, <1>2, AddFits
<1>4. v4' \subseteq v4 /\ UNCHANGED <<v1, v6, v7, v13>>
  BY <1>1 DEF Sizing!Visits
<1> QED BY <1>1, <1>3, <1>4, OrderedTyped

LEMMA GoneTyped ==
  ASSUME SizesTyped, Sizing!Figures, NEW s \in Symbols, Sizing!Gone(s)
  PROVE  v3' \in SyncedBook /\ v8' \in [Symbols -> Nat] /\ v9' \in [Symbols -> Nat]
<1>1. v8' \in [Symbols -> Nat] /\ v9' \in [Symbols -> Nat]
  BY DEF Sizing!Gone, SizesTyped
<1>2. v3 \in SyncedBook
  BY DEF SizesTyped
<1>3. v3' \in SyncedBook
  <2>1. CASE ~Sizing!isSimulated
    BY <1>2, <2>1 DEF Sizing!Gone, Sizing!Removed
  <2>2. CASE Sizing!isSimulated
    <3> DEFINE f == v3.funds + v3.units[s] * v2[s]
    <3>1. v3' = [v3 EXCEPT !.units[s] = 0, !.cost[s] = 0, !.value[s] = 0, !.funds = f]
      BY <2>2 DEF Sizing!Gone, Sizing!Removed
    <3>2. f \in Int
      BY <1>2, QuoteIsNatural DEF SyncedBook
    <3> HIDE DEF f
    <3> QED BY <1>2, <3>1, <3>2 DEF SyncedBook
  <2> QED BY <2>1, <2>2
<1> QED BY <1>1, <1>3

LEMMA SellsTyped ==
  ASSUME SizesTyped, Sizing!Figures, NEW s \in Symbols,
         Sizing!Sell(s) \/ Sizing!StopExit(s)
  PROVE  SizesTyped'
<1>1. Sizing!Gone(s) \/ UNCHANGED <<v3, v8, v9>>
  BY DEF Sizing!Sell, Sizing!StopExit
<1>2. v3' \in SyncedBook /\ v8' \in [Symbols -> Nat] /\ v9' \in [Symbols -> Nat]
  BY <1>1, GoneTyped DEF SizesTyped
<1>3. v4' \subseteq v4 /\ v6' = v6 \cup {s} /\ UNCHANGED <<v7, v11, v12, v13>>
  BY DEF Sizing!Sell, Sizing!StopExit, Sizing!Visits
<1> QED BY <1>2, <1>3 DEF SizesTyped

LEMMA IdleTyped ==
  ASSUME SizesTyped, NEW s \in Symbols,
         Sizing!SellRefused(s) \/ Sizing!Hold(s) \/ Sizing!CooldownEnds(s)
  PROVE  SizesTyped'
<1>1. UNCHANGED <<v3, v7, v8, v9, v11, v12, v13>>
  BY DEF Sizing!SellRefused, Sizing!Hold, Sizing!CooldownEnds
<1>2. v4' \subseteq v4 /\ v6' \subseteq v6 \cup {s}
  BY DEF Sizing!SellRefused, Sizing!Hold, Sizing!CooldownEnds, Sizing!Visits, Sizing!Cooled
<1> QED BY <1>1, <1>2 DEF SizesTyped

LEMMA FillsTyped ==
  ASSUME SizesTyped, Sizing!Figures, NEW s \in Symbols, Sizing!BuyFills(s)
  PROVE  SizesTyped'
<1>1. v8[s] \in Nat /\ v9[s] \in Nat /\ v11[s] \in Nat \ {0} /\ v2[s] \in Nat
  BY QuoteIsNatural DEF SizesTyped, Sizing!BuyFills
<1>2. v8' = [v8 EXCEPT ![s] = @ + v11[s]]
  BY DEF Sizing!BuyFills
<1>3. v8'[s] = v8[s] + v11[s]
  BY <1>2 DEF SizesTyped
<1> DEFINE c == (v8[s] * v9[s] + v11[s] * v2[s]) \div (v8[s] + v11[s])
<1>4. v9' = [v9 EXCEPT ![s] = c]
  BY <1>3 DEF Sizing!BuyFills
<1>5. c \in Nat
  BY <1>1, AverageIsNatural
<1> HIDE DEF c
<1>6. v9' \in [Symbols -> Nat] /\ v8' \in [Symbols -> Nat]
  BY <1>1, <1>2, <1>4, <1>5 DEF SizesTyped
<1>7. v11' \in [Symbols -> Nat] /\ UNCHANGED <<v3, v4, v6, v7, v12, v13>>
  BY DEF Sizing!BuyFills, SizesTyped
<1> QED BY <1>6, <1>7 DEF SizesTyped

LEMMA LapsesTyped ==
  ASSUME SizesTyped, NEW s \in Symbols, Sizing!BuyLapses(s)
  PROVE  SizesTyped'
<1>1. v11' \in [Symbols -> Nat] /\ UNCHANGED <<v3, v4, v6, v7, v8, v9, v12, v13>>
  BY DEF Sizing!BuyLapses, SizesTyped
<1> QED BY <1>1 DEF SizesTyped

LEMMA SyncTyped ==
  ASSUME SizesTyped, Sizing!Figures, Sizing!Figures', Sizing!Sync
  PROVE  SizesTyped'
<1> DEFINE synced == [s \in Symbols |-> (v8[s] * v2[s]) \div Sizing!Unit]
           value == IF Sizing!isSimulated THEN v3.value ELSE synced
           funds == IF Sizing!isSimulated THEN v3.funds ELSE v10
           units == IF Sizing!isSimulated THEN v3.units ELSE v8
           cost == IF Sizing!isSimulated THEN v3.cost ELSE v9
           nav == funds + Sizing!Total(value)
<1>1. v3' = [v3 EXCEPT !.units = units, !.cost = cost, !.value = value, !.funds = funds, !.nav = nav]
  BY DEF Sizing!Sync
<1>2. v3 \in SyncedBook /\ v8 \in [Symbols -> Nat] /\ v9 \in [Symbols -> Nat]
  BY DEF SizesTyped
<1>3. synced \in [Symbols -> Nat]
  <2>1. ASSUME NEW s \in Symbols PROVE (v8[s] * v2[s]) \div Sizing!Unit \in Nat
    <3>1. v8[s] * v2[s] \in Nat
      BY <1>2, QuoteIsNatural
    <3> QED BY <3>1, UnitIsPositive, QuotientIsNatural
  <2> QED BY <2>1
<1>4. units \in [Symbols -> Nat] /\ cost \in [Symbols -> Nat] /\ value \in [Symbols -> Nat]
  <2> HIDE DEF synced
  <2> QED BY <1>2, <1>3 DEF SyncedBook
<1>5. v3'.nav \in Int /\ v3'.funds \in Int
  BY DEF Sizing!Figures
<1> HIDE DEF synced, value, funds, units, cost, nav
<1>6. v3'.nav = nav /\ v3'.funds = funds
  BY <1>1, <1>2 DEF SyncedBook
<1>7. v3' \in SyncedBook
  BY <1>1, <1>2, <1>4, <1>5, <1>6 DEF SyncedBook
<1>8. v13' \in 0..MaxSyncs
  BY BoundsAssumption DEF Sizing!Sync, SizesTyped
<1>9. v4' = Symbols /\ v7' \in BOOLEAN /\ UNCHANGED <<v6, v8, v9, v11, v12>>
  BY DEF Sizing!Sync
<1> QED BY <1>7, <1>8, <1>9 DEF SizesTyped

LEMMA SizingTypes ==
  ASSUME SizesTyped, Sizing!HeatIsSpent, NextSizing
  PROVE  SizesTyped'
<1>1. Sizing!Figures
  BY DEF Sizing!HeatIsSpent
<1>2. Sizing!Figures'
  BY PartsSuffice, SizingStep DEF Parts
<1>3. CASE Sizing!PriceMoves
  BY <1>3 DEF Sizing!PriceMoves, SizesTyped
<1> QED BY <1>1, <1>2, <1>3, BuysTyped, AddsTyped, SellsTyped, IdleTyped, FillsTyped, LapsesTyped,
        SyncTyped DEF NextSizing
=============================================================================
